---------------------------- MODULE JobQueueProofs ----------------------------
(***************************************************************************)
(* Proofs about JobQueue for any projects, any overlapping deletions, any    *)
(* limit of attempts and any number of shutdowns, crashes and calls that throw. *)
(*                                                                         *)
(* A queued job is shown by the last snapshot, or whoever will publish the     *)
(* next one is still on its way (Shown); the worker rests only when that       *)
(* snapshot has nothing it may run (RestIsEarned).                             *)
(*                                                                         *)
(* And about JobFeed, which brings those snapshots to the browser, for any jobs, *)
(* authors and reconnections: what the browser does not show yet is on its way   *)
(* (OnItsWay).                                                                   *)
(***************************************************************************)
EXTENDS JobQueue, JobFeed, TLAPS

States == {"none", "queued", "running", "completed", "failed"}
Folders == {"none", "managed", "tombstone"}
WorkerPoints == {"none", "list", "pick", "mark", "begin", "shown", "run", "complete", "fail",
                 "publish", "ensure", "again", "fresh"}
RefreshPoints == {"none", "retry", "reconcile", "list", "set"}
DeletePoints == {"none", "waiting", "stopping", "queued", "commit", "resume"}

Job == [state : States, attempts : Nat, retryable : BOOLEAN]
WorkerState ==
    [at : WorkerPoints, key : Keys \cup {NoKey}, listed : SUBSET Keys, inspection : BOOLEAN]
RefreshState ==
    [at : RefreshPoints, key : Keys \cup {NoKey}, listed : SUBSET Keys, tracked : BOOLEAN, queued : BOOLEAN]
Deletion == [at : DeletePoints, owner : Owners \cup {NoOwner}]
Strays == [missed : BOOLEAN, died : BOOLEAN, twice : SUBSET Owners]

QueueTypeOK ==
    /\ jobs \in [Keys -> Job]
    /\ indexed \subseteq Owners
    /\ folder \in [Owners -> Folders]
    /\ inspected \subseteq Owners /\ sprites \subseteq Owners
    /\ blocked \subseteq Owners
    /\ seen \subseteq Keys
    /\ worker \in WorkerState
    /\ refresher \in RefreshState
    /\ deleters \in [Deleters -> Deletion]
    /\ server \in {"up", "stopping", "down"}
    /\ strays \in Strays
    /\ mishaps \in Nat

\* Nothing runs in a server that is down; an indexed project has its folder; the worker
\* and the refresher that are not there hold nothing; the worker has a job past its choice.
ControlHolds ==
    /\ server = "down" => /\ worker = NoWorker /\ refresher = NoRefresh /\ blocked = {}
                          /\ \A d \in Deleters : deleters[d] = NoDelete
    /\ \A p \in indexed : folder[p] # "none"
    /\ worker.at = "none" => worker = NoWorker
    /\ refresher.at = "none" => refresher = NoRefresh
    /\ worker.at \in {"none", "list", "pick"} => worker.key = NoKey
    /\ worker.at \notin {"none", "list", "pick"} => worker.key \in Keys
    /\ \A d \in Deleters : IF deleters[d].at = "none" THEN deleters[d] = NoDelete
                                                      ELSE deleters[d].owner \in Owners

\* The last snapshot shows the job, or its folder is away, or a publication on its way
\* will show it: the worker lists again unless it is about to choose from its last list.
Shown(k) ==
    \/ k \in seen
    \/ folder[k[1]] = "tombstone"
    \/ worker # NoWorker /\ (worker.at = "pick" => k \in worker.listed)
    \/ refresher.at \in {"reconcile", "list"}
    \/ refresher.at = "set" /\ k \in refresher.listed

QueueIsShown == server = "up" /\ ~ strays.missed /\ ~ strays.died => \A k \in Queued : Shown(k)

\* The worker rests only when the last snapshot has nothing it may run.
RestIsEarned ==
    server = "up" /\ ~ strays.died /\ worker = NoWorker => \A k \in seen : k[1] \in blocked

\* A deletion that no other of its project has disturbed has its project blocked, no
\* reconciliation beside it once it waited for the operations, and the worker elsewhere
\* once it waited for the worker.
BlocksHold ==
    \A d \in Deleters :
        LET p == deleters[d].owner
        IN  deleters[d].at # "none" /\ p \notin strays.twice =>
              /\ p \in blocked
              /\ \A e \in Deleters \ {d} : deleters[e].owner # p
              /\ deleters[d].at # "waiting" => refresher.at # "reconcile"
              /\ deleters[d].at \in {"queued", "commit"} => worker.key[1] # p

QueueInv ==
    QueueTypeOK /\ ControlHolds /\ QueueIsShown /\ RestIsEarned /\ BlocksHold

----------------------------------------------------------------------------
(* Types and control.                                                      *)

LEMMA KeyFacts ==
    /\ \A k \in Keys : k[1] \in Owners /\ k # NoKey
    /\ \A p \in Owners : Inspection(p) \in Keys /\ Thumbnails(p) \in Keys
                         /\ Inspection(p)[1] = p /\ Thumbnails(p)[1] = p
    /\ NoKey[1] = NoOwner
  BY NoOwnerAssumption DEF Keys, Types, NoKey, Inspection, Thumbnails

LEMMA QueueInitHolds == QueueInit => QueueInv
  <1> SUFFICES ASSUME QueueInit PROVE QueueInv
    OBVIOUS
  <1> USE DEF QueueInit, NoWorker, NoRefresh, NoDelete
  <1>1. QueueTypeOK
    BY DEF QueueTypeOK, Job, WorkerState, RefreshState, Deletion, Strays,
           States, Folders, WorkerPoints, RefreshPoints, DeletePoints, Absent
  <1>2. ControlHolds
    BY DEF ControlHolds
  <1>3. Queued = {}
    BY DEF Queued
  <1>4. QueueIsShown /\ RestIsEarned /\ BlocksHold
    BY <1>3 DEF QueueIsShown, RestIsEarned, BlocksHold
  <1> QED
    BY <1>1, <1>2, <1>4 DEF QueueInv

\* The jobs ensured for the thumbnails, and those a recovery puts back in the queue.
LEMMA EnsuredType ==
    ASSUME QueueTypeOK, NEW p \in Owners
    PROVE  Ensured(p) \in Job
  BY KeyFacts DEF QueueTypeOK, Ensured, NewQueuedJob, Absent, Job, States

LEMMA RecoveredType ==
    ASSUME NEW job \in Job
    PROVE  Recovered(job) \in Job
  BY DEF Recovered, Job, States

LEMMA ReconciledType ==
    ASSUME QueueTypeOK, NEW failed \in SUBSET Owners
    PROVE  JobsReconciled(failed) \in [Keys -> Job]
  BY EnsuredType, KeyFacts DEF JobsReconciled, QueueTypeOK

\* The updates of the records keep their types.
LEMMA Updates ==
    ASSUME QueueTypeOK
    PROVE  /\ NoWorker \in WorkerState /\ NoRefresh \in RefreshState /\ NoDelete \in Deletion
           /\ QueuedJobs \subseteq Keys /\ Queued \subseteq Keys
           /\ \A listed \in SUBSET Keys : CanRun(listed) \subseteq listed
           /\ \A at \in WorkerPoints :
                /\ [worker EXCEPT !.at = at] \in WorkerState
                /\ [worker EXCEPT !.at = at, !.listed = QueuedJobs] \in WorkerState
           /\ LookAgain \in WorkerState
           /\ \A at \in RefreshPoints :
                /\ [refresher EXCEPT !.at = at] \in RefreshState
                /\ [refresher EXCEPT !.at = at, !.key = NoKey] \in RefreshState
                /\ [NoRefresh EXCEPT !.at = at] \in RefreshState
                /\ \A k \in Keys : [NoRefresh EXCEPT !.at = at, !.key = k, !.tracked = TRUE] \in RefreshState
           /\ \A at \in DeletePoints : \A d \in Deleters : [deleters[d] EXCEPT !.at = at] \in Deletion
  <1> USE DEF QueueTypeOK, WorkerState, RefreshState, Deletion
  <1>1. NoWorker \in WorkerState /\ NoRefresh \in RefreshState /\ NoDelete \in Deletion
    BY DEF NoWorker, NoRefresh, NoDelete, WorkerPoints, RefreshPoints, DeletePoints
  <1>2. /\ QueuedJobs \subseteq Keys /\ Queued \subseteq Keys
        /\ \A listed \in SUBSET Keys : CanRun(listed) \subseteq listed
    BY DEF QueuedJobs, Queued, CanRun
  <1>3. LookAgain \in WorkerState
    BY <1>1 DEF LookAgain, WorkerPoints
  <1> QED
    BY <1>1, <1>2, <1>3

LEMMA PublishType ==
    ASSUME QueueTypeOK, NEW listed \in SUBSET Keys, Publish(listed)
    PROVE  seen' \subseteq Keys /\ strays' \in Strays
  BY DEF QueueTypeOK, Publish, Strays

LEMMA WorkerDiesType ==
    ASSUME QueueTypeOK, WorkerDies
    PROVE  worker' \in WorkerState /\ strays' \in Strays /\ deleters' \in [Deleters -> Deletion]
  <1>1. strays' \in Strays
    BY DEF QueueTypeOK, WorkerDies, Strays
  <1>2. \A d \in Deleters : [deleters[d] EXCEPT !.at = "resume"] \in Deletion
    BY Updates DEF DeletePoints
  <1> QED
    BY <1>1, <1>2, Updates DEF QueueTypeOK, WorkerDies

\* A call that throws resumes the deletions that wait for it.
LEMMA ThrowType ==
    ASSUME QueueTypeOK, CallThrows
    PROVE  refresher' \in RefreshState /\ deleters' \in [Deleters -> Deletion]
  <1>1. \A d \in Deleters : [deleters[d] EXCEPT !.at = "resume"] \in Deletion
    BY Updates DEF DeletePoints
  <1> QED
    BY <1>1, Updates DEF QueueTypeOK, CallThrows

LEMMA TypeStep == QueueTypeOK /\ ControlHolds /\ QueueNext => QueueTypeOK'
  <1> SUFFICES ASSUME QueueTypeOK, ControlHolds, QueueNext PROVE QueueTypeOK'
    OBVIOUS
  <1> USE DEF QueueTypeOK, WorkerPoints, RefreshPoints, DeletePoints
  <1>0. worker.at \notin {"none", "list", "pick"} => worker.key \in Keys /\ Owner \in Owners
    BY KeyFacts DEF ControlHolds, Owner
  <1>1. worker.listed \subseteq Keys /\ refresher.listed \subseteq Keys
    BY DEF WorkerState, RefreshState
  <1>2. /\ QueuedJobs \in SUBSET Keys /\ NoWorker \in WorkerState /\ LookAgain \in WorkerState
        /\ NoRefresh \in RefreshState /\ NoDelete \in Deletion
        /\ \A listed \in SUBSET Keys : CanRun(listed) \subseteq Keys
    BY Updates
  <1>28. Mishap => mishaps' \in Nat
    BY DEF Mishap
  <1>24. \A at \in WorkerPoints : GoTo(at) => worker' \in WorkerState
    BY DEF GoTo, WorkerState
  <1>25. WorkerDies =>
           /\ worker' \in WorkerState /\ strays' \in Strays /\ deleters' \in [Deleters -> Deletion]
    BY WorkerDiesType
  <1>3. \A job \in Job : worker.key \in Keys /\ Marked(job) => jobs' \in [Keys -> Job]
    BY DEF Marked
  <1>4. CASE List
    <2>1. [worker EXCEPT !.at = "pick", !.listed = QueuedJobs] \in WorkerState
      BY <1>2 DEF WorkerState
    <2>2. /\ worker' \in WorkerState /\ strays' \in Strays /\ deleters' \in [Deleters -> Deletion]
          /\ mishaps' \in Nat
      BY <1>2, <1>25, <1>4, <2>1 DEF List, WorkerEnds, Mishap
    <2> QED
      BY <1>4, <2>2 DEF List, OtherWork
  <1>5. CASE Pick
    <2>1. seen' \subseteq Keys /\ strays' \in Strays
      BY <1>1, <1>5, PublishType DEF Pick
    <2>2. \A k \in Keys :
            [worker EXCEPT !.at = "mark", !.key = k, !.inspection = FALSE] \in WorkerState
      BY DEF WorkerState
    <2>3. worker' \in WorkerState
      BY <1>1, <1>2, <1>5, <2>2 DEF Pick, WorkerEnds
    <2> QED
      BY <1>5, <2>1, <2>3 DEF Pick, OtherWork
  <1>6. CASE MarkRunning
    <2>1. worker.key \in Keys
      BY <1>0, <1>6 DEF MarkRunning, WorkerAt
    <2>2. [jobs[worker.key] EXCEPT !.state = "running", !.attempts = jobs[worker.key].attempts + 1] \in Job
      <3>1. PICK job \in Job : job = jobs[worker.key]
        BY <2>1
      <3>2. \A n \in Nat : [job EXCEPT !.state = "running", !.attempts = n] \in Job
        BY DEF States, Job
      <3>3. job.attempts + 1 \in Nat
        BY DEF Job
      <3> QED
        BY <3>1, <3>2, <3>3
    <2>3. /\ jobs' \in [Keys -> Job] /\ worker' \in WorkerState /\ strays' \in Strays
          /\ deleters' \in [Deleters -> Deletion] /\ mishaps' \in Nat
      BY <1>3, <1>24, <1>25, <1>6, <2>1, <2>2 DEF MarkRunning, Mishap
    <2> QED
      BY <1>6, <2>3 DEF MarkRunning, OtherWork
  <1>7. CASE Inspect \/ GenerateThumbnails \/ RunFails \/ Pause
    <2>1. worker.key \in Keys /\ Owner \in Owners
      BY <1>0, <1>7 DEF Inspect, GenerateThumbnails, RunFails, Pause, WorkerAt
    <2>2. [worker EXCEPT !.at = "complete", !.inspection = TRUE] \in WorkerState
      BY DEF WorkerState
    <2>3. \/ worker' = [worker EXCEPT !.at = "complete", !.inspection = TRUE]
          \/ \E at \in {"complete", "fail", "publish"} : GoTo(at)
      BY <1>7 DEF Inspect, GenerateThumbnails, RunFails, Pause
    <2>4. worker' \in WorkerState
      BY <1>24, <2>2, <2>3
    <2>5. mishaps' \in Nat
      BY <1>7 DEF Inspect, GenerateThumbnails, RunFails, Pause, Mishap
    <2>6. inspected' \subseteq Owners /\ sprites' \subseteq Owners
      BY <1>7, <2>1 DEF Inspect, GenerateThumbnails, RunFails, Pause
    <2>7. UNCHANGED <<jobs, seen, deleters, strays>> /\ OtherWork
      BY <1>7 DEF Inspect, GenerateThumbnails, RunFails, Pause
    <2> QED
      BY <2>4, <2>5, <2>6, <2>7 DEF OtherWork
  <1>8. CASE MarkCompleted
    <2>1. worker.key \in Keys
      BY <1>0, <1>8 DEF MarkCompleted, WorkerAt
    <2>2. [jobs[worker.key] EXCEPT !.state = "completed"] \in Job
      BY <2>1 DEF States, Job
    <2>3. /\ jobs' \in [Keys -> Job] /\ worker' \in WorkerState /\ strays' \in Strays
          /\ deleters' \in [Deleters -> Deletion] /\ mishaps' \in Nat
      BY <1>3, <1>24, <1>25, <1>8, <2>1, <2>2 DEF MarkCompleted, Mishap
    <2> QED
      BY <1>8, <2>3 DEF MarkCompleted, OtherWork
  <1>9. CASE MarkFailed
    <2>1. worker.key \in Keys
      BY <1>0, <1>9 DEF MarkFailed, WorkerAt
    <2>2. \A retryable \in BOOLEAN :
            [jobs[worker.key] EXCEPT !.state = "failed", !.retryable = retryable] \in Job
      BY <2>1 DEF States, Job
    <2>3. {FALSE, jobs[worker.key].attempts < MaxAttempts} \subseteq BOOLEAN
      OBVIOUS
    <2>4. CASE WorkerDies
      <3>1. mishaps' \in Nat
        BY <1>9 DEF MarkFailed, Mishap
      <3>2. \/ UNCHANGED jobs
            \/ \E retryable \in BOOLEAN :
                 Marked([jobs[worker.key] EXCEPT !.state = "failed", !.retryable = retryable])
        BY <1>9, <2>3 DEF MarkFailed
      <3>3. jobs' \in [Keys -> Job]
        BY <1>3, <2>1, <2>2, <3>2
      <3> QED
        BY <1>25, <1>9, <2>4, <3>1, <3>3 DEF MarkFailed, OtherWork
    <2>5. CASE ~ WorkerDies
      <3>1. /\ GoTo("publish") /\ UNCHANGED <<deleters, strays, mishaps>>
            /\ \E retryable \in BOOLEAN :
                 Marked([jobs[worker.key] EXCEPT !.state = "failed", !.retryable = retryable])
        BY <1>9, <2>3, <2>5 DEF MarkFailed
      <3> QED
        BY <1>3, <1>24, <1>9, <2>1, <2>2, <3>1 DEF MarkFailed, OtherWork
    <2> QED
      BY <2>4, <2>5
  <1>10. CASE PublishFresh \/ Show
    <2>1. CASE PublishFresh
      <3>1. \/ /\ UNCHANGED <<deleters, strays, mishaps>>
               /\ \E at \in {"shown", "ensure", "fresh"} :
                    worker' = [worker EXCEPT !.at = at, !.listed = QueuedJobs]
            \/ Mishap /\ WorkerDies
            \/ Mishap /\ worker' = LookAgain /\ UNCHANGED <<deleters, strays>>
        BY <2>1, Zenon DEF PublishFresh
      <3>2. \A at \in WorkerPoints : [worker EXCEPT !.at = at, !.listed = QueuedJobs] \in WorkerState
        BY Updates
      <3>3. /\ worker' \in WorkerState /\ strays' \in Strays /\ deleters' \in [Deleters -> Deletion]
            /\ mishaps' \in Nat
        BY <1>2, <1>25, <1>28, <3>1, <3>2
      <3> QED
        BY <2>1, <3>3 DEF PublishFresh, OtherWork
    <2>2. CASE Show
      <3>1. seen' \subseteq Keys /\ strays' \in Strays
        BY <1>1, <2>2, PublishType DEF Show
      <3> QED
        BY <1>24, <2>2, <3>1 DEF Show, OtherWork
    <2> QED
      BY <1>10, <2>1, <2>2
  <1>11. CASE EnsureThumbnailJob
    <2>1. Owner \in Owners
      BY <1>0, <1>11 DEF EnsureThumbnailJob, WorkerAt
    <2>2. [jobs EXCEPT ![Thumbnails(Owner)] = Ensured(Owner)] \in [Keys -> Job]
      BY <2>1, EnsuredType, KeyFacts
    <2>3. seen' \subseteq Keys /\ strays' \in Strays
      BY <1>1, <1>11, PublishType DEF EnsureThumbnailJob
    <2>4. worker' \in WorkerState /\ mishaps' \in Nat
      BY <1>2, <1>11, <1>24, <1>28 DEF EnsureThumbnailJob
    <2>5. jobs' \in [Keys -> Job]
      BY <1>11, <2>2 DEF EnsureThumbnailJob
    <2> QED
      BY <1>11, <2>3, <2>4, <2>5 DEF EnsureThumbnailJob, OtherWork
  <1>12. CASE Continue
    <2>1. seen' \subseteq Keys /\ strays' \in Strays
      BY <1>1, <1>12, PublishType DEF Continue
    <2> QED
      BY <1>12, <2>1, Updates DEF Continue, OtherWork
  <1>13. CASE Refresh \/ RefreshReconciles \/ RefreshLists
    <2>1. [refresher EXCEPT !.at = "set", !.listed = QueuedJobs] \in RefreshState
      BY <1>2 DEF RefreshState
    <2>2. refresher' \in RefreshState
      BY <1>13, <2>1, Updates DEF Refresh, RefreshReconciles, RefreshLists, FirstStep
    <2>3. jobs' \in [Keys -> Job]
      <3>1. UNCHANGED jobs \/ \E failed \in SUBSET Owners : jobs' = JobsReconciled(failed)
        BY <1>13 DEF Refresh, RefreshReconciles, RefreshLists
      <3> QED
        BY <3>1, ReconciledType
    <2>4. mishaps' \in Nat /\ CallGoesOn /\ UNCHANGED <<indexed, folder>>
      BY <1>13 DEF Refresh, RefreshReconciles, RefreshLists, Mishap
    <2> QED
      BY <2>2, <2>3, <2>4 DEF CallGoesOn, Caller
  <1>14. CASE RefreshEnds
    <2>1. seen' \subseteq Keys /\ strays' \in Strays
      BY <1>1, <1>14, PublishType DEF RefreshEnds
    <2> QED
      BY <1>14, <2>1, Updates DEF RefreshEnds, Restart, StartWorker
  <1>15. CASE Shutdown \/ Stopped \/ ServerDies
    BY <1>2, <1>15, <1>28 DEF Shutdown, Stopped, ServerDies, ServerEnds
  <1>16. CASE RecoverJobs
    <2>1. jobs' \in [Keys -> Job]
      BY <1>16, EnsuredType, RecoveredType, KeyFacts DEF RecoverJobs
    <2>2. strays' \in Strays
      BY <1>16 DEF RecoverJobs, Strays
    <2> QED
      BY <1>16, <2>1, <2>2, Updates DEF RecoverJobs, Folders
  <1>17. ASSUME NEW k \in Keys, Retry(k) PROVE QueueTypeOK'
    <2>1. refresher' \in RefreshState
      BY <1>17, Updates DEF Retry
    <2> QED
      BY <1>17, <2>1 DEF Retry, CallGoesOn, Caller
  <1>26. CASE RetryWrites
    <2>1. [jobs EXCEPT ![refresher.key].state = "queued"] \in [Keys -> Job]
      <3>1. \A k \in Keys : [jobs[k] EXCEPT !.state = "queued"] \in Job
        BY DEF Job, States
      <3> QED
        BY <3>1
    <2>2. jobs' \in [Keys -> Job] /\ mishaps' \in Nat
      BY <1>26, <2>1 DEF RetryWrites, Mishap
    <2>3. CASE CallThrows /\ UNCHANGED strays
      BY <1>26, <2>2, <2>3, ThrowType DEF RetryWrites, CallThrows, Caller
    <2>4. CASE CallGoesOn /\ refresher' = [refresher EXCEPT !.at = FirstStep, !.key = NoKey]
      <3>1. refresher' \in RefreshState
        BY <2>4, Updates DEF FirstStep
      <3> QED
        BY <1>26, <2>2, <2>4, <3>1 DEF RetryWrites, CallGoesOn, Caller
    <2> QED
      BY <1>26, <2>3, <2>4 DEF RetryWrites
  <1>27. CASE RefreshThrows
    <2>1. strays' \in Strays /\ mishaps' \in Nat
      BY <1>27, <1>28 DEF RefreshThrows, Strays
    <2> QED
      BY <1>27, <2>1, ThrowType DEF RefreshThrows, CallThrows, Caller
  <1>18. ASSUME NEW p \in Owners, ImportProject(p) PROVE QueueTypeOK'
    <2>1. jobs' \in [Keys -> Job]
      <3>1. JobsReconciled({}) \in [Keys -> Job] /\ NewQueuedJob \in Job
        BY ReconciledType DEF NewQueuedJob, Absent, States, Job
      <3> QED
        BY <1>18, <3>1 DEF ImportProject
    <2>2. \A at \in RefreshPoints : [NoRefresh EXCEPT !.at = at, !.queued = TRUE] \in RefreshState
      BY DEF RefreshState, NoRefresh
    <2> QED
      BY <1>18, <2>1, <2>2 DEF ImportProject, FirstStep, CallGoesOn, Caller, Folders
  <1>19. ASSUME NEW d \in Deleters, NEW p \in Owners, StopProject(d, p) PROVE QueueTypeOK'
    <2>1. strays' \in Strays
      BY <1>19 DEF StopProject, Strays
    <2>2. [at |-> "waiting", owner |-> p] \in Deletion
      BY DEF Deletion
    <2> QED
      BY <1>19, <2>1, <2>2 DEF StopProject, Rest
  <1>20. ASSUME NEW d \in Deleters, WaitForOperations(d) \/ WaitForIdle(d) PROVE QueueTypeOK'
    BY <1>20 DEF WaitForOperations, WaitForIdle, DeleterGoes, Rest, Deletion
  <1>21. ASSUME NEW d \in Deleters, Rename(d) PROVE QueueTypeOK'
    BY <1>21 DEF Rename, DeleterGoes, Rest, Folders, Deletion
  <1>22. ASSUME NEW d \in Deleters, CommitDeletion(d) PROVE QueueTypeOK'
    <2>1. deleters' \in [Deleters -> Deletion]
      BY <1>22 DEF CommitDeletion, DeleterGoes, Deletion
    <2>2. strays' \in Strays
      BY <1>22 DEF CommitDeletion, Strays
    <2>3. /\ folder' \in [Owners -> Folders] /\ indexed' \subseteq Owners /\ mishaps' \in Nat
      BY <1>22 DEF CommitDeletion, Folders, Mishap
    <2> QED
      BY <1>22, <2>1, <2>2, <2>3 DEF CommitDeletion
  <1>23. ASSUME NEW d \in Deleters, ResumeProject(d) PROVE QueueTypeOK'
    BY <1>23, Updates DEF ResumeProject, Restart, StartWorker
  <1> QED
    BY <1>4, <1>5, <1>6, <1>7, <1>8, <1>9, <1>10, <1>11, <1>12, <1>13, <1>14, <1>15, <1>16, <1>17,
       <1>18, <1>19, <1>20, <1>21, <1>22, <1>23, <1>26, <1>27 DEF QueueNext

\* The worker acts on the server's side of its world only, and where it is at work.
LEMMA WorkerControl ==
    ASSUME QueueTypeOK, ControlHolds, OtherWork, worker # NoWorker,
           UNCHANGED deleters \/ WorkerDies,
           worker'.at = "none" => worker' = NoWorker,
           IF worker'.at \in {"none", "list", "pick"} THEN worker'.key = NoKey ELSE worker'.key \in Keys
    PROVE  ControlHolds'
  <1>1. server' # "down"
    BY DEF ControlHolds, OtherWork
  <1>2. \A d \in Deleters : IF deleters'[d].at = "none" THEN deleters'[d] = NoDelete
                                                       ELSE deleters'[d].owner \in Owners
    BY DEF ControlHolds, WorkerDies, QueueTypeOK, Deletion
  <1> QED
    BY <1>1, <1>2 DEF ControlHolds, OtherWork

\* A call that throws leaves the server's side of its world as it is.
LEMMA ThrowControl ==
    ASSUME QueueTypeOK, ControlHolds, CallThrows, UNCHANGED <<indexed, folder>>, refresher # NoRefresh
    PROVE  ControlHolds'
  <1>1. server' # "down"
    BY DEF ControlHolds, CallThrows, Caller
  <1>2. \A d \in Deleters : IF deleters'[d].at = "none" THEN deleters'[d] = NoDelete
                                                       ELSE deleters'[d].owner \in Owners
    BY DEF ControlHolds, CallThrows, QueueTypeOK, Deletion
  <1> QED
    BY <1>1, <1>2 DEF ControlHolds, CallThrows, Caller

LEMMA ControlStep == QueueTypeOK /\ ControlHolds /\ QueueNext => ControlHolds'
  <1> SUFFICES ASSUME QueueTypeOK, ControlHolds, QueueNext PROVE ControlHolds'
    OBVIOUS
  <1>0. /\ \A at : WorkerAt(at) /\ at # "none" => worker # NoWorker
        /\ worker.at \notin {"none", "list", "pick"} => worker.key \in Keys
        /\ worker.at \in {"none", "list", "pick"} => worker.key = NoKey
        /\ \A at \in WorkerPoints : /\ [worker EXCEPT !.at = at].at = at
                                    /\ [worker EXCEPT !.at = at].key = worker.key
        /\ LookAgain.at = "list" /\ LookAgain.key = NoKey
        /\ NoWorker.at = "none" /\ NoWorker.key = NoKey
    BY DEF WorkerAt, NoWorker, LookAgain, ControlHolds, QueueTypeOK, WorkerState
  <1>1. CASE List
    <2>1. [worker EXCEPT !.at = "pick", !.listed = QueuedJobs].key = worker.key
          /\ [worker EXCEPT !.at = "pick", !.listed = QueuedJobs].at = "pick"
      BY DEF QueueTypeOK, WorkerState
    <2>2. /\ OtherWork /\ worker # NoWorker /\ worker.key = NoKey
          /\ UNCHANGED deleters \/ WorkerDies
          /\ \/ worker' = NoWorker
             \/ worker' = [worker EXCEPT !.at = "pick", !.listed = QueuedJobs]
      BY <1>0, <1>1 DEF List, WorkerEnds, WorkerDies, WorkerAt
    <2> QED
      BY <1>0, <2>1, <2>2, WorkerControl
  <1>2. CASE Pick
    <2>1. \A k \in Keys : LET chosen == [worker EXCEPT !.at = "mark", !.key = k, !.inspection = FALSE]
                          IN  chosen.at = "mark" /\ chosen.key = k
      BY DEF QueueTypeOK, WorkerState
    <2>2. CanRun(worker.listed) \subseteq Keys
      BY DEF QueueTypeOK, WorkerState, CanRun
    <2>3. worker' = NoWorker \/ (worker'.at = "mark" /\ worker'.key \in Keys)
      BY <1>2, <2>1, <2>2 DEF Pick, WorkerEnds
    <2>4. worker # NoWorker /\ OtherWork /\ UNCHANGED deleters
      BY <1>0, <1>2 DEF Pick
    <2> QED
      BY <1>0, <2>3, <2>4, WorkerControl
  <1>3. CASE MarkRunning \/ MarkCompleted \/ MarkFailed
    <2>1. /\ OtherWork /\ worker.at \in {"mark", "complete", "fail"}
          /\ \/ WorkerDies
             \/ UNCHANGED deleters /\ \E at \in {"begin", "publish", "fail"} : GoTo(at)
      BY <1>3 DEF MarkRunning, MarkCompleted, MarkFailed, WorkerAt
    <2>2. \A at \in {"begin", "publish", "fail"} : GoTo(at) => worker'.at = at /\ worker'.key = worker.key
      BY <1>0 DEF GoTo, WorkerPoints
    <2>3. worker' = NoWorker \/ (worker'.at \in {"begin", "publish", "fail"} /\ worker'.key = worker.key)
      BY <2>1, <2>2 DEF WorkerDies
    <2> QED
      BY <1>0, <2>1, <2>3, WorkerControl DEF WorkerAt
  <1>4. CASE Inspect \/ GenerateThumbnails \/ RunFails \/ Pause
    <2>1. LET inspected1 == [worker EXCEPT !.at = "complete", !.inspection = TRUE]
          IN  inspected1.at = "complete" /\ inspected1.key = worker.key
      BY DEF QueueTypeOK, WorkerState
    <2>2. OtherWork /\ UNCHANGED deleters /\ worker.at = "run"
      BY <1>4 DEF Inspect, GenerateThumbnails, RunFails, Pause, WorkerAt
    <2>3. worker'.at \in {"complete", "fail", "publish"} /\ worker'.key = worker.key
      <3>1. \/ worker' = [worker EXCEPT !.at = "complete", !.inspection = TRUE]
            \/ \E at \in {"complete", "fail", "publish"} : worker' = [worker EXCEPT !.at = at]
        BY <1>4 DEF Inspect, GenerateThumbnails, RunFails, Pause, GoTo
      <3> QED
        BY <2>1, <3>1 DEF QueueTypeOK, WorkerState
    <2> QED
      BY <1>0, <2>2, <2>3, WorkerControl DEF WorkerAt
  <1>5. CASE Show \/ EnsureThumbnailJob \/ Continue
    <2>1. OtherWork /\ UNCHANGED deleters /\ worker.at \in {"shown", "ensure", "fresh"}
      BY <1>5 DEF Show, EnsureThumbnailJob, Continue, WorkerAt
    <2>2. \/ worker' = LookAgain
          \/ worker'.at \in {"run", "again"} /\ worker'.key = worker.key
      BY <1>5 DEF Show, EnsureThumbnailJob, Continue, GoTo, QueueTypeOK, WorkerState
    <2> QED
      BY <1>0, <2>1, <2>2, WorkerControl DEF WorkerAt
  <1>16. CASE PublishFresh
    <2>1. /\ OtherWork /\ worker.at \in {"begin", "publish", "again"}
          /\ UNCHANGED deleters \/ WorkerDies
          /\ \/ worker' \in {NoWorker, LookAgain}
             \/ \E at \in {"shown", "ensure", "fresh"} :
                  worker' = [worker EXCEPT !.at = at, !.listed = QueuedJobs]
      BY <1>16, Zenon DEF PublishFresh, WorkerDies
    <2>2. \A at \in {"shown", "ensure", "fresh"} :
            LET listing == [worker EXCEPT !.at = at, !.listed = QueuedJobs]
            IN  listing.at = at /\ listing.key = worker.key
      BY DEF QueueTypeOK, WorkerState
    <2>3. \/ worker' \in {NoWorker, LookAgain}
          \/ worker'.at \in {"shown", "ensure", "fresh"} /\ worker'.key = worker.key
      BY <2>1, <2>2
    <2> QED
      BY <1>0, <2>1, <2>3, WorkerControl DEF WorkerAt
  <1>17. CASE RetryWrites \/ RefreshThrows
    <2>1. refresher # NoRefresh /\ UNCHANGED <<indexed, folder>>
      BY <1>17 DEF RetryWrites, RefreshThrows, NoRefresh
    <2>2. CASE CallThrows
      BY <2>1, <2>2, ThrowControl
    <2>3. CASE ~ CallThrows
      <3>1. CallGoesOn /\ refresher' = [refresher EXCEPT !.at = FirstStep, !.key = NoKey]
        BY <1>17, <2>3 DEF RetryWrites, RefreshThrows
      <3>2. refresher'.at \in {"reconcile", "list"}
        BY <3>1 DEF FirstStep, QueueTypeOK, RefreshState
      <3> QED
        BY <2>1, <3>1, <3>2 DEF CallGoesOn, Caller, ControlHolds
    <2> QED
      BY <2>2, <2>3
  <1>6. CASE Refresh \/ RefreshReconciles \/ RefreshLists
    <2>1. /\ UNCHANGED <<indexed, folder, worker, blocked, deleters, server>> /\ server # "down"
      BY <1>6 DEF Refresh, RefreshReconciles, RefreshLists, CallGoesOn, Caller, ControlHolds, NoRefresh
    <2>2. refresher'.at \in {"reconcile", "list", "set"}
      BY <1>6 DEF Refresh, RefreshReconciles, RefreshLists, FirstStep, NoRefresh, QueueTypeOK, RefreshState
    <2> QED
      BY <2>1, <2>2 DEF ControlHolds
  <1>7. ASSUME NEW k \in Keys, Retry(k) PROVE ControlHolds'
    <2>1. refresher'.at = "retry"
      BY <1>7 DEF Retry, NoRefresh
    <2> QED
      BY <1>7, <2>1 DEF Retry, CallGoesOn, Caller, ControlHolds
  <1>8. ASSUME NEW p \in Owners, ImportProject(p) PROVE ControlHolds'
    <2>1. refresher'.at \in {"reconcile", "list"}
      BY <1>8 DEF ImportProject, FirstStep, NoRefresh
    <2>2. \A q \in indexed' : folder'[q] # "none"
      BY <1>8 DEF ImportProject, ControlHolds, QueueTypeOK
    <2> QED
      BY <1>8, <2>1, <2>2 DEF ImportProject, CallGoesOn, Caller, ControlHolds
  <1>9. CASE RefreshEnds
    <2>1. refresher # NoRefresh
      BY <1>9 DEF RefreshEnds, NoRefresh
    <2>2. UNCHANGED worker \/ worker' = LookAgain
      BY <1>9 DEF RefreshEnds, Restart, StartWorker
    <2>3. UNCHANGED <<indexed, folder, blocked, deleters, server>> /\ refresher' = NoRefresh
      BY <1>9 DEF RefreshEnds, Restart
    <2> QED
      BY <1>0, <2>1, <2>2, <2>3 DEF ControlHolds
  <1>10. CASE Shutdown
    BY <1>10 DEF Shutdown, ControlHolds
  <1>11. CASE Stopped \/ ServerDies
    BY <1>0, <1>11 DEF Stopped, ServerDies, ServerEnds, ControlHolds, NoDelete, NoRefresh
  <1>12. CASE RecoverJobs
    <2>1. \A p \in indexed' : folder'[p] # "none"
      BY <1>12 DEF RecoverJobs, QueueTypeOK
    <2>2. worker' = NoWorker \/ worker' = LookAgain
      BY <1>12 DEF RecoverJobs
    <2>3. server' = "up" /\ UNCHANGED <<refresher, deleters>>
      BY <1>12 DEF RecoverJobs
    <2> QED
      BY <1>0, <2>1, <2>2, <2>3 DEF ControlHolds
  <1>13. ASSUME NEW d \in Deleters, NEW p \in Owners, StopProject(d, p) PROVE ControlHolds'
    BY <1>13 DEF StopProject, Rest, ControlHolds, QueueTypeOK, Deletion
  <1>14. ASSUME NEW d \in Deleters, WaitForOperations(d) \/ WaitForIdle(d) \/ Rename(d) \/ CommitDeletion(d)
         PROVE  ControlHolds'
    <2>1. deleters[d].at \notin {"none"} /\ deleters[d].owner \in Owners /\ server # "down"
      BY <1>14 DEF WaitForOperations, WaitForIdle, Rename, CommitDeletion, DeleterAt, ControlHolds, NoDelete
    <2>2. \E at \in {"stopping", "queued", "commit", "resume"} : DeleterGoes(d, at)
      BY <1>14 DEF WaitForOperations, WaitForIdle, Rename, CommitDeletion
    <2>3. \A e \in Deleters : IF deleters'[e].at = "none" THEN deleters'[e] = NoDelete
                                                         ELSE deleters'[e].owner \in Owners
      BY <2>1, <2>2 DEF DeleterGoes, ControlHolds, QueueTypeOK, Deletion
    <2>4. UNCHANGED <<worker, blocked, refresher, server>>
      BY <1>14 DEF WaitForOperations, WaitForIdle, Rename, CommitDeletion, Rest
    <2>5. \A p \in indexed' : folder'[p] # "none"
      BY <1>14, <2>1 DEF WaitForOperations, WaitForIdle, Rename, CommitDeletion, ControlHolds, QueueTypeOK
    <2> QED
      BY <2>1, <2>3, <2>4, <2>5 DEF ControlHolds
  <1>15. ASSUME NEW d \in Deleters, ResumeProject(d) PROVE ControlHolds'
    <2>1. deleters[d] # NoDelete
      BY <1>15 DEF ResumeProject, DeleterAt, NoDelete
    <2>2. UNCHANGED worker \/ worker' = LookAgain
      BY <1>15 DEF ResumeProject, Restart, StartWorker
    <2>3. \A e \in Deleters : deleters'[e] = NoDelete \/ deleters'[e] = deleters[e]
      BY <1>15 DEF ResumeProject, QueueTypeOK
    <2>4. UNCHANGED <<indexed, folder, refresher, server>>
      BY <1>15 DEF ResumeProject, Restart
    <2>5. server' # "down"
      BY <2>1, <2>4 DEF ControlHolds
    <2>6. \A e \in Deleters : IF deleters'[e].at = "none" THEN deleters'[e] = NoDelete
                                                         ELSE deleters'[e].owner \in Owners
      BY <2>3 DEF ControlHolds, NoDelete
    <2> QED
      BY <1>0, <2>2, <2>4, <2>5, <2>6 DEF ControlHolds
  <1> QED
    BY <1>1, <1>2, <1>3, <1>4, <1>5, <1>6, <1>7, <1>8, <1>9, <1>10, <1>11, <1>12, <1>13, <1>14, <1>15,
       <1>16, <1>17 DEF QueueNext

----------------------------------------------------------------------------
(* No wake-up is lost.                                                     *)

\* What publishing a list hides was not shown before either.
LEMMA PublishShows ==
    ASSUME QueueTypeOK, NEW listed \in SUBSET Keys, Publish(listed), ~ strays'.missed, ~ strays'.died
    PROVE  /\ ~ strays.died /\ seen' = listed
           /\ \A k \in Queued : k \in listed \/ (~ strays.missed /\ k \notin seen)
  <1>1. strays' = [strays EXCEPT !.missed = \E k \in Queued \ listed : strays.missed \/ k \in seen]
    BY DEF Publish
  <1>2. strays'.died = strays.died
        /\ strays'.missed = (\E k \in Queued \ listed : strays.missed \/ k \in seen)
    BY <1>1 DEF QueueTypeOK, Strays
  <1> QED
    BY <1>2 DEF Publish, QueueTypeOK, Strays

\* A list shows every queued job whose folder is not away.
LEMMA ListShows ==
    ASSUME QueueTypeOK, ControlHolds
    PROVE  \A k \in Queued : k \in QueuedJobs \/ folder[k[1]] = "tombstone"
  BY KeyFacts DEF Queued, QueuedJobs, QueueTypeOK, Folders, ControlHolds

\* A worker on its way to another list covers every job.
LEMMA WorkerCovers ==
    ASSUME worker'.at \notin {"none", "pick"}
    PROVE  QueueIsShown'
  BY DEF QueueIsShown, Shown, NoWorker

LEMMA ShownStep == QueueTypeOK /\ ControlHolds /\ QueueIsShown /\ QueueNext => QueueIsShown'
  <1> SUFFICES ASSUME QueueTypeOK, ControlHolds, QueueIsShown, QueueNext,
                      server' = "up", ~ strays'.missed, ~ strays'.died
               PROVE  \A k \in Queued' : Shown(k)'
    BY DEF QueueIsShown
  <1>0. /\ \A at \in WorkerPoints : [worker EXCEPT !.at = at].at = at
        /\ LookAgain.at = "list"
        /\ worker'.at \notin {"none", "pick"} => \A k \in Queued' : Shown(k)'
    BY WorkerCovers DEF QueueTypeOK, WorkerState, NoWorker, LookAgain, QueueIsShown
  <1>00. ~ WorkerDies
    BY DEF WorkerDies, QueueTypeOK, Strays
  <1>1. CASE List
    <2>1. worker' = [worker EXCEPT !.at = "pick", !.listed = QueuedJobs]
      BY <1>00, <1>1 DEF List, OtherWork
    <2>2. worker'.at = "pick" /\ worker'.listed = QueuedJobs
      BY <2>1 DEF QueueTypeOK, WorkerState
    <2>3. UNCHANGED <<jobs, indexed, folder>>
      BY <1>1 DEF List, OtherWork
    <2>4. Queued' = Queued
      BY <2>3 DEF Queued
    <2> QED
      BY <2>2, <2>3, <2>4, ListShows DEF Shown, NoWorker
  <1>2. CASE Pick
    <2>1. worker.listed \in SUBSET Keys /\ worker.at = "pick"
      BY <1>2 DEF Pick, WorkerAt, QueueTypeOK, WorkerState
    <2>2. CASE worker' = NoWorker
      <3>1. /\ ~ strays.died /\ seen' = worker.listed
            /\ \A k \in Queued : k \in worker.listed \/ (~ strays.missed /\ k \notin seen)
        BY <1>2, <2>1, PublishShows DEF Pick
      <3>2. UNCHANGED <<jobs, indexed, folder, refresher, server>>
        BY <1>2 DEF Pick, OtherWork
      <3>3. Queued' = Queued
        BY <3>2 DEF Queued
      <3> QED
        BY <2>1, <3>1, <3>2, <3>3 DEF QueueIsShown, Shown
    <2>3. CASE worker' # NoWorker
      <3>1. \A k \in Keys : [worker EXCEPT !.at = "mark", !.key = k, !.inspection = FALSE].at = "mark"
        BY DEF QueueTypeOK, WorkerState
      <3>2. CanRun(worker.listed) \subseteq Keys
        BY <2>1 DEF CanRun
      <3>3. \E k \in CanRun(worker.listed) :
              worker' = [worker EXCEPT !.at = "mark", !.key = k, !.inspection = FALSE]
        BY <1>2, <2>3 DEF Pick, WorkerEnds
      <3>4. worker'.at = "mark"
        BY <3>1, <3>2, <3>3
      <3> QED
        BY <1>0, <3>4
    <2> QED
      BY <2>2, <2>3
  <1>3. CASE MarkRunning \/ MarkCompleted \/ MarkFailed
    <2>1. \E at \in {"begin", "publish", "fail"} : GoTo(at)
      BY <1>00, <1>3 DEF MarkRunning, MarkCompleted, MarkFailed
    <2> QED
      BY <1>0, <2>1 DEF GoTo, WorkerPoints
  <1>4. CASE Inspect \/ GenerateThumbnails \/ RunFails \/ Pause
    <2>2. [worker EXCEPT !.at = "complete", !.inspection = TRUE].at = "complete"
      BY DEF QueueTypeOK, WorkerState
    <2>3. \/ worker' = [worker EXCEPT !.at = "complete", !.inspection = TRUE]
          \/ worker' = [worker EXCEPT !.at = "complete"]
          \/ worker' = [worker EXCEPT !.at = "fail"]
          \/ worker' = [worker EXCEPT !.at = "publish"]
      BY <1>4 DEF Inspect, GenerateThumbnails, RunFails, Pause, GoTo
    <2>4. worker'.at \in {"complete", "fail", "publish"}
      BY <1>0, <2>2, <2>3 DEF WorkerPoints
    <2> QED
      BY <1>0, <2>4
  <1>5. CASE PublishFresh \/ Show \/ EnsureThumbnailJob \/ Continue
    <2>1. worker'.at \in {"list", "shown", "run", "ensure", "again", "fresh"}
      <3>1. CASE PublishFresh
        <4>1. \/ worker' = LookAgain
              \/ \E at \in {"shown", "ensure", "fresh"} :
                   worker' = [worker EXCEPT !.at = at, !.listed = QueuedJobs]
          BY <1>00, <3>1, Zenon DEF PublishFresh
        <4> QED
          BY <1>0, <4>1 DEF QueueTypeOK, WorkerState
      <3>2. CASE Show \/ EnsureThumbnailJob \/ Continue
        BY <1>0, <3>2 DEF Show, EnsureThumbnailJob, Continue, GoTo, QueueTypeOK, WorkerState
      <3> QED
        BY <1>5, <3>1, <3>2
    <2> QED
      BY <1>0, <2>1
  <1>6. CASE Refresh \/ RefreshReconciles
    <2>1. refresher'.at \in {"reconcile", "list"}
      BY <1>6 DEF Refresh, RefreshReconciles, FirstStep, NoRefresh, QueueTypeOK, RefreshState
    <2> QED
      BY <2>1 DEF Shown
  <1>7. CASE RefreshLists
    <2>1. refresher'.at = "set" /\ refresher'.listed = QueuedJobs
      BY <1>7 DEF RefreshLists, QueueTypeOK, RefreshState
    <2>2. UNCHANGED <<jobs, indexed, folder>>
      BY <1>7 DEF RefreshLists
    <2>3. Queued' = Queued
      BY <2>2 DEF Queued
    <2> QED
      BY <2>1, <2>2, <2>3, ListShows DEF Shown
  <1>8. CASE RefreshEnds
    <2>1. refresher.listed \in SUBSET Keys
      BY DEF QueueTypeOK, RefreshState
    <2>2. /\ ~ strays.died /\ seen' = refresher.listed
          /\ \A k \in Queued : k \in refresher.listed \/ (~ strays.missed /\ k \notin seen)
      BY <1>8, <2>1, PublishShows DEF RefreshEnds
    <2>3. UNCHANGED <<jobs, indexed, folder, server>> /\ refresher.at = "set"
      BY <1>8 DEF RefreshEnds, Restart
    <2>4. Queued' = Queued
      BY <2>3 DEF Queued
    <2>5. CASE worker' = worker
      BY <2>2, <2>3, <2>4, <2>5 DEF QueueIsShown, Shown
    <2>6. CASE worker' # worker
      <3>1. worker' = LookAgain
        BY <1>8, <2>6 DEF RefreshEnds, Restart, StartWorker
      <3> QED
        BY <1>0, <3>1
    <2> QED
      BY <2>5, <2>6
  <1>9. ASSUME NEW k \in Keys, Retry(k) PROVE \A j \in Queued' : Shown(j)'
    <2>1. UNCHANGED <<jobs, indexed, folder, seen, worker, strays, server>> /\ refresher.at = "none"
      BY <1>9 DEF Retry, CallGoesOn, Caller, NoRefresh
    <2>2. Queued' = Queued
      BY <2>1 DEF Queued
    <2> QED
      BY <2>1, <2>2 DEF QueueIsShown, Shown
  <1>16. CASE RetryWrites
    <2>1. CASE refresher' = [refresher EXCEPT !.at = FirstStep, !.key = NoKey]
      <3>1. refresher'.at \in {"reconcile", "list"}
        BY <2>1 DEF FirstStep, QueueTypeOK, RefreshState
      <3> QED
        BY <3>1 DEF Shown
    <2>2. CASE CallThrows /\ UNCHANGED <<jobs, indexed, folder, strays>>
      <3>1. UNCHANGED <<seen, worker, server>> /\ refresher.at = "retry"
        BY <1>16, <2>2 DEF RetryWrites, CallThrows, Caller
      <3>2. Queued' = Queued
        BY <2>2 DEF Queued
      <3> QED
        BY <2>2, <3>1, <3>2 DEF QueueIsShown, Shown
    <2> QED
      BY <1>16, <2>1, <2>2 DEF RetryWrites
  <1>17. CASE RefreshThrows
    <2>1. strays'.missed = (strays.missed \/ ~ Queued \subseteq seen)
      BY <1>17 DEF RefreshThrows, QueueTypeOK, Strays
    <2>2. Queued' = Queued /\ seen' = seen
      BY <1>17 DEF RefreshThrows, CallThrows, Caller, Queued
    <2> QED
      BY <2>1, <2>2 DEF Shown
  <1>10. ASSUME NEW p \in Owners, ImportProject(p) PROVE \A j \in Queued' : Shown(j)'
    <2>1. refresher'.at \in {"reconcile", "list"}
      BY <1>10 DEF ImportProject, FirstStep, NoRefresh
    <2> QED
      BY <2>1 DEF Shown
  <1>11. CASE Shutdown \/ Stopped \/ ServerDies
    BY <1>11 DEF Shutdown, Stopped, ServerDies, ServerEnds
  <1>12. CASE RecoverJobs
    <2>1. seen' = Queued'
      BY <1>12 DEF RecoverJobs, Queued
    <2> QED
      BY <2>1 DEF Shown
  <1>13. ASSUME NEW d \in Deleters,
                (\E p \in Owners : StopProject(d, p)) \/ WaitForOperations(d) \/ WaitForIdle(d) \/ Rename(d)
         PROVE  \A j \in Queued' : Shown(j)'
    <2>1. /\ UNCHANGED <<jobs, indexed, seen, worker, refresher, server>>
          /\ strays'.missed = strays.missed /\ strays'.died = strays.died
      BY <1>13 DEF StopProject, WaitForOperations, WaitForIdle, Rename, Rest, QueueTypeOK, Strays
    <2>2. \A p \in Owners : folder'[p] = folder[p] \/ folder'[p] = "tombstone"
      BY <1>13 DEF StopProject, WaitForOperations, WaitForIdle, Rename, QueueTypeOK
    <2>3. Queued' = Queued
      BY <2>1 DEF Queued
    <2>4. \A k \in Queued : k[1] \in Owners /\ Shown(k)
      BY <2>1, KeyFacts DEF QueueIsShown, Queued
    <2> QED
      BY <2>1, <2>2, <2>3, <2>4 DEF Shown
  <1>14. ASSUME NEW d \in Deleters, CommitDeletion(d) PROVE \A j \in Queued' : Shown(j)'
    <2> DEFINE p == deleters[d].owner
    <2>0. p \in Owners /\ deleters[d].at = "commit"
      BY <1>14 DEF CommitDeletion, DeleterAt, ControlHolds
    <2>1. UNCHANGED <<jobs, seen, worker, refresher, server>> /\ indexed' \subseteq indexed
      BY <1>14 DEF CommitDeletion
    <2>2. Queued' \subseteq Queued
      BY <2>1 DEF Queued
    <2>3. /\ strays'.died = strays.died
          /\ ~ strays.missed
          /\ \/ p \notin indexed'
             \/ \A k \in Queued \ seen : k[1] # p
      <3>1. CASE indexed' = indexed \ {p} /\ UNCHANGED strays
        BY <3>1
      <3>2. CASE strays' = [strays EXCEPT !.missed = strays.missed \/ \E k \in Queued \ seen : k[1] = p]
        <4>1. strays'.died = strays.died
              /\ strays'.missed = (strays.missed \/ \E k \in Queued \ seen : k[1] = p)
          BY <3>2 DEF QueueTypeOK, Strays
        <4> QED
          BY <4>1
      <3> QED
        BY <1>14, <3>1, <3>2 DEF CommitDeletion
    <2>4. \A q \in Owners \ {p} : folder'[q] = folder[q]
      BY <1>14, <2>0 DEF CommitDeletion, QueueTypeOK
    <2>5. \A k \in Queued' : k \in seen \/ k[1] # p
      BY <2>2, <2>3 DEF Queued
    <2>6. \A k \in Queued' : Shown(k) /\ k[1] \in Owners
      BY <2>1, <2>2, <2>3, KeyFacts DEF QueueIsShown, Queued
    <2> HIDE DEF p
    <2> QED
      BY <2>1, <2>4, <2>5, <2>6 DEF Shown
  <1>15. ASSUME NEW d \in Deleters, ResumeProject(d) PROVE \A j \in Queued' : Shown(j)'
    <2>1. UNCHANGED <<jobs, indexed, folder, seen, strays, refresher, server>>
      BY <1>15 DEF ResumeProject, Restart
    <2>2. Queued' = Queued
      BY <2>1 DEF Queued
    <2>3. worker' = worker \/ worker' = LookAgain
      BY <1>15 DEF ResumeProject, Restart, StartWorker
    <2>4. CASE worker' = worker
      BY <2>1, <2>2, <2>4 DEF QueueIsShown, Shown
    <2>5. CASE worker' = LookAgain
      BY <1>0, <2>5
    <2> QED
      BY <2>3, <2>4, <2>5
  <1> QED
    BY <1>1, <1>2, <1>3, <1>4, <1>5, <1>6, <1>7, <1>8, <1>9, <1>10, <1>11, <1>12, <1>13, <1>14, <1>15,
       <1>16, <1>17 DEF QueueNext

\* A worker that is started looks at jobs it may run; one that is not has none.
LEMMA StartEarned ==
    ASSUME NEW keys \in SUBSET Keys, StartWorker(keys), server = "up", worker' = NoWorker
    PROVE  worker = NoWorker /\ \A k \in keys : k[1] \in blocked'
  <1>1. LookAgain # NoWorker
    BY DEF NoWorker, LookAgain
  <1>2. worker = NoWorker /\ CanRun(keys) = {}
    BY <1>1 DEF StartWorker
  <1> QED
    BY <1>2 DEF CanRun

LEMMA RestStep == QueueTypeOK /\ ControlHolds /\ RestIsEarned /\ QueueNext => RestIsEarned'
  <1> SUFFICES ASSUME QueueTypeOK, ControlHolds, RestIsEarned, QueueNext,
                      server' = "up", ~ strays'.died, worker' = NoWorker
               PROVE  \A k \in seen' : k[1] \in blocked'
    BY DEF RestIsEarned
  <1>0. ~ WorkerDies /\ worker'.at = "none" /\ LookAgain # NoWorker
    BY DEF WorkerDies, QueueTypeOK, Strays, NoWorker, LookAgain
  <1>00. ASSUME worker = NoWorker, UNCHANGED <<seen, server>>, strays'.died = strays.died, blocked \subseteq blocked'
         PROVE  \A k \in seen' : k[1] \in blocked'
    BY <1>00 DEF RestIsEarned
  <1>1. ~ List
    BY <1>0 DEF List, WorkerEnds, OtherWork, QueueTypeOK, WorkerState
  <1>2. CASE Pick
    <2>1. \A k \in Keys : [worker EXCEPT !.at = "mark", !.key = k, !.inspection = FALSE].at = "mark"
      BY DEF QueueTypeOK, WorkerState
    <2>2. CanRun(worker.listed) \subseteq Keys
      BY DEF CanRun, QueueTypeOK, WorkerState
    <2>3. CanRun(worker.listed) = {} /\ seen' = worker.listed
      BY <1>0, <1>2, <2>1, <2>2 DEF Pick, Publish
    <2> QED
      BY <2>3 DEF CanRun
  <1>3. ~ MarkRunning /\ ~ MarkCompleted /\ ~ MarkFailed
    <2>1. \A at \in {"begin", "publish", "fail"} : ~ GoTo(at)
      BY <1>0 DEF GoTo, QueueTypeOK, WorkerState
    <2> QED
      BY <1>0, <2>1 DEF MarkRunning, MarkCompleted, MarkFailed
  <1>4. ~ Inspect /\ ~ GenerateThumbnails /\ ~ RunFails /\ ~ Pause
    <2>1. [worker EXCEPT !.at = "complete", !.inspection = TRUE].at = "complete"
          /\ [worker EXCEPT !.at = "complete"].at = "complete" /\ [worker EXCEPT !.at = "fail"].at = "fail"
          /\ [worker EXCEPT !.at = "publish"].at = "publish"
      BY DEF QueueTypeOK, WorkerState
    <2> QED
      BY <1>0, <2>1 DEF Inspect, GenerateThumbnails, RunFails, Pause, GoTo
  <1>5. ~ PublishFresh /\ ~ Show /\ ~ EnsureThumbnailJob /\ ~ Continue
    <2>1. \A at \in WorkerPoints \ {"none"} : /\ [worker EXCEPT !.at = at, !.listed = QueuedJobs] # NoWorker
                                             /\ [worker EXCEPT !.at = at] # NoWorker
      BY DEF NoWorker, QueueTypeOK, WorkerState
    <2>2. ~ PublishFresh
      BY <1>0, <2>1 DEF PublishFresh, WorkerPoints
    <2> QED
      BY <1>0, <2>1, <2>2 DEF Show, EnsureThumbnailJob, Continue, GoTo, WorkerPoints
  <1>6. CASE Refresh \/ RefreshReconciles \/ RefreshLists
    BY <1>00, <1>6 DEF Refresh, RefreshReconciles, RefreshLists, CallGoesOn, Caller
  <1>14. CASE RetryWrites \/ RefreshThrows
    <2>1. Caller /\ strays'.died = strays.died
      BY <1>14 DEF RetryWrites, RefreshThrows, CallThrows, CallGoesOn, QueueTypeOK, Strays
    <2> QED
      BY <1>00, <2>1 DEF Caller
  <1>7. ASSUME NEW k \in Keys, Retry(k) PROVE \A j \in seen' : j[1] \in blocked'
    BY <1>00, <1>7 DEF Retry, CallGoesOn, Caller
  <1>8. ASSUME NEW p \in Owners, ImportProject(p) PROVE \A j \in seen' : j[1] \in blocked'
    BY <1>00, <1>8 DEF ImportProject, CallGoesOn, Caller
  <1>9. CASE RefreshEnds
    <2>1. refresher.listed \in SUBSET Keys
      BY DEF QueueTypeOK, RefreshState
    <2>2. StartWorker(refresher.listed) /\ server = "up" /\ seen' = refresher.listed
      BY <1>9 DEF RefreshEnds, Restart, Publish
    <2> QED
      BY <2>1, <2>2, StartEarned
  <1>10. ~ Shutdown /\ ~ Stopped /\ ~ ServerDies
    BY DEF Shutdown, Stopped, ServerDies, ServerEnds
  <1>11. CASE RecoverJobs
    BY <1>0, <1>11 DEF RecoverJobs
  <1>12. ASSUME NEW d \in Deleters,
                \/ \E p \in Owners : StopProject(d, p)
                \/ WaitForOperations(d) \/ WaitForIdle(d) \/ Rename(d) \/ CommitDeletion(d)
         PROVE  \A j \in seen' : j[1] \in blocked'
    <2>1. UNCHANGED <<worker, seen, server>> /\ blocked \subseteq blocked' /\ strays'.died = strays.died
      BY <1>12 DEF StopProject, WaitForOperations, WaitForIdle, Rename, CommitDeletion, Rest, QueueTypeOK, Strays
    <2> QED
      BY <1>00, <2>1
  <1>13. ASSUME NEW d \in Deleters, ResumeProject(d) PROVE \A j \in seen' : j[1] \in blocked'
    <2>1. StartWorker(seen) /\ server = "up" /\ seen' = seen /\ seen \in SUBSET Keys
      BY <1>13 DEF ResumeProject, Restart, QueueTypeOK
    <2> QED
      BY <2>1, StartEarned
  <1> QED
    BY <1>1, <1>2, <1>3, <1>4, <1>5, <1>6, <1>7, <1>8, <1>9, <1>10, <1>11, <1>12, <1>13, <1>14 DEF QueueNext

----------------------------------------------------------------------------
(* A deletion has its project to itself.                                   *)

\* Steps that leave the deletions and the blocks alone: the worker goes on with its own
\* job or takes one that is not blocked, and a reconciliation starts only without blocks.
LEMMA BlocksLast ==
    ASSUME QueueTypeOK, ControlHolds, BlocksHold,
           UNCHANGED blocked, strays'.twice = strays.twice,
           UNCHANGED deleters \/ WorkerDies \/ CallThrows,
           worker'.key = worker.key \/ worker'.key = NoKey \/ worker'.key[1] \notin blocked,
           refresher'.at = "reconcile" => refresher.at = "reconcile" \/ blocked = {}
    PROVE  BlocksHold'
  <1>1. \A d \in Deleters :
          /\ deleters'[d].owner = deleters[d].owner
          /\ \/ deleters'[d].at = deleters[d].at
             \/ deleters[d].at = "stopping" /\ deleters'[d].at = "resume"
             \/ deleters[d].at = "waiting" /\ deleters'[d].at = "resume" /\ refresher'.at = "none"
    BY DEF WorkerDies, CallThrows, NoRefresh, QueueTypeOK, Deletion
  <1>2. \A d \in Deleters : deleters[d].at # "none" => deleters[d].owner \in Owners
    BY DEF ControlHolds
  <1>3. NoKey[1] \notin Owners
    BY KeyFacts, NoOwnerAssumption
  <1>4. SUFFICES ASSUME NEW d \in Deleters, deleters'[d].at # "none", deleters[d].owner \notin strays.twice
                 PROVE  /\ deleters[d].owner \in blocked
                        /\ \A e \in Deleters \ {d} : deleters[e].owner # deleters[d].owner
                        /\ deleters'[d].at # "waiting" => refresher'.at # "reconcile"
                        /\ deleters'[d].at \in {"queued", "commit"} => worker'.key[1] # deleters[d].owner
    BY <1>1 DEF BlocksHold
  <1>5. deleters[d].at # "none"
    BY <1>1, <1>4
  <1>6. /\ deleters[d].owner \in blocked
        /\ \A e \in Deleters \ {d} : deleters[e].owner # deleters[d].owner
        /\ deleters[d].at # "waiting" => refresher.at # "reconcile"
        /\ deleters[d].at \in {"queued", "commit"} => worker.key[1] # deleters[d].owner
    BY <1>4, <1>5 DEF BlocksHold
  <1> QED
    BY <1>1, <1>2, <1>3, <1>4, <1>5, <1>6

\* Publishing excuses no deletion.
LEMMA TwiceLasts ==
    ASSUME QueueTypeOK
    PROVE  /\ \A listed \in SUBSET Keys : Publish(listed) => strays'.twice = strays.twice
           /\ WorkerDies => strays'.twice = strays.twice
  BY DEF Publish, WorkerDies, QueueTypeOK, Strays

LEMMA BlocksStep == QueueTypeOK /\ ControlHolds /\ BlocksHold /\ QueueNext => BlocksHold'
  <1> SUFFICES ASSUME QueueTypeOK, ControlHolds, BlocksHold, QueueNext PROVE BlocksHold'
    OBVIOUS
  <1>0. /\ LookAgain.key = NoKey /\ NoWorker.key = NoKey
        /\ \A at \in WorkerPoints : [worker EXCEPT !.at = at].key = worker.key
        /\ worker.listed \in SUBSET Keys /\ refresher.listed \in SUBSET Keys
        /\ NoKey[1] \notin Owners /\ NoRefresh.at # "reconcile"
    BY KeyFacts, NoOwnerAssumption DEF NoWorker, LookAgain, NoRefresh, QueueTypeOK, WorkerState, RefreshState
  <1>00. ASSUME OtherWork, UNCHANGED deleters \/ WorkerDies, strays'.twice = strays.twice,
                worker'.key = worker.key \/ worker'.key = NoKey \/ worker'.key[1] \notin blocked
         PROVE  BlocksHold'
    BY <1>00, BlocksLast DEF OtherWork
  <1>1. CASE List
    <2>1. [worker EXCEPT !.at = "pick", !.listed = QueuedJobs].key = worker.key
      BY DEF QueueTypeOK, WorkerState
    <2>2. /\ OtherWork /\ strays'.twice = strays.twice
          /\ UNCHANGED deleters \/ WorkerDies
          /\ worker' = NoWorker \/ worker' = [worker EXCEPT !.at = "pick", !.listed = QueuedJobs]
      BY <1>1, TwiceLasts DEF List, WorkerEnds, WorkerDies
    <2> QED
      BY <1>0, <1>00, <2>1, <2>2
  <1>2. CASE Pick
    <2>1. \A k \in Keys : [worker EXCEPT !.at = "mark", !.key = k, !.inspection = FALSE].key = k
      BY DEF QueueTypeOK, WorkerState
    <2>2. \A k \in CanRun(worker.listed) : k \in Keys /\ k[1] \notin blocked'
      BY <1>0 DEF CanRun
    <2>3. worker'.key = NoKey \/ worker'.key[1] \notin blocked'
      <3>1. \/ worker' = NoWorker
            \/ \E k \in CanRun(worker.listed) :
                  worker' = [worker EXCEPT !.at = "mark", !.key = k, !.inspection = FALSE]
        BY <1>2 DEF Pick, WorkerEnds
      <3>2. CASE worker' = NoWorker
        BY <1>0, <3>2
      <3>3. CASE worker' # NoWorker
        <4>1. PICK k \in CanRun(worker.listed) :
                worker' = [worker EXCEPT !.at = "mark", !.key = k, !.inspection = FALSE]
          BY <3>1, <3>3
        <4>2. k \in Keys /\ k[1] \notin blocked'
          BY <2>2
        <4>3. worker'.key = k
          BY <2>1, <4>1, <4>2
        <4> QED
          BY <4>2, <4>3
      <3> QED
        BY <3>2, <3>3
    <2>4. OtherWork /\ UNCHANGED deleters /\ strays'.twice = strays.twice
      BY <1>0, <1>2, TwiceLasts DEF Pick
    <2>5. blocked' = blocked
      BY <2>4 DEF OtherWork
    <2> QED
      BY <1>00, <2>3, <2>4, <2>5
  <1>3. CASE MarkRunning \/ MarkCompleted \/ MarkFailed
    <2>1. OtherWork /\ (WorkerDies \/ (UNCHANGED <<deleters, strays>> /\ \E at \in {"begin", "publish", "fail"} : GoTo(at)))
      BY <1>3 DEF MarkRunning, MarkCompleted, MarkFailed
    <2>2. CASE WorkerDies
      BY <1>0, <1>00, <2>1, <2>2, TwiceLasts DEF WorkerDies
    <2>3. CASE UNCHANGED <<deleters, strays>> /\ \E at \in {"begin", "publish", "fail"} : GoTo(at)
      BY <1>0, <1>00, <2>1, <2>3 DEF GoTo, WorkerPoints
    <2> QED
      BY <2>1, <2>2, <2>3
  <1>4. CASE Inspect \/ GenerateThumbnails \/ RunFails \/ Pause
    <2>1. [worker EXCEPT !.at = "complete", !.inspection = TRUE].key = worker.key
      BY DEF QueueTypeOK, WorkerState
    <2>2. OtherWork /\ UNCHANGED <<deleters, strays>>
      BY <1>4 DEF Inspect, GenerateThumbnails, RunFails, Pause
    <2>3. \/ worker' = [worker EXCEPT !.at = "complete", !.inspection = TRUE]
          \/ worker' = [worker EXCEPT !.at = "complete"]
          \/ worker' = [worker EXCEPT !.at = "fail"]
          \/ worker' = [worker EXCEPT !.at = "publish"]
      BY <1>4 DEF Inspect, GenerateThumbnails, RunFails, Pause, GoTo
    <2>4. worker'.key = worker.key \/ worker'.key = NoKey
      BY <1>0, <2>1, <2>3 DEF WorkerPoints
    <2> QED
      BY <1>00, <2>2, <2>4
  <1>5. CASE Show \/ EnsureThumbnailJob \/ Continue
    <2>1. worker'.key = worker.key \/ worker'.key = NoKey
      BY <1>0, <1>5 DEF Show, EnsureThumbnailJob, Continue, GoTo, QueueTypeOK, WorkerState
    <2>2. OtherWork /\ UNCHANGED deleters /\ strays'.twice = strays.twice
      BY <1>0, <1>5, TwiceLasts DEF Show, EnsureThumbnailJob, Continue
    <2> QED
      BY <1>00, <2>1, <2>2
  <1>15. CASE PublishFresh
    <2>1. \/ worker' \in {NoWorker, LookAgain}
          \/ \E at \in {"shown", "ensure", "fresh"} :
               worker' = [worker EXCEPT !.at = at, !.listed = QueuedJobs]
      BY <1>15, Zenon DEF PublishFresh, WorkerDies
    <2>2. \A at \in {"shown", "ensure", "fresh"} :
            [worker EXCEPT !.at = at, !.listed = QueuedJobs].key = worker.key
      BY DEF QueueTypeOK, WorkerState
    <2>3. worker'.key = worker.key \/ worker'.key = NoKey
      BY <1>0, <2>1, <2>2
    <2>4. OtherWork /\ (UNCHANGED deleters \/ WorkerDies) /\ strays'.twice = strays.twice
      BY <1>15, TwiceLasts DEF PublishFresh
    <2> QED
      BY <1>00, <2>3, <2>4
  <1>16. CASE RetryWrites \/ RefreshThrows
    <2>1. Caller /\ strays'.twice = strays.twice /\ (UNCHANGED deleters \/ CallThrows)
      BY <1>16 DEF RetryWrites, RefreshThrows, CallThrows, CallGoesOn, QueueTypeOK, Strays
    <2>2. refresher'.at = "reconcile" => blocked = {}
      BY <1>0, <1>16 DEF RetryWrites, RefreshThrows, CallThrows, FirstStep, QueueTypeOK, RefreshState
    <2> QED
      BY <2>1, <2>2, BlocksLast DEF Caller
  <1>6. CASE Refresh \/ RefreshReconciles \/ RefreshLists
    <2>1. CallGoesOn
      BY <1>6 DEF Refresh, RefreshReconciles, RefreshLists
    <2>2. refresher'.at = "reconcile" => blocked = {}
      BY <1>6 DEF Refresh, RefreshReconciles, RefreshLists, FirstStep, NoRefresh, QueueTypeOK, RefreshState
    <2> QED
      BY <2>1, <2>2, BlocksLast DEF CallGoesOn, Caller
  <1>7. ASSUME NEW k \in Keys, Retry(k) PROVE BlocksHold'
    <2>1. CallGoesOn /\ refresher'.at # "reconcile"
      BY <1>7 DEF Retry, NoRefresh
    <2> QED
      BY <2>1, BlocksLast DEF CallGoesOn, Caller
  <1>8. ASSUME NEW p \in Owners, ImportProject(p) PROVE BlocksHold'
    <2>1. CallGoesOn /\ (refresher'.at = "reconcile" => blocked = {})
      BY <1>8 DEF ImportProject, FirstStep, NoRefresh
    <2> QED
      BY <2>1, BlocksLast DEF CallGoesOn, Caller
  <1>9. CASE RefreshEnds
    <2>1. UNCHANGED <<deleters, blocked>> /\ strays'.twice = strays.twice /\ refresher'.at # "reconcile"
      BY <1>0, <1>9, TwiceLasts DEF RefreshEnds
    <2>2. worker'.key = worker.key \/ worker'.key = NoKey
      BY <1>0, <1>9 DEF RefreshEnds, Restart, StartWorker
    <2> QED
      BY <2>1, <2>2, BlocksLast
  <1>10. CASE Shutdown
    BY <1>10, BlocksLast DEF Shutdown
  <1>11. CASE Stopped \/ ServerDies \/ RecoverJobs
    <2>1. \A d \in Deleters : deleters'[d] = NoDelete
      BY <1>11 DEF Stopped, ServerDies, ServerEnds, RecoverJobs, ControlHolds
    <2> QED
      BY <2>1 DEF BlocksHold, NoDelete
  <1>12. ASSUME NEW d \in Deleters, NEW p \in Owners, StopProject(d, p) PROVE BlocksHold'
    <2>1. /\ blocked' = blocked \cup {p} /\ UNCHANGED <<worker, refresher>>
          /\ deleters'[d] = [at |-> "waiting", owner |-> p]
          /\ \A e \in Deleters \ {d} : deleters'[e] = deleters[e]
      BY <1>12 DEF StopProject, Rest, QueueTypeOK
    <2>2. strays'.twice = IF \E e \in Deleters : deleters[e].owner = p THEN strays.twice \cup {p}
                                                                      ELSE strays.twice
      BY <1>12 DEF StopProject, QueueTypeOK, Strays
    <2> SUFFICES ASSUME NEW e \in Deleters, deleters'[e].at # "none", deleters'[e].owner \notin strays'.twice
                 PROVE  /\ deleters'[e].owner \in blocked'
                        /\ \A f \in Deleters \ {e} : deleters'[f].owner # deleters'[e].owner
                        /\ deleters'[e].at # "waiting" => refresher'.at # "reconcile"
                        /\ deleters'[e].at \in {"queued", "commit"} => worker'.key[1] # deleters'[e].owner
      BY DEF BlocksHold
    <2>3. CASE e = d
      BY <2>1, <2>2, <2>3
    <2>4. CASE e # d
      <3>1. deleters'[e] = deleters[e] /\ deleters[e].owner # p
        BY <2>1, <2>2, <2>4
      <3>2. /\ deleters[e].owner \in blocked
            /\ \A f \in Deleters \ {e} : deleters[f].owner # deleters[e].owner
            /\ deleters[e].at # "waiting" => refresher.at # "reconcile"
            /\ deleters[e].at \in {"queued", "commit"} => worker.key[1] # deleters[e].owner
        BY <2>2, <3>1 DEF BlocksHold
      <3> QED
        BY <2>1, <3>1, <3>2
    <2> QED
      BY <2>3, <2>4
  <1>13. ASSUME NEW d \in Deleters, WaitForOperations(d) \/ WaitForIdle(d) \/ Rename(d) \/ CommitDeletion(d)
         PROVE  BlocksHold'
    <2>0. deleters[d].at # "none" /\ deleters[d].owner \in Owners
      BY <1>13 DEF WaitForOperations, WaitForIdle, Rename, CommitDeletion, DeleterAt, ControlHolds
    <2>1. UNCHANGED <<blocked, worker, refresher>> /\ strays'.twice = strays.twice
      BY <1>13 DEF WaitForOperations, WaitForIdle, Rename, CommitDeletion, Rest, QueueTypeOK, Strays
    <2>2. PICK at \in {"stopping", "queued", "commit", "resume"} :
            /\ DeleterGoes(d, at)
            /\ at = "stopping" => refresher.at # "reconcile"
            /\ at # "stopping" => deleters[d].at # "waiting"
            /\ at = "queued" => worker = NoWorker
            /\ at = "commit" => deleters[d].at = "queued"
      BY <1>13 DEF WaitForOperations, WaitForIdle, Rename, CommitDeletion, DeleterAt, OperationsOver
    <2>3. /\ deleters'[d].at = at /\ \A e \in Deleters : deleters'[e].owner = deleters[e].owner
          /\ \A e \in Deleters \ {d} : deleters'[e] = deleters[e]
      BY <2>2 DEF DeleterGoes, QueueTypeOK, Deletion
    <2> SUFFICES ASSUME NEW e \in Deleters, deleters'[e].at # "none", deleters[e].owner \notin strays.twice
                 PROVE  /\ deleters[e].owner \in blocked
                        /\ \A f \in Deleters \ {e} : deleters[f].owner # deleters[e].owner
                        /\ deleters'[e].at # "waiting" => refresher.at # "reconcile"
                        /\ deleters'[e].at \in {"queued", "commit"} => worker.key[1] # deleters[e].owner
      BY <2>1, <2>3 DEF BlocksHold
    <2>4. /\ deleters[e].owner \in blocked
          /\ \A f \in Deleters \ {e} : deleters[f].owner # deleters[e].owner
          /\ deleters[e].at # "waiting" => refresher.at # "reconcile"
          /\ deleters[e].at \in {"queued", "commit"} => worker.key[1] # deleters[e].owner
      BY <2>0, <2>3 DEF BlocksHold
    <2> QED
      BY <1>0, <2>0, <2>2, <2>3, <2>4
  <1>14. ASSUME NEW d \in Deleters, ResumeProject(d) PROVE BlocksHold'
    <2>1. /\ blocked' = blocked \ {deleters[d].owner} /\ UNCHANGED <<strays, refresher>>
          /\ deleters'[d] = NoDelete /\ \A e \in Deleters \ {d} : deleters'[e] = deleters[e]
      BY <1>14 DEF ResumeProject, QueueTypeOK
    <2>2. worker'.key = worker.key \/ worker'.key = NoKey
      BY <1>0, <1>14 DEF ResumeProject, Restart, StartWorker
    <2> SUFFICES ASSUME NEW e \in Deleters, deleters'[e].at # "none", deleters'[e].owner \notin strays.twice
                 PROVE  /\ deleters'[e].owner \in blocked'
                        /\ \A f \in Deleters \ {e} : deleters'[f].owner # deleters'[e].owner
                        /\ deleters'[e].at # "waiting" => refresher'.at # "reconcile"
                        /\ deleters'[e].at \in {"queued", "commit"} => worker'.key[1] # deleters'[e].owner
      BY <2>1 DEF BlocksHold
    <2>3. e # d /\ deleters'[e] = deleters[e] /\ deleters[e].owner \in Owners
      BY <2>1 DEF NoDelete, ControlHolds
    <2>4. /\ deleters[e].owner \in blocked
          /\ \A f \in Deleters \ {e} : deleters[f].owner # deleters[e].owner
          /\ deleters[e].at # "waiting" => refresher.at # "reconcile"
          /\ deleters[e].at \in {"queued", "commit"} => worker.key[1] # deleters[e].owner
      BY <2>3 DEF BlocksHold
    <2>5. NoDelete.owner \notin Owners
      BY NoOwnerAssumption DEF NoDelete
    <2> QED
      BY <1>0, <2>1, <2>2, <2>3, <2>4, <2>5
  <1> QED
    BY <1>1, <1>2, <1>3, <1>4, <1>5, <1>6, <1>7, <1>8, <1>9, <1>10, <1>11, <1>12, <1>13, <1>14,
       <1>15, <1>16 DEF QueueNext

----------------------------------------------------------------------------
(* The theorems.                                                           *)

LEMMA QueueStep == QueueInv /\ [QueueNext]_queueVars => QueueInv'
  <1> SUFFICES ASSUME QueueInv, [QueueNext]_queueVars PROVE QueueInv'
    OBVIOUS
  <1>1. CASE QueueNext
    BY <1>1, TypeStep, ControlStep, ShownStep, RestStep, BlocksStep DEF QueueInv
  <1>2. CASE UNCHANGED queueVars
    BY <1>2 DEF queueVars, QueueInv, QueueTypeOK, ControlHolds, QueueIsShown, Shown, Queued,
                RestIsEarned, BlocksHold
  <1> QED
    BY <1>1, <1>2

\* The queue, its worker, the calls that refresh, retry and import, and the deletions keep
\* the invariant through every interleaving, shutdown and crash, whichever of their calls
\* throw, after they took effect or before.
THEOREM QueueInvariant == QueueSpec => []QueueInv
  BY QueueInitHolds, QueueStep, PTL DEF QueueSpec

\* In every reachable state no queued job is stranded once the worker and the calls are at
\* rest, but where a list hid it, the call that queued it threw or the worker threw; and a
\* deletion that commits has its project to itself.
THEOREM QueueCorrect == QueueSpec => []QueueIsSound
  <1>1. QueueInv => NoJobIsStranded
    <2> SUFFICES ASSUME QueueInv, server = "up", worker = NoWorker, refresher = NoRefresh,
                        ~ strays.missed, ~ strays.died, NEW k \in QueuedJobs
                 PROVE  k[1] \in blocked
      BY DEF NoJobIsStranded
    <2>1. k \in Queued /\ folder[k[1]] = "managed"
      BY DEF QueuedJobs
    <2>2. Shown(k)
      BY <2>1 DEF QueueInv, QueueIsShown
    <2>3. k \in seen
      BY <2>1, <2>2 DEF Shown, NoRefresh
    <2> QED
      BY <2>3 DEF QueueInv, RestIsEarned
  <1>2. QueueInv => DeletionWorksAlone
    BY DEF QueueInv, BlocksHold, DeletionWorksAlone, DeleterAt, Owner
  <1>3. QueueInv => QueueIsSound
    BY <1>1, <1>2 DEF QueueIsSound
  <1> QED
    BY QueueInvariant, <1>3, PTL
----------------------------------------------------------------------------
(* The feed.                                                                 *)

Snapshot == [Watched -> Nat]

RouteState == [at : {"closed", "subscribed", "open"}, read : Snapshot \cup {NoSnapshot},
               initial : Snapshot \cup {NoSnapshot}, pending : Snapshot \cup {NoSnapshot}]

AuthorState == [at : {"idle", "changed", "listed"}, read : Snapshot \cup {NoSnapshot}]

FeedTypeOK ==
    /\ file \in Snapshot /\ published \in Snapshot /\ view \in Snapshot
    /\ author \in [Authors -> AuthorState]
    /\ \A a \in Authors : author[a].at = "listed" => author[a].read \in Snapshot
    /\ route \in RouteState
    /\ route.at # "subscribed" => route.read = NoSnapshot /\ route.initial = NoSnapshot
    /\ route.read # NoSnapshot => route.initial = NoSnapshot
    /\ stream \in Seq(Snapshot)
    /\ fetched \in Snapshot \cup {NoSnapshot}
    /\ overtaken \in BOOLEAN

\* Nothing that was listed is ahead of the files.
Listed(list) == \A j \in Watched : list[j] <= file[j]

NothingIsAhead ==
    /\ Listed(published) /\ Listed(view)
    /\ \A a \in Authors : author[a].at = "listed" => Listed(author[a].read)
    /\ route.read # NoSnapshot => Listed(route.read)
    /\ route.initial # NoSnapshot => Listed(route.initial)
    /\ route.pending # NoSnapshot => Listed(route.pending)
    /\ \A n \in 1..Len(stream) : Listed(stream[n])
    /\ fetched # NoSnapshot => Listed(fetched)

\* The state of a job is shown, or it is on its way: an author will list and publish it, or the
\* route or the stream holds a list that has it; a closed route will list the files.
OnItsWay(j) ==
    \/ \E a \in Authors : author[a].at = "changed"
    \/ \E a \in Authors : author[a].at = "listed" /\ author[a].read[j] = file[j]
    \/ route.at = "closed"
    \/ /\ route.at = "subscribed"
       /\ \/ route.read # NoSnapshot /\ route.read[j] = file[j]
          \/ route.initial # NoSnapshot /\ route.initial[j] = file[j]
          \/ route.pending # NoSnapshot /\ route.pending[j] = file[j]
    \/ /\ route.at = "open"
       /\ \/ view[j] = file[j]
          \/ \E n \in 1..Len(stream) : stream[n][j] = file[j]

FeedInv ==
    /\ FeedTypeOK /\ NothingIsAhead
    /\ route.at = "subscribed" /\ route.pending # NoSnapshot => route.pending = published
    /\ ~overtaken => \A j \in Watched : OnItsWay(j)

LEMMA NoSnapshotIsNone == NoSnapshot \notin Snapshot
  BY NoSnapshotAssumption DEF Snapshot

LEMMA MergedSnapshots ==
    ASSUME NEW old \in Snapshot, NEW new \in Snapshot
    PROVE  /\ Merge(old, new) \in Snapshot
           /\ \A j \in Watched : Merge(old, new)[j] \in {old[j], new[j]}
                                 /\ Merge(old, new)[j] >= old[j] /\ Merge(old, new)[j] >= new[j]
  BY DEF Merge, Snapshot

LEMMA ChangeKeeps ==
    ASSUME FeedInv, NEW a \in Authors, NEW j \in Watched, Change(a, j)
    PROVE  FeedInv'
  <1>1. /\ file' = [file EXCEPT ![j] = file[j] + 1]
        /\ author' = [author EXCEPT ![a].at = "changed"]
        /\ UNCHANGED <<published, route, stream, fetched, view, overtaken>>
    BY DEF Change
  <1>2. file \in Snapshot /\ author \in [Authors -> AuthorState]
    BY DEF FeedInv, FeedTypeOK
  <1>3. file' \in Snapshot /\ \A k \in Watched : file[k] <= file'[k]
    BY <1>1, <1>2 DEF Snapshot
  <1>4. /\ author' \in [Authors -> AuthorState] /\ author'[a].at = "changed"
        /\ \A b \in Authors \ {a} : author'[b] = author[b]
    BY <1>1, <1>2 DEF AuthorState
  <1>5. FeedTypeOK'
    BY <1>1, <1>3, <1>4 DEF FeedInv, FeedTypeOK
  <1>6. \A list \in Snapshot : Listed(list) => Listed(list)'
    <2> SUFFICES ASSUME NEW list \in Snapshot, Listed(list), NEW k \in Watched
                 PROVE  list[k] <= file'[k]
      BY DEF Listed
    <2>1. list[k] \in Nat /\ file[k] \in Nat /\ file'[k] \in Nat /\ list[k] <= file[k]
      BY <1>2, <1>3 DEF Snapshot, Listed
    <2> QED
      BY <1>3, <2>1
  <1>7. NothingIsAhead'
    <2>1. Listed(published)' /\ Listed(view)'
      BY <1>1, <1>6 DEF FeedInv, FeedTypeOK, NothingIsAhead, Listed
    <2>2. \A b \in Authors : author'[b].at = "listed" => Listed(author[b].read)' /\ author'[b] = author[b]
      BY <1>4, <1>6 DEF FeedInv, FeedTypeOK, NothingIsAhead, Listed
    <2>3. /\ route.read # NoSnapshot => Listed(route.read)'
          /\ route.initial # NoSnapshot => Listed(route.initial)'
          /\ route.pending # NoSnapshot => Listed(route.pending)'
      BY <1>1, <1>6 DEF FeedInv, FeedTypeOK, NothingIsAhead, Listed, RouteState
    <2>4. \A n \in 1..Len(stream) : Listed(stream[n])'
      BY <1>1, <1>6 DEF FeedInv, FeedTypeOK, NothingIsAhead, Listed
    <2>5. fetched # NoSnapshot => Listed(fetched)'
      BY <1>1, <1>6 DEF FeedInv, FeedTypeOK, NothingIsAhead, Listed
    <2> QED
      BY <1>1, <2>1, <2>2, <2>3, <2>4, <2>5 DEF NothingIsAhead, Listed
  <1>8. \A k \in Watched : OnItsWay(k)'
    BY <1>4 DEF OnItsWay
  <1> QED
    BY <1>1, <1>5, <1>7, <1>8 DEF FeedInv

LEMMA ListKeeps == ASSUME FeedInv, NEW a \in Authors, ListJobs(a) PROVE FeedInv'
  <1>1. /\ author' = [author EXCEPT ![a] = [at |-> "listed", read |-> file]]
        /\ UNCHANGED <<file, published, route, stream, fetched, view, overtaken>>
    BY DEF ListJobs
  <1>2. file \in Snapshot /\ author \in [Authors -> AuthorState]
    BY DEF FeedInv, FeedTypeOK
  <1>3. /\ author' \in [Authors -> AuthorState] /\ author'[a].at = "listed"
        /\ author'[a].read = file
        /\ \A b \in Authors \ {a} : author'[b] = author[b]
    BY <1>1, <1>2 DEF AuthorState
  <1>4. FeedTypeOK'
    BY <1>1, <1>2, <1>3 DEF FeedInv, FeedTypeOK
  <1>5. Listed(file)
    BY <1>2 DEF Listed, Snapshot
  <1>6. NothingIsAhead'
    BY <1>1, <1>3, <1>5 DEF FeedInv, NothingIsAhead, Listed
  <1>7. \A k \in Watched : OnItsWay(k)'
    BY <1>1, <1>3 DEF OnItsWay
  <1> QED
    BY <1>1, <1>4, <1>6, <1>7 DEF FeedInv

\* A list that is published goes on the stream, to the waiting route, or to nobody.
LEMMA EmitKeeps ==
    ASSUME FeedInv, NEW list \in Snapshot, Listed(list), Emit(list),
           \/ route' = Listened(list)
           \/ /\ route.at = "subscribed" /\ route.read = list
              /\ route' = [Listened(list) EXCEPT !.initial = list, !.read = NoSnapshot],
           author' \in [Authors -> AuthorState],
           \A a \in Authors :
              \/ author'[a] = author[a]
              \/ author[a].at = "listed" /\ author[a].read = list /\ author'[a].at = "idle",
           UNCHANGED <<file, fetched, view>>
    PROVE  FeedInv'
  <1>1. /\ published' = list
        /\ overtaken' = (overtaken \/ (route.at = "subscribed" /\ Older(list, published)))
        /\ stream' = IF route.at = "open" THEN Append(stream, list) ELSE stream
    BY DEF Emit
  <1>2. /\ route \in RouteState /\ stream \in Seq(Snapshot) /\ overtaken \in BOOLEAN
        /\ published \in Snapshot /\ file \in Snapshot /\ view \in Snapshot
    BY DEF FeedInv, FeedTypeOK
  <1>3. list # NoSnapshot
    BY NoSnapshotIsNone
  <1>4. \/ route.at # "subscribed" /\ route' = route
        \/ /\ route.at = "subscribed" /\ route' \in RouteState /\ route'.at = "subscribed"
           /\ route'.pending = list
           /\ \/ route'.read = route.read /\ route'.initial = route.initial
              \/ route.read = list /\ route'.read = NoSnapshot /\ route'.initial = list
    <2>1. CASE route.at # "subscribed"
      BY <2>1 DEF Listened
    <2>2. CASE route.at = "subscribed" /\ route' = Listened(list)
      <3>1. route' = [route EXCEPT !.pending = list]
        BY <2>2 DEF Listened
      <3> QED
        BY <1>2, <2>2, <3>1 DEF RouteState
    <2>3. CASE route.at = "subscribed" /\ route.read = list
               /\ route' = [Listened(list) EXCEPT !.initial = list, !.read = NoSnapshot]
      <3>1. Listened(list) = [route EXCEPT !.pending = list]
        BY <2>3 DEF Listened
      <3>2. Listened(list) \in RouteState /\ Listened(list).at = "subscribed"
            /\ Listened(list).pending = list
        BY <1>2, <2>3, <3>1 DEF RouteState
      <3> QED
        BY <2>3, <3>2 DEF RouteState
    <2> QED
      BY <2>1, <2>2, <2>3
  <1>5. stream' \in Seq(Snapshot)
        /\ \/ route.at # "open" /\ stream' = stream
           \/ /\ route.at = "open" /\ Len(stream') = Len(stream) + 1
              /\ stream'[Len(stream')] = list
              /\ \A n \in 1..Len(stream) : n \in 1..Len(stream') /\ stream'[n] = stream[n]
    <2>1. CASE route.at = "open"
      <3>1. stream' = Append(stream, list)
        BY <1>1, <2>1
      <3> QED
        BY <1>2, <2>1, <3>1
    <2>2. CASE route.at # "open"
      BY <1>1, <1>2, <2>2
    <2> QED
      BY <2>1, <2>2
  <1>6. overtaken' \in BOOLEAN
    BY <1>1, <1>2, Zenon
  <1>7. FeedTypeOK'
    <2>1. \A a \in Authors : author'[a].at = "listed" => author'[a].read \in Snapshot
      BY DEF FeedInv, FeedTypeOK
    <2>2. route' \in RouteState
          /\ (route'.at # "subscribed" => route'.read = NoSnapshot /\ route'.initial = NoSnapshot)
          /\ (route'.read # NoSnapshot => route'.initial = NoSnapshot)
      BY <1>2, <1>4 DEF FeedInv, FeedTypeOK
    <2> QED
      BY <1>1, <1>5, <1>6, <2>1, <2>2 DEF FeedInv, FeedTypeOK
  <1>8. NothingIsAhead'
    <2>1. Listed(published)' /\ Listed(view)'
      BY <1>1 DEF FeedInv, NothingIsAhead, Listed
    <2>2. \A a \in Authors : author'[a].at = "listed" => Listed(author'[a].read)
      BY DEF FeedInv, NothingIsAhead
    <2>3. /\ route'.read # NoSnapshot => Listed(route'.read)
          /\ route'.initial # NoSnapshot => Listed(route'.initial)
          /\ route'.pending # NoSnapshot => Listed(route'.pending)
      BY <1>4 DEF FeedInv, NothingIsAhead
    <2>4. \A n \in 1..Len(stream') : Listed(stream'[n])
      <3> SUFFICES ASSUME NEW n \in 1..Len(stream')
                   PROVE  Listed(stream'[n])
        OBVIOUS
      <3>1. CASE route.at # "open"
        BY <1>5, <3>1 DEF FeedInv, NothingIsAhead
      <3>2. CASE route.at = "open" /\ n = Len(stream')
        BY <1>5, <3>2
      <3>3. CASE route.at = "open" /\ n # Len(stream')
        <4>1. Len(stream) \in Nat
          BY <1>2
        <4>2. n \in 1..Len(stream)
          BY <1>5, <3>3, <4>1
        <4> QED
          BY <1>5, <3>3, <4>2 DEF FeedInv, NothingIsAhead
      <3> QED
        BY <3>1, <3>2, <3>3
    <2>5. fetched # NoSnapshot => Listed(fetched)
      BY DEF FeedInv, NothingIsAhead
    <2> QED
      BY <2>1, <2>2, <2>3, <2>4, <2>5 DEF NothingIsAhead, Listed
  <1>9. (route.at = "subscribed" /\ route.pending # NoSnapshot => route.pending = published)'
    BY <1>1, <1>4
  <1>10. (~overtaken => \A j \in Watched : OnItsWay(j))'
    <2> SUFFICES ASSUME ~overtaken', NEW j \in Watched
                 PROVE  OnItsWay(j)'
      OBVIOUS
    <2>1. ~overtaken /\ ~ (route.at = "subscribed" /\ Older(list, published))
      BY <1>1, <1>2
    <2>2. OnItsWay(j)
      BY <2>1 DEF FeedInv
    <2>3. ASSUME list[j] = file[j]
          PROVE  OnItsWay(j)'
      <3>1. CASE route.at = "open"
        <4>1. Len(stream') \in 1..Len(stream')
          BY <1>2, <1>5, <3>1
        <4> QED
          BY <1>4, <1>5, <2>3, <3>1, <4>1 DEF OnItsWay
      <3>2. CASE route.at = "subscribed"
        BY <1>3, <1>4, <2>3, <3>2 DEF OnItsWay
      <3>3. CASE route.at = "closed"
        BY <1>4, <3>3 DEF OnItsWay
      <3> QED
        BY <1>2, <3>1, <3>2, <3>3 DEF RouteState
    <2>4. CASE \E a \in Authors : author[a].at = "changed"
      <3>1. \E a \in Authors : author'[a].at = "changed"
        BY <2>4
      <3> QED
        BY <3>1 DEF OnItsWay
    <2>5. CASE \E a \in Authors : author[a].at = "listed" /\ author[a].read[j] = file[j]
      <3>1. PICK a \in Authors : author[a].at = "listed" /\ author[a].read[j] = file[j]
        BY <2>5
      <3>2. CASE author'[a] = author[a]
        BY <3>1, <3>2 DEF OnItsWay
      <3>3. CASE author'[a] # author[a]
        BY <2>3, <3>1, <3>3
      <3> QED
        BY <3>2, <3>3
    <2>6. CASE route.at = "closed"
      BY <1>4, <2>6 DEF OnItsWay
    <2>7. CASE /\ route.at = "subscribed"
               /\ \/ route.read # NoSnapshot /\ route.read[j] = file[j]
                  \/ route.initial # NoSnapshot /\ route.initial[j] = file[j]
      <3>1. CASE route'.read = route.read /\ route'.initial = route.initial
        BY <1>4, <2>7, <3>1 DEF OnItsWay
      <3>2. CASE route.read = list
        <4>1. CASE route.read # NoSnapshot /\ route.read[j] = file[j]
          BY <2>3, <3>2, <4>1
        <4>2. CASE route.initial # NoSnapshot /\ route.initial[j] = file[j]
          BY <1>3, <3>2, <4>2 DEF FeedInv, FeedTypeOK
        <4> QED
          BY <2>7, <4>1, <4>2
      <3> QED
        BY <1>4, <2>7, <3>1, <3>2
    <2>8. CASE /\ route.at = "subscribed"
               /\ route.pending # NoSnapshot /\ route.pending[j] = file[j]
      <3>1. published[j] = file[j]
        BY <2>8 DEF FeedInv
      <3>2. ~ (list[j] < published[j])
        BY <2>1, <2>8 DEF Older
      <3>3. list[j] \in Nat /\ file[j] \in Nat /\ list[j] <= file[j]
        BY <1>2 DEF Snapshot, Listed
      <3>4. list[j] = file[j]
        BY <3>1, <3>2, <3>3
      <3> QED
        BY <2>3, <3>4
    <2>9. CASE /\ route.at = "open"
               /\ view[j] = file[j] \/ \E n \in 1..Len(stream) : stream[n][j] = file[j]
      BY <1>4, <1>5, <2>9 DEF OnItsWay
    <2> QED
      BY <2>2, <2>4, <2>5, <2>6, <2>7, <2>8, <2>9 DEF OnItsWay
  <1> QED
    BY <1>7, <1>8, <1>9, <1>10 DEF FeedInv

LEMMA PublishKeeps == ASSUME FeedInv, NEW a \in Authors, PublishList(a) PROVE FeedInv'
  <1>1. /\ author[a].at = "listed" /\ Emit(author[a].read)
        /\ route' = Listened(author[a].read)
        /\ author' = [author EXCEPT ![a] = Resting]
        /\ UNCHANGED <<file, fetched, view>>
    BY DEF PublishList
  <1>2. author[a].read \in Snapshot /\ Listed(author[a].read)
    BY <1>1 DEF FeedInv, FeedTypeOK, NothingIsAhead
  <1>3. Resting \in AuthorState /\ Resting.at = "idle"
    BY DEF Resting, AuthorState
  <1>4. author' \in [Authors -> AuthorState]
    BY <1>1, <1>3 DEF FeedInv, FeedTypeOK
  <1>5. \A b \in Authors :
           \/ author'[b] = author[b]
           \/ author[b].at = "listed" /\ author[b].read = author[a].read
              /\ author'[b].at = "idle"
    BY <1>1, <1>3 DEF FeedInv, FeedTypeOK
  <1> QED
    BY <1>1, <1>2, <1>4, <1>5, EmitKeeps

LEMMA InitialKeeps == FeedInv /\ InitialSnapshot => FeedInv'
  <1> SUFFICES ASSUME FeedInv, InitialSnapshot
               PROVE  FeedInv'
    OBVIOUS
  <1>1. /\ route.at = "subscribed" /\ route.read # NoSnapshot /\ Emit(route.read)
        /\ route' = [Listened(route.read) EXCEPT !.initial = route.read, !.read = NoSnapshot]
        /\ UNCHANGED <<file, author, fetched, view>>
    BY DEF InitialSnapshot
  <1>2. route.read \in Snapshot /\ Listed(route.read)
    BY <1>1 DEF FeedInv, FeedTypeOK, NothingIsAhead, RouteState
  <1>3. author' \in [Authors -> AuthorState] /\ \A b \in Authors : author'[b] = author[b]
    BY <1>1 DEF FeedInv, FeedTypeOK
  <1> QED
    BY <1>1, <1>2, <1>3, EmitKeeps

LEMMA ConnectionKeeps == FeedInv /\ (Connect \/ Drop) => FeedInv'
  <1> SUFFICES ASSUME FeedInv, Connect \/ Drop
               PROVE  FeedInv'
    OBVIOUS
  <1>1. UNCHANGED <<file, author, published, fetched, view, overtaken>>
    BY DEF Connect, Drop
  <1>2. Closed \in RouteState /\ Closed.at = "closed" /\ Closed.read = NoSnapshot
        /\ Closed.initial = NoSnapshot /\ Closed.pending = NoSnapshot
    BY DEF Closed, RouteState
  <1>3. file \in Snapshot /\ Listed(file)
    BY DEF FeedInv, FeedTypeOK, Listed, Snapshot
  <1>4. stream' \in Seq(Snapshot) /\ \A n \in 1..Len(stream') : Listed(stream'[n])
    <2>1. CASE stream' = stream
      BY <2>1 DEF FeedInv, FeedTypeOK, NothingIsAhead
    <2>2. CASE stream' = <<>>
      BY <2>2
    <2> QED
      BY <2>1, <2>2 DEF Connect, Drop
  <1>5. /\ route' \in RouteState /\ route'.initial = NoSnapshot /\ route'.pending = NoSnapshot
        /\ \/ route'.at = "closed" /\ route'.read = NoSnapshot
           \/ route'.at = "subscribed" /\ route'.read = file
    <2>1. CASE Connect
      <3>1. route' = [Closed EXCEPT !.at = "subscribed", !.read = file]
        BY <2>1 DEF Connect
      <3> QED
        BY <1>2, <1>3, <3>1 DEF RouteState
    <2>2. CASE Drop
      BY <1>2, <2>2 DEF Drop
    <2> QED
      BY <2>1, <2>2
  <1>6. FeedTypeOK'
    BY <1>1, <1>4, <1>5 DEF FeedInv, FeedTypeOK
  <1>7. NothingIsAhead'
    BY <1>1, <1>3, <1>4, <1>5 DEF FeedInv, NothingIsAhead, Listed
  <1>8. \A j \in Watched : OnItsWay(j)'
    <2>1. file # NoSnapshot
      BY <1>3, NoSnapshotIsNone
    <2> QED
      BY <1>1, <1>5, <2>1 DEF OnItsWay
  <1> QED
    BY <1>1, <1>5, <1>6, <1>7, <1>8 DEF FeedInv

LEMMA OpenKeeps == FeedInv /\ OpenStream => FeedInv'
  <1> SUFFICES ASSUME FeedInv, OpenStream
               PROVE  FeedInv'
    OBVIOUS
  <1> DEFINE rest == IF route.pending = NoSnapshot THEN <<>> ELSE <<route.pending>>
             added == <<route.initial>> \o rest
  <1>1. /\ route.initial # NoSnapshot /\ stream' = stream \o <<route.initial>> \o rest
        /\ route' = [Closed EXCEPT !.at = "open"]
        /\ UNCHANGED <<file, author, published, fetched, view, overtaken>>
    BY DEF OpenStream
  <1>2. route.at = "subscribed" /\ route.initial \in Snapshot /\ Listed(route.initial)
    BY <1>1 DEF FeedInv, FeedTypeOK, NothingIsAhead, RouteState
  <1>3. rest \in Seq(Snapshot) /\ \A n \in 1..Len(rest) : Listed(rest[n])
    BY DEF FeedInv, FeedTypeOK, NothingIsAhead, RouteState
  <1>4. /\ route' \in RouteState /\ route'.at = "open" /\ route'.read = NoSnapshot
        /\ route'.initial = NoSnapshot /\ route'.pending = NoSnapshot
    BY <1>1 DEF Closed, RouteState
  <1>5. stream \in Seq(Snapshot) /\ Len(stream) \in Nat
    BY DEF FeedInv, FeedTypeOK
  <1>6. /\ stream' \in Seq(Snapshot)
        /\ Len(stream') = Len(stream) + 1 + Len(rest)
        /\ \A n \in 1..Len(stream) : stream'[n] = stream[n]
        /\ stream'[Len(stream) + 1] = route.initial
        /\ \A n \in 1..Len(rest) : stream'[Len(stream) + 1 + n] = rest[n]
    <2> HIDE DEF rest
    <2> QED
      BY <1>1, <1>2, <1>3, <1>5
  <1>7. route.pending # NoSnapshot => Len(rest) = 1 /\ rest[1] = route.pending
    OBVIOUS
  <1> HIDE DEF rest
  <1>8. Len(rest) \in Nat
    BY <1>3
  <1>9. FeedTypeOK'
    BY <1>1, <1>4, <1>6 DEF FeedInv, FeedTypeOK
  <1>10. NothingIsAhead'
    <2>1. \A n \in 1..Len(stream') : Listed(stream'[n])
      <3> SUFFICES ASSUME NEW n \in 1..Len(stream')
                   PROVE  Listed(stream'[n])
        OBVIOUS
      <3>1. CASE n \in 1..Len(stream)
        BY <1>6, <3>1 DEF FeedInv, NothingIsAhead
      <3>2. CASE n = Len(stream) + 1
        BY <1>2, <1>6, <3>2
      <3>3. CASE n > Len(stream) + 1
        <4>1. n - (Len(stream) + 1) \in 1..Len(rest)
          BY <1>5, <1>6, <1>8, <3>3
        <4>2. n = Len(stream) + 1 + (n - (Len(stream) + 1))
          BY <1>5
        <4> QED
          BY <1>3, <1>6, <4>1, <4>2
      <3> QED
        BY <1>5, <3>1, <3>2, <3>3
    <2> QED
      BY <1>1, <1>4, <2>1 DEF FeedInv, NothingIsAhead, Listed
  <1>11. (~overtaken => \A j \in Watched : OnItsWay(j))'
    <2> SUFFICES ASSUME ~overtaken, NEW j \in Watched
                 PROVE  OnItsWay(j)'
      BY <1>1
    <2>1. OnItsWay(j)
      BY DEF FeedInv
    <2>2. route.read = NoSnapshot
      BY <1>1 DEF FeedInv, FeedTypeOK
    <2>3. CASE route.initial[j] = file[j]
      <3>1. Len(stream) + 1 \in 1..Len(stream')
        BY <1>5, <1>6, <1>8
      <3> QED
        BY <1>1, <1>4, <1>6, <2>3, <3>1 DEF OnItsWay
    <2>4. CASE route.pending # NoSnapshot /\ route.pending[j] = file[j]
      <3>1. Len(stream) + 1 + 1 \in 1..Len(stream') /\ stream'[Len(stream) + 1 + 1] = route.pending
        BY <1>5, <1>6, <1>7, <2>4
      <3> QED
        BY <1>1, <1>4, <2>4, <3>1 DEF OnItsWay
    <2> QED
      BY <1>1, <1>2, <2>1, <2>2, <2>3, <2>4 DEF OnItsWay
  <1> QED
    BY <1>1, <1>4, <1>9, <1>10, <1>11 DEF FeedInv

\* Merging keeps what the view has of a job, and takes what is newer.
LEMMA ReceiveKeeps == FeedInv /\ Receive => FeedInv'
  <1> SUFFICES ASSUME FeedInv, Receive
               PROVE  FeedInv'
    OBVIOUS
  <1>1. /\ stream # <<>> /\ view' = Merge(view, Head(stream)) /\ stream' = Tail(stream)
        /\ UNCHANGED <<file, author, published, route, fetched, overtaken>>
    BY DEF Receive
  <1>2. stream \in Seq(Snapshot) /\ view \in Snapshot /\ file \in Snapshot
    BY DEF FeedInv, FeedTypeOK
  <1>3. /\ Len(stream) \in Nat /\ 1 \in 1..Len(stream) /\ Head(stream) = stream[1]
        /\ stream[1] \in Snapshot
        /\ stream' \in Seq(Snapshot) /\ Len(stream') = Len(stream) - 1
        /\ \A n \in 1..Len(stream') : stream'[n] = stream[n + 1]
    BY <1>1, <1>2
  <1>4. view' \in Snapshot
        /\ \A j \in Watched : /\ view'[j] \in {view[j], stream[1][j]}
                              /\ view'[j] >= view[j] /\ view'[j] >= stream[1][j]
    BY <1>1, <1>2, <1>3, MergedSnapshots
  <1>5. FeedTypeOK'
    BY <1>1, <1>3, <1>4 DEF FeedInv, FeedTypeOK
  <1>6. Listed(view') /\ Listed(view) /\ Listed(stream[1])
    BY <1>3, <1>4 DEF FeedInv, NothingIsAhead, Listed
  <1>7. NothingIsAhead'
    <2>1. \A n \in 1..Len(stream') : Listed(stream'[n])
      <3> SUFFICES ASSUME NEW n \in 1..Len(stream')
                   PROVE  Listed(stream'[n])
        OBVIOUS
      <3>1. n + 1 \in 1..Len(stream)
        BY <1>3
      <3> QED
        BY <1>3, <3>1 DEF FeedInv, NothingIsAhead
    <2> QED
      BY <1>1, <1>6, <2>1 DEF FeedInv, NothingIsAhead, Listed
  <1>8. (~overtaken => \A j \in Watched : OnItsWay(j))'
    <2> SUFFICES ASSUME ~overtaken, NEW j \in Watched
                 PROVE  OnItsWay(j)'
      BY <1>1
    <2>1. OnItsWay(j)
      BY DEF FeedInv
    <2>2. CASE /\ route.at = "open"
               /\ \/ view[j] = file[j]
                  \/ \E n \in 1..Len(stream) : stream[n][j] = file[j]
      <3>1. /\ view[j] \in Nat /\ stream[1][j] \in Nat /\ file[j] \in Nat /\ view'[j] \in Nat
            /\ view[j] <= file[j] /\ stream[1][j] <= file[j] /\ view'[j] <= file[j]
        BY <1>2, <1>3, <1>4, <1>6 DEF Snapshot, Listed
      <3>2. CASE view[j] = file[j] \/ stream[1][j] = file[j]
        <4>1. view'[j] = file[j]
          BY <1>4, <3>1, <3>2
        <4> QED
          BY <1>1, <2>2, <4>1 DEF OnItsWay
      <3>3. ASSUME NEW n \in 1..Len(stream), stream[n][j] = file[j], n # 1
            PROVE  OnItsWay(j)'
        <4>1. n - 1 \in 1..Len(stream') /\ n = (n - 1) + 1
          BY <1>3, <3>3
        <4>2. stream'[n - 1] = stream[n]
          BY <1>3, <4>1
        <4> QED
          BY <1>1, <2>2, <3>3, <4>1, <4>2 DEF OnItsWay
      <3> QED
        BY <2>2, <3>2, <3>3
    <2> QED
      BY <1>1, <2>1, <2>2 DEF OnItsWay
  <1> QED
    BY <1>1, <1>5, <1>7, <1>8 DEF FeedInv

LEMMA FetchKeeps == FeedInv /\ (Fetch \/ MergeFetched) => FeedInv'
  <1> SUFFICES ASSUME FeedInv, Fetch \/ MergeFetched
               PROVE  FeedInv'
    OBVIOUS
  <1>1. UNCHANGED <<file, author, published, route, stream, overtaken>>
    BY DEF Fetch, MergeFetched
  <1>2. view \in Snapshot /\ file \in Snapshot /\ Listed(view)
    BY DEF FeedInv, FeedTypeOK, NothingIsAhead
  <1>3. /\ fetched' \in Snapshot \cup {NoSnapshot} /\ view' \in Snapshot
        /\ fetched' # NoSnapshot => Listed(fetched')
        /\ Listed(view') /\ \A j \in Watched : view'[j] >= view[j]
    <2>1. CASE Fetch
      BY <1>2, <2>1 DEF Fetch, Listed, Snapshot
    <2>2. CASE MergeFetched
      <3>1. fetched \in Snapshot /\ Listed(fetched) /\ view' = Merge(view, fetched)
            /\ fetched' = NoSnapshot
        BY <2>2 DEF MergeFetched, FeedInv, FeedTypeOK, NothingIsAhead
      <3> QED
        BY <1>2, <3>1, MergedSnapshots DEF Listed
    <2> QED
      BY <2>1, <2>2
  <1>4. FeedTypeOK'
    BY <1>1, <1>3 DEF FeedInv, FeedTypeOK
  <1>5. NothingIsAhead'
    BY <1>1, <1>3 DEF FeedInv, NothingIsAhead, Listed
  <1>6. (~overtaken => \A j \in Watched : OnItsWay(j))'
    <2>1. \A j \in Watched : view[j] = file[j] => view'[j] = file[j]
      BY <1>2, <1>3 DEF Listed, Snapshot
    <2> QED
      BY <1>1, <2>1 DEF FeedInv, OnItsWay
  <1> QED
    BY <1>1, <1>4, <1>5, <1>6 DEF FeedInv

LEMMA FeedInitial == FeedInit => FeedInv
  <1> SUFFICES ASSUME FeedInit
               PROVE  FeedInv
    OBVIOUS
  <1>1. Unseen \in Snapshot /\ \A j \in Watched : Unseen[j] = 0
    BY DEF Unseen, Snapshot
  <1>2. Resting \in AuthorState /\ Resting.at = "idle"
    BY DEF Resting, AuthorState
  <1>3. Closed \in RouteState /\ Closed.at = "closed" /\ Closed.read = NoSnapshot
        /\ Closed.initial = NoSnapshot /\ Closed.pending = NoSnapshot
    BY DEF Closed, RouteState
  <1>4. FeedTypeOK
    <2>1. file \in Snapshot /\ published \in Snapshot /\ view \in Snapshot
      BY <1>1, Zenon DEF FeedInit
    <2>2. author \in [Authors -> AuthorState] /\ \A a \in Authors : author[a].at = "idle"
      BY <1>2 DEF FeedInit
    <2>3. route \in RouteState /\ route.at = "closed" /\ route.read = NoSnapshot
          /\ route.initial = NoSnapshot
      BY <1>3, Zenon DEF FeedInit
    <2>4. fetched = NoSnapshot /\ overtaken \in BOOLEAN
      BY Zenon DEF FeedInit
    <2>5. stream = <<>>
      BY DEF FeedInit
    <2>6. stream \in Seq(Snapshot)
      BY <2>5
    <2> QED
      BY <2>1, <2>2, <2>3, <2>4, <2>6 DEF FeedTypeOK
  <1>5. Listed(Unseen)
    <2>1. file = Unseen
      BY DEF FeedInit
    <2>2. \A j \in Watched : Unseen[j] <= Unseen[j]
      <3> SUFFICES ASSUME NEW j \in Watched
                   PROVE  Unseen[j] <= Unseen[j]
        OBVIOUS
      <3>1. Unseen[j] = 0
        BY <1>1
      <3>2. 0 <= 0
        OBVIOUS
      <3> QED
        BY <3>1, <3>2, Zenon
    <2> QED
      BY <2>1, <2>2, Zenon DEF Listed
  <1>6. NothingIsAhead
    BY <1>2, <1>3, <1>5 DEF FeedInit, NothingIsAhead
  <1> QED
    BY <1>3, <1>4, <1>6 DEF FeedInit, FeedInv, OnItsWay

\* Of every change of a job the browser has the outcome or somebody will still bring it to it
\* (job-queue.ts, http/job-routes.ts, lib/job-events.ts), but where a waiting route dropped the
\* newer of two lists.
THEOREM FeedInvariant == FeedSpec => []FeedInv
  <1>1. FeedInit => FeedInv
    BY FeedInitial
  <1>2. FeedInv /\ [FeedNext]_feedVars => FeedInv'
    <2> SUFFICES ASSUME FeedInv, [FeedNext]_feedVars
                 PROVE  FeedInv'
      OBVIOUS
    <2>1. CASE UNCHANGED feedVars
      BY <2>1 DEF feedVars, FeedInv, FeedTypeOK, NothingIsAhead, Listed, OnItsWay
    <2> QED
      BY <2>1, ChangeKeeps, ListKeeps, PublishKeeps, InitialKeeps, ConnectionKeeps, OpenKeeps,
         ReceiveKeeps, FetchKeeps
      DEF FeedNext
  <1> QED
    BY <1>1, <1>2, PTL DEF FeedSpec

\* When every change is published and the stream is drained, the browser shows the jobs as they
\* are, for any jobs, authors and reconnections (http/job-routes.ts, lib/job-events.ts).
THEOREM BrowserCatchesUp == FeedSpec => []FeedCatchesUp
  <1>1. FeedInv => FeedCatchesUp
    <2> SUFFICES ASSUME FeedInv, \A a \in Authors : author[a].at = "idle", route.at = "open",
                        stream = <<>>, ~overtaken
                 PROVE  view = file
      BY DEF FeedCatchesUp
    <2>1. view \in Snapshot /\ file \in Snapshot
      BY DEF FeedInv, FeedTypeOK
    <2>2. \A j \in Watched : OnItsWay(j)
      BY DEF FeedInv
    <2>3. Len(stream) = 0
      OBVIOUS
    <2>4. \A n \in 1..Len(stream) : FALSE
      BY <2>3
    <2>5. \A j \in Watched : view[j] = file[j]
      BY <2>2, <2>4 DEF OnItsWay
    <2> QED
      BY <2>1, <2>5 DEF Snapshot
  <1> QED
    BY <1>1, FeedInvariant, PTL
=============================================================================
