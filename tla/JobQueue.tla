------------------------------- MODULE JobQueue -------------------------------
(***************************************************************************)
(* JobQueue and JobRepository: the jobs of the managed projects, each a file *)
(* in its project's folder, the one worker that runs them, the calls that     *)
(* refresh its snapshot, and the deletions that stop it.  A call that lists   *)
(* the jobs publishes what it read when it resumes, which may be later.        *)
(* Any call on the files may throw, before or after it took effect.  The       *)
(* server stops, or dies, at any time and recovers the jobs it left.           *)
(***************************************************************************)
EXTENDS Naturals, FiniteSets

CONSTANTS Owners,         \* projects, each imported once
          Deleters,       \* calls of deleteProject that may overlap
          NoOwner,
          MaxAttempts,
          MaxMishaps      \* bound on shutdowns, crashes and calls on files that throw

ASSUME AttemptsAssumption == MaxAttempts \in Nat \ {0}
ASSUME NoOwnerAssumption == NoOwner \notin Owners

VARIABLES jobs,        \* the job files: [state, attempts, retryable]
          indexed,     \* the projects in the library
          folder,      \* where each project's folder is
          inspected,   \* the projects whose source has been inspected
          sprites,     \* the projects with a compatible set of thumbnails
          blocked,     \* blockedProjectIds
          seen,        \* the queued jobs of the last snapshot
          worker,      \* runWorker: [at, key, listed, inspection]
          refresher,   \* the call that refreshes: [at, key, listed, tracked, queued]
          deleters,    \* [at, owner] of each deletion
          server,      \* "up", "stopping" or "down"
          strays,      \* [missed, died, twice]: what the properties except
          mishaps

queueVars == <<jobs, indexed, folder, inspected, sprites, blocked, seen, worker,
               refresher, deleters, server, strays, mishaps>>

Types == {"inspect-source", "generate-thumbnails"}
Keys == Owners \X Types
Inspection(p) == <<p, "inspect-source">>
Thumbnails(p) == <<p, "generate-thumbnails">>

Absent == [state |-> "none", attempts |-> 0, retryable |-> FALSE]
NewQueuedJob == [Absent EXCEPT !.state = "queued"]
NoKey == <<NoOwner, NoOwner>>
NoWorker == [at |-> "none", key |-> NoKey, listed |-> {}, inspection |-> FALSE]
NoRefresh == [at |-> "none", key |-> NoKey, listed |-> {}, tracked |-> FALSE, queued |-> FALSE]
NoDelete == [at |-> "none", owner |-> NoOwner]

QueueInit ==
    /\ jobs = [k \in Keys |-> Absent]
    /\ indexed = {} /\ folder = [p \in Owners |-> "none"]
    /\ inspected = {} /\ sprites = {}
    /\ blocked = {} /\ seen = {}
    /\ worker = NoWorker /\ refresher = NoRefresh
    /\ deleters = [d \in Deleters |-> NoDelete]
    /\ server = "up"
    /\ strays = [missed |-> FALSE, died |-> FALSE, twice |-> {}]
    /\ mishaps = 0

Mishap == mishaps < MaxMishaps /\ mishaps' = mishaps + 1

\* The services' queue is taken by a deletion past its rename, or by an import.
QueueFree == ~ refresher.queued /\ \A d \in Deleters : deleters[d].at # "commit"

Queued == {k \in Keys : k[1] \in indexed /\ jobs[k].state = "queued"}

\* What a list reads: nothing of a project whose folder is renamed away.
QueuedJobs == {k \in Queued : folder[k[1]] = "managed"}

CanRun(keys) == {k \in keys : k[1] \notin blocked'}

----------------------------------------------------------------------------
(* The snapshot and the worker it starts. *)

\* setSnapshot.  A list read earlier, or while a folder was away, may hide a queued job
\* that the last snapshot showed.
Publish(listed) ==
    /\ seen' = listed
    /\ strays' = [strays EXCEPT !.missed =
                     \E k \in Queued \ listed : @ \/ k \in seen]

LookAgain == [NoWorker EXCEPT !.at = "list"]

StartWorker(keys) ==
    IF worker = NoWorker /\ server = "up" /\ CanRun(keys) # {}
    THEN worker' = LookAgain
    ELSE UNCHANGED worker

\* startWorker, when a list has just been published or a project unblocked.
Restart(keys) ==
    /\ StartWorker(keys)
    /\ UNCHANGED <<jobs, indexed, folder, inspected, sprites, server, mishaps>>

\* A worker returns when it has published a list without work, or on a shutdown: the
\* callback that would start another looks at that same snapshot.
WorkerEnds == worker' = NoWorker

WorkerAt(at) == worker.at = at
Owner == worker.key[1]
GoTo(at) == worker' = [worker EXCEPT !.at = at]

\* A worker that throws is not restarted, and fails the deletions that wait for it.
WorkerDies ==
    /\ worker' = NoWorker
    /\ strays' = [strays EXCEPT !.died = TRUE]
    /\ deleters' = [d \in Deleters |->
                      IF deleters[d].at = "stopping" THEN [deleters[d] EXCEPT !.at = "resume"]
                      ELSE deleters[d]]

OtherWork == UNCHANGED <<indexed, folder, blocked, refresher, server>>

List ==
    /\ WorkerAt("list")
    /\ \/ /\ server = "stopping" /\ WorkerEnds
          /\ UNCHANGED <<deleters, strays, mishaps>>
       \/ /\ server # "stopping"
          /\ worker' = [worker EXCEPT !.at = "pick", !.listed = QueuedJobs]
          /\ UNCHANGED <<deleters, strays, mishaps>>
       \/ server # "stopping" /\ Mishap /\ WorkerDies
    /\ UNCHANGED <<jobs, inspected, sprites, seen>> /\ OtherWork

Pick ==
    /\ WorkerAt("pick")
    /\ Publish(worker.listed)
    /\ UNCHANGED <<jobs, inspected, sprites, deleters, mishaps>> /\ OtherWork
    /\ \/ \E k \in CanRun(worker.listed) :
             worker' = [worker EXCEPT !.at = "mark", !.key = k, !.inspection = FALSE]
       \/ CanRun(worker.listed) = {} /\ WorkerEnds

\* writeTransition: the file must still be the record that was read.
Unchanged(state) == folder[Owner] = "managed" /\ jobs[worker.key].state = state

Marked(job) == jobs' = [jobs EXCEPT ![worker.key] = job]

\* markRunning is outside the worker's try: what throws in it ends the worker.
MarkRunning ==
    /\ WorkerAt("mark")
    /\ LET job == jobs[worker.key]
           running == [job EXCEPT !.state = "running", !.attempts = job.attempts + 1]
       IN  \/ /\ Unchanged("queued") /\ job.attempts < MaxAttempts
              /\ Marked(running) /\ GoTo("begin")
              /\ UNCHANGED <<deleters, strays, mishaps>>
           \/ /\ ~ (Unchanged("queued") /\ job.attempts < MaxAttempts)
              /\ WorkerDies /\ UNCHANGED <<jobs, mishaps>>
           \/ /\ Unchanged("queued") /\ Mishap /\ WorkerDies
              /\ Marked(running) \/ UNCHANGED jobs
    /\ UNCHANGED <<inspected, sprites, seen>> /\ OtherWork

\* publishFresh reads the list: after the job began, after it ended, and after the
\* thumbnails' job was ensured, where alone what it throws is caught.
PublishFresh ==
    /\ worker.at \in {"begin", "publish", "again"}
    /\ LET next == CASE WorkerAt("begin") -> "shown"
                     [] WorkerAt("publish") /\ worker.inspection -> "ensure"
                     [] OTHER -> "fresh"
       IN  \/ /\ worker' = [worker EXCEPT !.at = next, !.listed = QueuedJobs]
              /\ UNCHANGED <<deleters, strays, mishaps>>
           \/ /\ Mishap
              /\ IF WorkerAt("again") THEN worker' = LookAgain /\ UNCHANGED <<deleters, strays>>
                                      ELSE WorkerDies
    /\ UNCHANGED <<jobs, inspected, sprites, seen>> /\ OtherWork

Show ==
    /\ WorkerAt("shown") /\ GoTo("run")
    /\ Publish(worker.listed)
    /\ UNCHANGED <<jobs, inspected, sprites, deleters, mishaps>> /\ OtherWork

\* The probe succeeds and updateSourceMetadata saves the project, in the queue; a save
\* that throws may have taken effect.
Inspect ==
    /\ WorkerAt("run") /\ worker.key = Inspection(Owner)
    /\ QueueFree /\ Owner \in indexed /\ folder[Owner] = "managed"
    /\ inspected' = inspected \cup {Owner}
    /\ \/ worker' = [worker EXCEPT !.at = "complete", !.inspection = TRUE] /\ UNCHANGED mishaps
       \/ Mishap /\ GoTo("fail")
    /\ UNCHANGED <<jobs, sprites, seen, deleters, strays>> /\ OtherWork

GenerateThumbnails ==
    /\ WorkerAt("run") /\ worker.key = Thumbnails(Owner)
    /\ folder[Owner] = "managed" /\ Owner \in inspected
    /\ sprites' = sprites \cup {Owner}
    /\ \/ GoTo("complete") /\ UNCHANGED mishaps
       \/ GoTo("fail") /\ Mishap
    /\ UNCHANGED <<jobs, inspected, seen, deleters, strays>> /\ OtherWork

\* The tool fails, the project is gone, or the deletion has aborted it.
RunFails ==
    /\ WorkerAt("run") /\ GoTo("fail")
    /\ UNCHANGED <<jobs, inspected, sprites, seen, deleters, strays, mishaps>> /\ OtherWork

\* A shutdown aborts the thumbnails and leaves their job running, for the next start:
\* the worker publishes once more and ends.
Pause ==
    /\ WorkerAt("run") /\ server = "stopping" /\ worker.key = Thumbnails(Owner)
    /\ GoTo("publish")
    /\ UNCHANGED <<jobs, inspected, sprites, seen, deleters, strays, mishaps>> /\ OtherWork

\* A markCompleted that throws is caught and the job marked failed: if its write took
\* effect the file is no longer what was read, and the worker ends.
MarkCompleted ==
    /\ WorkerAt("complete")
    /\ LET done == [jobs[worker.key] EXCEPT !.state = "completed"]
       IN  \/ /\ Unchanged("running") /\ Marked(done) /\ GoTo("publish")
              /\ UNCHANGED <<deleters, strays, mishaps>>
           \/ /\ ~ Unchanged("running") /\ WorkerDies /\ UNCHANGED <<jobs, mishaps>>
           \/ /\ Unchanged("running") /\ Mishap
              /\ \/ GoTo("fail") /\ UNCHANGED <<jobs, deleters, strays>>
                 \/ WorkerDies /\ Marked(done)
    /\ UNCHANGED <<inspected, sprites, seen>> /\ OtherWork

MarkFailed ==
    /\ WorkerAt("fail")
    /\ \/ /\ Unchanged("running") /\ GoTo("publish")
          /\ \E retryable \in {FALSE, jobs[worker.key].attempts < MaxAttempts} :
               Marked([jobs[worker.key] EXCEPT !.state = "failed", !.retryable = retryable])
          /\ UNCHANGED <<deleters, strays, mishaps>>
       \/ ~ Unchanged("running") /\ WorkerDies /\ UNCHANGED <<jobs, mishaps>>
       \/ Unchanged("running") /\ Mishap /\ WorkerDies /\ UNCHANGED jobs
    /\ UNCHANGED <<inspected, sprites, seen>> /\ OtherWork

\* ensureThumbnailJob: an unfinished job stays, a completed one is followed by another.
Ensured(p) == IF jobs[Thumbnails(p)].state \in {"none", "completed"} THEN NewQueuedJob ELSE jobs[Thumbnails(p)]

\* An inspected source gets its job, unless its project is being deleted; what throws
\* here, before or after the job is written, is caught.
EnsureThumbnailJob ==
    /\ WorkerAt("ensure")
    /\ Publish(worker.listed)
    /\ LET withThumbnails == [jobs EXCEPT ![Thumbnails(Owner)] = Ensured(Owner)]
       IN  \/ /\ Owner \in blocked /\ worker' = LookAgain
              /\ UNCHANGED <<jobs, mishaps>>
           \/ /\ Owner \notin blocked /\ GoTo("again")
              /\ jobs' = withThumbnails /\ UNCHANGED mishaps
           \/ /\ Owner \notin blocked /\ Mishap /\ worker' = LookAgain
              /\ jobs' \in {jobs, withThumbnails}
    /\ UNCHANGED <<inspected, sprites, deleters>> /\ OtherWork

Continue ==
    /\ WorkerAt("fresh")
    /\ Publish(worker.listed)
    /\ worker' = LookAgain
    /\ UNCHANGED <<jobs, inspected, sprites, deleters, mishaps>> /\ OtherWork

----------------------------------------------------------------------------
(* The calls that refresh: reading the jobs, retrying one, importing a project. *)

\* reconcileThumbnailJobs, for every project whose set is missing; a project it fails
\* for is left as it is.
JobsReconciled(failed) ==
    [k \in Keys |-> IF k = Thumbnails(k[1]) /\ k[1] \in (indexed \cap inspected) \ (sprites \cup failed)
                       /\ folder[k[1]] = "managed"
                    THEN Ensured(k[1]) ELSE jobs[k]]

FirstStep == IF blocked = {} THEN "reconcile" ELSE "list"

Caller == UNCHANGED <<inspected, sprites, blocked, seen, worker, server>>
CallGoesOn == Caller /\ UNCHANGED <<deleters, strays>>

\* The operations that are tracked, which a deletion waits for: a retry and a
\* reconciliation.
OperationsOver == refresher.at # "reconcile" /\ ~ refresher.tracked

\* A call that throws publishes nothing and starts no worker; if it was tracked, the
\* deletions that wait for it throw too.
CallThrows ==
    /\ refresher' = NoRefresh
    /\ deleters' = [d \in Deleters |->
                      IF deleters[d].at = "waiting" /\ ~ OperationsOver
                      THEN [deleters[d] EXCEPT !.at = "resume"] ELSE deleters[d]]
    /\ Caller

Refresh ==
    /\ server = "up" /\ refresher = NoRefresh
    /\ refresher' = [NoRefresh EXCEPT !.at = FirstStep]
    /\ UNCHANGED <<jobs, indexed, folder, mishaps>> /\ CallGoesOn

\* The whole of a retry is tracked, and refused while its project is deleted; one of a
\* job that has not failed is refused like the others below.
Retry(k) ==
    /\ server = "up" /\ refresher = NoRefresh
    /\ k[1] \in indexed \ blocked /\ folder[k[1]] = "managed" /\ jobs[k].state = "failed"
    /\ refresher' = [NoRefresh EXCEPT !.at = "retry", !.key = k, !.tracked = TRUE]
    /\ UNCHANGED <<jobs, indexed, folder, mishaps>> /\ CallGoesOn

\* The job must be one that may be retried; a write that throws without effect ends the
\* call here, one that took effect ends it in RefreshThrows.
RetryWrites ==
    /\ refresher.at = "retry"
    /\ LET k == refresher.key
           allowed == /\ k[1] \in indexed /\ folder[k[1]] = "managed"
                      /\ jobs[k].state = "failed" /\ jobs[k].retryable
                      /\ jobs[k].attempts < MaxAttempts
       IN  \/ /\ allowed
              /\ jobs' = [jobs EXCEPT ![k].state = "queued"]
              /\ refresher' = [refresher EXCEPT !.at = FirstStep, !.key = NoKey]
              /\ UNCHANGED mishaps /\ CallGoesOn
           \/ ~ allowed /\ CallThrows /\ UNCHANGED <<jobs, strays, mishaps>>
           \/ allowed /\ Mishap /\ CallThrows /\ UNCHANGED <<jobs, strays>>
    /\ UNCHANGED <<indexed, folder>>

\* importSelected, in the services' queue, reconciles the others and adds one project.
ImportProject(p) ==
    /\ server = "up" /\ refresher = NoRefresh /\ QueueFree
    /\ folder[p] = "none" /\ jobs[Inspection(p)] = Absent
    /\ jobs' = [JobsReconciled({}) EXCEPT ![Inspection(p)] = NewQueuedJob]
    /\ indexed' = indexed \cup {p}
    /\ folder' = [folder EXCEPT ![p] = "managed"]
    /\ refresher' = [NoRefresh EXCEPT !.at = FirstStep, !.queued = TRUE]
    /\ UNCHANGED mishaps /\ CallGoesOn

RefreshReconciles ==
    /\ refresher.at = "reconcile"
    /\ \/ jobs' = JobsReconciled({}) /\ UNCHANGED mishaps
       \/ Mishap /\ \E failed \in SUBSET Owners : jobs' = JobsReconciled(failed)
    /\ refresher' = [refresher EXCEPT !.at = "list"]
    /\ UNCHANGED <<indexed, folder>> /\ CallGoesOn

RefreshLists ==
    /\ refresher.at = "list"
    /\ refresher' = [refresher EXCEPT !.at = "set", !.listed = QueuedJobs]
    /\ UNCHANGED <<jobs, indexed, folder, mishaps>> /\ CallGoesOn

\* What the call does after its job is queued throws: the write's directory sync, the
\* rest of an import, the reconciliation as a whole or the list.
RefreshThrows ==
    /\ refresher.at \in {"reconcile", "list"}
    /\ Mishap /\ CallThrows
    /\ strays' = [strays EXCEPT !.missed = @ \/ ~ Queued \subseteq seen]
    /\ UNCHANGED <<jobs, indexed, folder>>

RefreshEnds ==
    /\ refresher.at = "set"
    /\ UNCHANGED <<deleters, blocked>>
    /\ Publish(refresher.listed) /\ Restart(refresher.listed)
    /\ refresher' = NoRefresh

----------------------------------------------------------------------------
(* deleteProject. *)

DeleterAt(d, at) == deleters[d].at = at
DeleterGoes(d, at) == deleters' = [deleters EXCEPT ![d].at = at]
Rest == UNCHANGED <<inspected, sprites, refresher, server, mishaps>>

\* stopProject blocks the project, and waits for the operations and the worker.
StopProject(d, p) ==
    /\ server = "up" /\ DeleterAt(d, "none") /\ p \in indexed
    /\ deleters' = [deleters EXCEPT ![d] = [at |-> "waiting", owner |-> p]]
    /\ blocked' = blocked \cup {p}
    /\ strays' = [strays EXCEPT !.twice =
                    IF \E e \in Deleters : deleters[e].owner = p THEN @ \cup {p} ELSE @]
    /\ UNCHANGED <<jobs, indexed, folder, seen, worker>> /\ Rest

WaitForOperations(d) ==
    /\ DeleterAt(d, "waiting") /\ OperationsOver
    /\ DeleterGoes(d, "stopping")
    /\ UNCHANGED <<jobs, indexed, folder, blocked, seen, worker, strays>> /\ Rest

MutWaitForIdle(d) ==
    /\ DeleterAt(d, "stopping") /\ DeleterGoes(d, "queued")
    /\ UNCHANGED <<jobs, indexed, folder, blocked, seen, worker, strays>> /\ Rest

WaitForIdle(d) ==
    /\ DeleterAt(d, "stopping") /\ worker = NoWorker
    /\ DeleterGoes(d, "queued")
    /\ UNCHANGED <<jobs, indexed, folder, blocked, seen, worker, strays>> /\ Rest

\* ProjectDeletion.delete, in the queue: the folder is renamed, then the catalogue
\* commits; a project that is not indexed ends it, and so does a read or a rename that
\* throws.
Rename(d) ==
    /\ DeleterAt(d, "queued") /\ QueueFree
    /\ LET p == deleters[d].owner
       IN  \/ /\ p \in indexed /\ folder[p] = "managed"
              /\ folder' = [folder EXCEPT ![p] = "tombstone"] /\ DeleterGoes(d, "commit")
           \/ DeleterGoes(d, "resume") /\ UNCHANGED folder
    /\ UNCHANGED <<jobs, indexed, blocked, seen, worker, strays>> /\ Rest

\* The tombstone is removed later, or at the next start; a commit that fails is undone,
\* and what the last snapshot did not show of the project waits for the next.
CommitDeletion(d) ==
    /\ DeleterAt(d, "commit")
    /\ LET p == deleters[d].owner
       IN  \/ /\ indexed' = indexed \ {p}
              /\ folder' = [folder EXCEPT ![p] = "none"]
              /\ UNCHANGED <<mishaps, strays>>
           \/ /\ Mishap /\ UNCHANGED indexed
              /\ folder' = [folder EXCEPT ![p] = "managed"]
              /\ strays' = [strays EXCEPT !.missed = @ \/ \E k \in Queued \ seen : k[1] = p]
    /\ DeleterGoes(d, "resume")
    /\ UNCHANGED <<jobs, blocked, seen, worker, inspected, sprites, refresher, server>>

\* resumeProject: a second deletion of the project loses its block here too.
ResumeProject(d) ==
    /\ DeleterAt(d, "resume")
    /\ blocked' = blocked \ {deleters[d].owner}
    /\ deleters' = [deleters EXCEPT ![d] = NoDelete]
    /\ Restart(seen) /\ UNCHANGED <<seen, strays, refresher>>

----------------------------------------------------------------------------
(* Stopping and starting. *)

Shutdown ==
    /\ server = "up" /\ Mishap
    /\ server' = "stopping"
    /\ UNCHANGED <<jobs, indexed, folder, inspected, sprites, blocked, seen, worker,
                   refresher, deleters, strays>>

\* The process ends: after a shutdown when the worker and the queue are idle, or not.
ServerEnds ==
    /\ server' = "down"
    /\ worker' = NoWorker /\ refresher' = NoRefresh
    /\ deleters' = [d \in Deleters |-> NoDelete]
    /\ blocked' = {} /\ seen' = {}
    /\ UNCHANGED <<jobs, indexed, folder, inspected, sprites, strays>>

Stopped == server = "stopping" /\ worker = NoWorker /\ QueueFree /\ ServerEnds /\ UNCHANGED mishaps

ServerDies == server # "down" /\ Mishap /\ ServerEnds

\* recoverRunning: an attempt that was cut short is queued again, or fails if it was the last.
Recovered(job) ==
    IF job.state # "running" THEN job
    ELSE IF job.attempts >= MaxAttempts THEN [job EXCEPT !.state = "failed", !.retryable = FALSE]
    ELSE [job EXCEPT !.state = "queued"]

\* services.recover: deletions, then the thumbnails' jobs, then the running jobs; the
\* server listens when it is done.
RecoverJobs ==
    /\ server = "down" /\ server' = "up"
    /\ folder' = [p \in Owners |-> IF p \in indexed THEN "managed" ELSE "none"]
    /\ jobs' = [k \in Keys |->
          LET thumbs == k = Thumbnails(k[1]) /\ k[1] \in (indexed \cap inspected) \ sprites
          IN  IF k[1] \in indexed THEN Recovered(IF thumbs THEN Ensured(k[1]) ELSE jobs[k]) ELSE jobs[k]]
    /\ seen' = {k \in Keys : k[1] \in indexed /\ jobs'[k].state = "queued"}
    /\ worker' = IF seen' = {} THEN NoWorker ELSE LookAgain
    /\ strays' = [missed |-> FALSE, died |-> FALSE, twice |-> {}]
    /\ UNCHANGED <<indexed, inspected, sprites, blocked, refresher, deleters, mishaps>>

QueueNext ==
    \/ List \/ Pick \/ MarkRunning \/ Inspect \/ GenerateThumbnails \/ RunFails \/ Pause
    \/ MarkCompleted \/ MarkFailed \/ PublishFresh \/ Show \/ EnsureThumbnailJob \/ Continue
    \/ Refresh \/ RetryWrites \/ RefreshReconciles \/ RefreshLists \/ RefreshThrows \/ RefreshEnds
    \/ Shutdown \/ Stopped \/ ServerDies \/ RecoverJobs
    \/ \E k \in Keys : Retry(k)
    \/ \E p \in Owners : ImportProject(p)
    \/ \E d \in Deleters : \/ \E p \in Owners : StopProject(d, p)
                           \/ WaitForOperations(d) \/ WaitForIdle(d) \/ Rename(d)
                           \/ CommitDeletion(d) \/ ResumeProject(d)

QueueSpec == QueueInit /\ [][QueueNext]_queueVars

----------------------------------------------------------------------------
\* With the worker idle and no call refreshing, every queued job whose project is not
\* being deleted has been run: no wake-up is lost, whether the job was queued by a
\* call, by the worker or behind a deletion.  Excepted are the holes of the code: a list
\* that hides a job the last one showed, a retry, an import or a refresh that throws
\* once a job is queued and so publishes no list (both until a list shows every queued
\* job, `missed`), and a worker that ended by throwing (`died`).
NoJobIsStranded ==
    server = "up" /\ worker = NoWorker /\ refresher = NoRefresh
      /\ ~ strays.missed /\ ~ strays.died =>
        \A k \in QueuedJobs : k[1] \in blocked

\* While a project's folder is renamed away and its removal committed, the worker is
\* not on it and no reconciliation is about to write its jobs, unless another deletion
\* of the same project has ended meanwhile and unblocked it.
DeletionWorksAlone ==
    \A d \in Deleters : DeleterAt(d, "commit") /\ deleters[d].owner \notin strays.twice =>
        /\ worker = NoWorker \/ Owner # deleters[d].owner
        /\ refresher.at # "reconcile"

\* No wake-up of the worker is lost, and a deletion has its project to itself.
QueueIsSound == NoJobIsStranded /\ DeletionWorksAlone
=============================================================================
