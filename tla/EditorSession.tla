---------------------------- MODULE EditorSession ----------------------------
(***************************************************************************)
(* One open video of the editor: the WorkspaceSession's server copy and     *)
(* draft, its SaveController (debounce, one save in flight, flush), the      *)
(* user's calls that flush first, the background poll that applies whole     *)
(* workspace snapshots, and the server, whose revisions decide which saves   *)
(* it takes.  A fragment's content is the number of the edit that wrote it.  *)
(***************************************************************************)
EXTENDS Naturals, FiniteSets, FiniteSetsExt

CONSTANTS Fragments,
          None,          \* no draft, no save, no call, no poll, a closed video
          MaxEdits,      \* bound on the user's edits
          MaxCalls,      \* bound on the user's calls
          MaxPolls,      \* bound on the polls and on the inspections
          MaxFailures    \* bound on failed requests

ASSUME SessionAssumption ==
    /\ MaxEdits \in Nat /\ MaxCalls \in Nat /\ MaxPolls \in Nat /\ MaxFailures \in Nat

Kinds == {"save", "switch", "close", "discard", "patch"}

\* What the messages and the two copies are made of.
Version == [rev : Nat, value : Nat]
Document == [rev : Nat, frags : [Fragments -> Version]]
SaveRequest == [stage : {"sent", "stored", "failed"}, revision : Nat, doc : Document,
                orphan : BOOLEAN]
UserCall == [kind : Kinds, stage : {"flushing", "sent", "answered"}, target : Nat,
             frag : Fragments, answer : Document \cup Version \cup {None}]
PollRequest == [stage : {"sent", "half", "loaded"}, doc : Document \cup {None}]

ASSUME NoneAssumption ==
    None \notin Document \cup Version \cup SaveRequest \cup UserCall \cup PollRequest

VARIABLES server,    \* [open, rev, frags]: rows of the video and of its fragments
          copy,      \* serverWorkspace's document of the video
          draft,     \* drafts[video]
          ctl,       \* the SaveController: [revision, savedRevision, timer, status]
          save,      \* inFlight: [stage, revision, doc, orphan]
          call,      \* the user's call: [kind, stage, target, frag, answer]
          poll,      \* schedulePoll's request: [stage, doc]
          latest,    \* the number of each fragment's last edit
          exposed,   \* the code has let an answer take an edit out of the view
          used       \* what the bounds have allowed so far

vars == <<server, copy, draft, ctl, save, call, poll, latest, exposed, used>>

NewFragment == [rev |-> 1, value |-> 0]
Stored == [rev |-> server.rev, frags |-> server.frags]

Init ==
    /\ server = [open |-> TRUE, rev |-> 1, frags |-> [f \in Fragments |-> NewFragment]]
    /\ copy = Stored
    /\ draft = None
    /\ ctl = [revision |-> 0, savedRevision |-> 0, timer |-> FALSE, status |-> "saved"]
    /\ save = None /\ call = None /\ poll = None
    /\ latest = [f \in Fragments |-> 0]
    /\ exposed = FALSE
    /\ used = [calls |-> 0, polls |-> 0, inspections |-> 0, failures |-> 0]

\* projectWorkspace: the draft hides the server's copy.
Shown == IF draft = None THEN copy ELSE draft

----------------------------------------------------------------------------
(* The SaveController. *)

MutMarkDirty(timing) ==
    ctl' = [ctl EXCEPT !.revision = ctl.revision + 1, !.status = "unsaved", !.timer = FALSE]

\* A pending timer restarts; during a save, finishSave will schedule the next one.
MarkDirty(timing) ==
    ctl' = [ctl EXCEPT !.revision = ctl.revision + 1, !.status = "unsaved", !.timer = timing]

StartSave ==
    /\ save' = [stage |-> "sent", revision |-> ctl.revision, doc |-> Shown, orphan |-> FALSE]
    /\ ctl' = [ctl EXCEPT !.status = "saving", !.timer = FALSE]

TimerFires ==
    /\ ctl.timer /\ save = None
    /\ StartSave
    /\ UNCHANGED <<server, copy, draft, call, poll, latest, exposed, used>>

Synchronized(local, saved) ==
    [rev |-> saved.rev,
     frags |-> [f \in Fragments |-> [rev |-> saved.frags[f].rev, value |-> local.frags[f].value]]]

MutFinishSave(settled) ==
    ctl' = [ctl EXCEPT !.status = settled, !.timer = FALSE,
                       !.savedRevision = IF settled = "saved" THEN Max({ctl.savedRevision, save.revision})
                                          ELSE ctl.savedRevision]

\* Newer edits keep the state unsaved (or failed) and schedule the next save.
FinishSave(settled) ==
    LET newer == ctl.revision > save.revision
    IN  ctl' = [ctl EXCEPT !.status = IF newer /\ settled = "saved" THEN "unsaved" ELSE settled,
                           !.timer = newer,
                           !.savedRevision = IF settled = "saved" THEN Max({ctl.savedRevision, save.revision})
                                          ELSE ctl.savedRevision]

\* applySavedProject, then finishSave; "saved" drops the draft (updateSaveStatus).
SaveSucceeds ==
    /\ save # None /\ save.stage = "stored"
    /\ save' = None
    /\ copy' = IF copy = None THEN None ELSE save.doc
    /\ IF save.orphan
       THEN /\ draft' = IF draft = None THEN None ELSE Synchronized(draft, save.doc)
            /\ UNCHANGED ctl
       ELSE /\ FinishSave("saved")
            /\ draft' = IF draft = None \/ ctl'.status = "saved" THEN None
                        ELSE Synchronized(draft, save.doc)
    /\ UNCHANGED <<server, call, poll, latest, exposed, used>>

Flushing == call # None /\ call.stage = "flushing"

\* A flush that was waiting for this save throws, and the user's call ends with it.
SaveFails ==
    /\ save # None /\ save.stage = "failed"
    /\ save' = None
    /\ IF save.orphan THEN UNCHANGED ctl ELSE FinishSave("failed")
    /\ call' = IF Flushing /\ ctl.savedRevision < call.target THEN None ELSE call
    /\ UNCHANGED <<server, copy, draft, poll, latest, exposed, used>>

----------------------------------------------------------------------------
(* The user. *)

Edit(f) ==
    /\ copy # None
    /\ ctl.revision < MaxEdits
    /\ draft' = [Shown EXCEPT !.frags =
                    [Shown.frags EXCEPT ![f] = [Shown.frags[f] EXCEPT !.value = ctl.revision + 1]]]
    /\ latest' = [latest EXCEPT ![f] = ctl.revision + 1]
    /\ MarkDirty(save = None)
    /\ UNCHANGED <<server, copy, save, call, poll, exposed, used>>

\* A call flushes the video first; deleting another video flushes only that one.
Request(kind, f) ==
    /\ copy # None /\ call = None
    /\ used.calls < MaxCalls
    /\ used' = [used EXCEPT !.calls = @ + 1]
    /\ call' = [kind |-> kind, stage |-> IF kind = "discard" THEN "sent" ELSE "flushing",
                target |-> ctl.revision, frag |-> f, answer |-> None]
    /\ IF kind = "discard" THEN UNCHANGED <<ctl, save>>
       ELSE IF save = None /\ ctl.savedRevision < ctl.revision THEN StartSave
       ELSE ctl' = [ctl EXCEPT !.timer = FALSE] /\ UNCHANGED save
    /\ UNCHANGED <<server, copy, draft, poll, latest, exposed>>

\* The flush loop: save again until what the call asked for is saved, unless the video's
\* controller was cancelled.
FlushAgain ==
    /\ Flushing /\ copy # None
    /\ ctl.savedRevision < call.target /\ save = None
    /\ StartSave
    /\ UNCHANGED <<server, copy, draft, call, poll, latest, exposed, used>>

MutFlushed == Flushing

Flushed == Flushing /\ (ctl.savedRevision >= call.target \/ copy = None)

\* The flush is over: the request goes out, with the revision shown at this moment.
FlushEnds ==
    /\ Flushed
    /\ IF copy # None /\ ctl.revision = ctl.savedRevision
       THEN ctl' = [ctl EXCEPT !.status = "saved"] /\ draft' = None
       ELSE UNCHANGED <<ctl, draft>>
    /\ call' = IF call.kind = "save" \/ copy = None THEN None
               ELSE [call EXCEPT !.stage = "sent",
                                 !.answer = IF call.answer = None /\ call.kind = "patch"
                                            THEN Shown.frags[call.frag] ELSE None]
    /\ UNCHANGED <<server, copy, save, poll, latest, exposed, used>>

----------------------------------------------------------------------------
(* The server. *)

\* saveEditor's optimistic lock: the video's revision and every fragment's.
Fresh(doc) ==
    /\ server.rev = doc.rev
    /\ \A f \in Fragments : server.frags[f].rev = doc.frags[f].rev

\* Only what changed gets a new revision, and the video with it.
Saved(doc) ==
    LET changed == {f \in Fragments : server.frags[f].value # doc.frags[f].value}
    IN  [open |-> server.open,
         rev |-> server.rev + (IF changed = {} THEN 0 ELSE 1),
         frags |-> [f \in Fragments |->
                      IF f \in changed
                      THEN [rev |-> server.frags[f].rev + 1, value |-> doc.frags[f].value]
                      ELSE server.frags[f]]]

\* The answer is a snapshot of the open videos: a closed video answers "not found",
\* and an answer may be lost on its way.
ServerSaves ==
    /\ save # None /\ save.stage = "sent"
    /\ Fresh(save.doc)
    /\ server' = Saved(save.doc)
    /\ \/ /\ server.open
          /\ save' = [save EXCEPT !.stage = "stored",
                                  !.doc = [rev |-> server'.rev, frags |-> server'.frags]]
          /\ UNCHANGED used
       \/ /\ ~ server.open
          /\ save' = [save EXCEPT !.stage = "failed"]
          /\ UNCHANGED used
       \/ /\ used.failures < MaxFailures
          /\ used' = [used EXCEPT !.failures = @ + 1]
          /\ save' = [save EXCEPT !.stage = "failed"]
    /\ UNCHANGED <<copy, draft, ctl, call, poll, latest, exposed>>

ServerRefuses ==
    /\ save # None /\ save.stage = "sent"
    /\ \/ /\ ~ Fresh(save.doc) /\ UNCHANGED used
       \/ /\ used.failures < MaxFailures
          /\ used' = [used EXCEPT !.failures = @ + 1]
    /\ save' = [save EXCEPT !.stage = "failed"]
    /\ UNCHANGED <<server, copy, draft, ctl, call, poll, latest, exposed>>

Asked(kind) == call # None /\ call.stage = "sent" /\ call.kind = kind

Answer(answer) == call' = [call EXCEPT !.stage = "answered", !.answer = answer]

\* Activating, opening or importing another video, or deleting one.
ServerSnapshots ==
    /\ Asked("switch") \/ Asked("discard")
    /\ Answer(IF server.open THEN Stored ELSE None)
    /\ UNCHANGED <<server, copy, draft, ctl, save, poll, latest, exposed, used>>

\* POST /close carries no document: what was not flushed is not saved.
ServerCloses ==
    /\ Asked("close")
    /\ server' = [server EXCEPT !.open = FALSE]
    /\ Answer(None)
    /\ UNCHANGED <<copy, draft, ctl, save, poll, latest, exposed, used>>

\* FragmentService.patch: the fragment's revision alone, other fields than the edits'.
ServerPatches ==
    /\ Asked("patch")
    /\ call.answer.rev = server.frags[call.frag].rev
    /\ server' = [server EXCEPT !.frags =
                    [server.frags EXCEPT ![call.frag] =
                        [server.frags[call.frag] EXCEPT !.rev = server.frags[call.frag].rev + 1]]]
    /\ Answer(server'.frags[call.frag])
    /\ UNCHANGED <<copy, draft, ctl, save, poll, latest, exposed, used>>

CallFails ==
    /\ call # None /\ call.stage = "sent"
    /\ \/ Asked("patch") /\ call.answer.rev # server.frags[call.frag].rev /\ UNCHANGED used
       \/ /\ used.failures < MaxFailures
          /\ used' = [used EXCEPT !.failures = @ + 1]
    /\ \/ UNCHANGED server
       \/ call.kind = "close" /\ server' = [server EXCEPT !.open = FALSE]
    /\ call' = None
    /\ UNCHANGED <<copy, draft, ctl, save, poll, latest, exposed>>

\* inspect-video marks the video ready: a revision the editor did not make.
Inspect ==
    /\ used.inspections < MaxPolls
    /\ used' = [used EXCEPT !.inspections = @ + 1]
    /\ server' = [server EXCEPT !.rev = server.rev + 1]
    /\ UNCHANGED <<copy, draft, ctl, save, call, poll, latest, exposed>>

----------------------------------------------------------------------------
(* Snapshots. *)

\* mergeUnsavedEditor: the local content under the newer of the two revisions.
Merged(local, snapshot) ==
    [rev |-> Max({snapshot.rev, local.rev}),
     frags |-> [f \in Fragments |->
                  [rev |-> Max({snapshot.frags[f].rev, local.frags[f].rev}),
                   value |-> local.frags[f].value]]]

MutKept(snapshot, preserve) == None

Kept(snapshot, preserve) ==
    IF preserve /\ draft # None /\ ctl.status # "saved" THEN Merged(draft, snapshot) ELSE None

\* The snapshot is older than what a save's answer already put in the server copy.
Behind(snapshot) ==
    \/ copy = None
    \/ \E f \in Fragments : snapshot.frags[f].rev < copy.frags[f].rev

\* ensureControllers cancels the controller of a video that is no longer open.
Leave ==
    /\ copy' = None /\ draft' = None
    /\ ctl' = [ctl EXCEPT !.timer = FALSE]
    /\ save' = IF save = None THEN None ELSE [save EXCEPT !.orphan = TRUE]
    /\ UNCHANGED exposed

\* applyWorkspace.  A stale snapshot that opens the video again gives it a new
\* controller: it starts as one that has saved everything.
ApplyWorkspace(snapshot, preserve) ==
    \/ snapshot = None /\ Leave
    \/ /\ snapshot # None
       /\ copy' = snapshot
       /\ draft' = Kept(snapshot, preserve)
       /\ ctl' = IF copy # None THEN ctl
                 ELSE [ctl EXCEPT !.savedRevision = ctl.revision, !.status = "saved"]
       /\ exposed' = (exposed \/ Behind(snapshot) \/ (~preserve /\ draft # None))
       /\ UNCHANGED save

\* patchSegment puts the answered fragment into the server copy and into the draft.
PatchSegment(f, answer) ==
    /\ copy' = IF copy = None THEN None ELSE [copy EXCEPT !.frags = [copy.frags EXCEPT ![f] = answer]]
    /\ draft' = IF draft = None THEN None ELSE [draft EXCEPT !.frags = [draft.frags EXCEPT ![f] = answer]]
    /\ exposed' = (exposed \/ (copy # None /\ Shown.frags[f].value # answer.value))
    /\ UNCHANGED <<ctl, save>>

AnswerArrives ==
    /\ call # None /\ call.stage = "answered"
    /\ IF call.kind = "patch" THEN PatchSegment(call.frag, call.answer)
       ELSE ApplyWorkspace(call.answer, call.kind # "discard")
    /\ call' = None
    /\ UNCHANGED <<server, poll, latest, used>>

PollSent ==
    /\ poll = None /\ used.polls < MaxPolls
    /\ used' = [used EXCEPT !.polls = @ + 1]
    /\ poll' = [stage |-> "sent", doc |-> None]
    /\ UNCHANGED <<server, copy, draft, ctl, save, call, latest, exposed>>

\* WorkspaceService.snapshot reads the videos first and the fragments after.
PollReads ==
    /\ poll # None
    /\ \/ poll.stage = "sent" /\ poll' = [stage |-> "half", doc |-> Stored]
       \/ /\ poll.stage = "half"
          /\ poll' = [stage |-> "loaded",
                      doc |-> IF server.open THEN [poll.doc EXCEPT !.frags = server.frags]
                              ELSE None]
    /\ UNCHANGED <<server, copy, draft, ctl, save, call, latest, exposed, used>>

\* A cancelled controller's save is over before a stale snapshot reopens the video.
PollApplied ==
    /\ poll # None /\ poll.stage = "loaded"
    /\ copy = None /\ poll.doc # None => save = None
    /\ ApplyWorkspace(poll.doc, TRUE)
    /\ poll' = None
    /\ UNCHANGED <<server, call, latest, used>>

----------------------------------------------------------------------------
Next ==
    \/ TimerFires \/ SaveSucceeds \/ SaveFails
    \/ \E f \in Fragments : Edit(f) \/ \E kind \in Kinds : Request(kind, f)
    \/ FlushAgain \/ FlushEnds
    \/ ServerSaves \/ ServerRefuses
    \/ ServerSnapshots \/ ServerCloses \/ ServerPatches \/ CallFails \/ Inspect
    \/ AnswerArrives \/ PollSent \/ PollReads \/ PollApplied

\* The browser runs its timers and callbacks, and requests are answered or time out.
Fairness ==
    /\ WF_vars(TimerFires)
    /\ WF_vars(SaveSucceeds \/ SaveFails)
    /\ WF_vars(ServerSaves \/ ServerRefuses)
    /\ WF_vars(FlushAgain \/ FlushEnds)

Spec == Init /\ [][Next]_vars /\ Fairness

----------------------------------------------------------------------------
\* An edit of an open video is on its way to the server: unless the last save
\* failed, an unsaved revision has a timer or a save in flight, whatever flushes,
\* late answers and snapshots came between.
UnsavedIsScheduled ==
    copy # None /\ ctl.revision > ctl.savedRevision /\ ctl.status # "failed" =>
        ctl.timer \/ (save # None /\ ~save.orphan)

\* The editor shows the user's last edit of every fragment, through saves, their
\* failures, merges with snapshots and patches, until an answer exposes it: a
\* snapshot older than a save already answered, the deletion of another video,
\* or the patch of a fragment edited while the patch was on its way.
ViewShowsEdits ==
    copy # None /\ ~exposed =>
        \A f \in Fragments : Shown.frags[f].value = latest[f]

\* "Saved" is true: the server holds the last edit of every fragment.
SavedIsStored ==
    copy # None /\ ~exposed /\ ctl.status = "saved" =>
        \A f \in Fragments : server.frags[f].value = latest[f]

\* The state of saving is what it says: unsaved edits are on their way, saved ones arrived.
SaveStateIsTrue == UnsavedIsScheduled /\ SavedIsStored

\* Save and close: every edit made before the close was asked for is on the
\* server when the video closes there (the close itself carries no document).
ClosingKeepsEdits ==
    [][server.open /\ ~server'.open /\ ~exposed =>
         \A f \in Fragments :
            latest[f] <= call.target => server.frags[f].value = latest[f]]_vars

\* Saving ends: an unsaved video is saved, or its failure is shown, or it is closed.
SavingEnds ==
    ctl.status \in {"unsaved", "saving"} ~> (ctl.status \in {"saved", "failed"} \/ copy = None)
=============================================================================
