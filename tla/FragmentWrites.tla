---------------------------- MODULE FragmentWrites ----------------------------
(***************************************************************************)
(* One fragment in the fragments panel: its draft and its chain of writes   *)
(* (FragmentsPanel.svelte), the catalogue that refreshes and polls replace   *)
(* (FragmentLibrary), and the editor, which saves the same fragment.  A      *)
(* fragment has two fields; each holds the number of the edit that set it.   *)
(***************************************************************************)
EXTENDS Naturals, Sequences, FiniteSetsExt

CONSTANTS Gone,             \* deleted, not listed, no draft, no request
          MaxPanelEdits,    \* bound on edits, by the panel and by the editor
          MaxRefreshes,     \* bound on refreshes and preview polls
          MaxLosses         \* bound on failed requests

Fields == {"title", "tags"}

ASSUME GoneAssumption ==
    Gone \notin [Fields -> Nat] /\ Gone \notin [rev : Nat, fields : [Fields -> Nat]]

VARIABLES stored,      \* the server's row: [rev, fields], or Gone
          openSegment, \* the workspace's segment while the video is open, or Gone
          listed,      \* catalogue.fragments, or Gone
          fragmentDraft,       \* fragmentDrafts, or Gone
          writes,      \* the chain in fragmentWrites: the contents still to be written
          writing,     \* the head of the chain: "idle", "stored", "failed"
          request,     \* the current refresh: [stage, read]
          removing,    \* onDelete is under way
          edits,       \* [field -> number of its last edit]
          stale,       \* a snapshot or a second writer has come between an edit and its write
          panelError,  \* mutationError of the last write
          counts

panelVars == <<stored, openSegment, listed, fragmentDraft, writes, writing, request, removing,
               edits, stale, panelError, counts>>

NoRequest == [stage |-> "none", read |-> Gone]
NoEdits == [field \in Fields |-> 0]
LastEdit == Max({edits[field] : field \in Fields})

PanelInit ==
    /\ stored = [rev |-> 1, fields |-> NoEdits]
    /\ openSegment \in {Gone, stored}
    /\ listed = stored
    /\ fragmentDraft = Gone /\ writes = <<>> /\ writing = "idle"
    /\ request = NoRequest /\ removing = FALSE
    /\ edits = NoEdits
    /\ stale = FALSE /\ panelError = FALSE
    /\ counts = [refreshes |-> 0, losses |-> 0]

IsOpen == openSegment # Gone

\* Behind: what the panel shows is older than what the client knows elsewhere.
ListIsBehind == IsOpen /\ listed # Gone /\ listed.rev < openSegment.rev

----------------------------------------------------------------------------
MutBase == listed.fields

\* withDraft: the panel edits its own draft while writes are under way.
Base == IF fragmentDraft = Gone THEN listed.fields ELSE fragmentDraft

\* Every write carries all the fields of the base it was made from.
Mutate(field) ==
    /\ listed # Gone /\ ~ removing
    /\ LastEdit < MaxPanelEdits
    /\ edits' = [edits EXCEPT ![field] = LastEdit + 1]
    /\ fragmentDraft' = [Base EXCEPT ![field] = LastEdit + 1]
    /\ writes' = Append(writes, fragmentDraft')
    /\ stale' = (stale \/ (fragmentDraft = Gone /\ ListIsBehind))
    /\ panelError' = FALSE
    /\ UNCHANGED <<stored, openSegment, listed, writing, request, removing, counts>>

\* mutateFragment takes the revision from the open video, else from the catalogue.
ExpectedRevision == IF IsOpen THEN openSegment.rev ELSE IF listed = Gone THEN 0 ELSE listed.rev

MutAccepts == stored # Gone

Accepts == stored # Gone /\ stored.rev = ExpectedRevision

Lost == counts.losses < MaxLosses /\ counts' = [counts EXCEPT !.losses = @ + 1]

UpdateFragment ==
    /\ writes # <<>> /\ writing = "idle"
    /\ \/ /\ Accepts
          /\ stored' = [rev |-> stored.rev + 1, fields |-> Head(writes)]
          /\ \/ writing' = "stored" /\ UNCHANGED counts
             \/ writing' = "failed" /\ Lost
       \/ /\ writing' = "failed" /\ UNCHANGED stored
          /\ \/ ~ Accepts /\ UNCHANGED counts
             \/ Lost
    /\ UNCHANGED <<openSegment, listed, fragmentDraft, writes, request, removing, edits, stale, panelError>>

\* refresh() supersedes the one before it: requestRevision.
StartRefresh == request' = [stage |-> "sent", read |-> Gone]

MutDropDraft == FALSE

\* A draft lives as long as the last write of its fragment.
DropDraft == Len(writes) = 1

\* The answer is the row as written: patchSegment and replaceCatalogueSegment take
\* it, then comes the next write of the chain.
WriteSucceeds ==
    /\ writing = "stored"
    /\ openSegment' = IF IsOpen THEN stored ELSE Gone
    /\ listed' = IF listed = Gone THEN Gone ELSE stored
    /\ stale' = (stale \/ request.stage = "loaded")
    /\ writes' = Tail(writes) /\ writing' = "idle"
    /\ fragmentDraft' = IF DropDraft THEN Gone ELSE fragmentDraft
    /\ UNCHANGED <<stored, request, removing, edits, panelError, counts>>

\* Only the failure of the last write drops the draft and asks for a refresh.
WriteFails ==
    /\ writing = "failed"
    /\ writes' = Tail(writes) /\ writing' = "idle"
    /\ panelError' = TRUE
    /\ IF Len(writes) = 1
       THEN fragmentDraft' = Gone /\ StartRefresh
       ELSE UNCHANGED <<fragmentDraft, request>>
    /\ UNCHANGED <<stored, openSegment, listed, removing, edits, stale, counts>>

----------------------------------------------------------------------------
\* Opening the view, the Refresh button, and the poll while previews generate.
Refresh ==
    /\ counts.refreshes < MaxRefreshes
    /\ counts' = [counts EXCEPT !.refreshes = @ + 1]
    /\ StartRefresh
    /\ UNCHANGED <<stored, openSegment, listed, fragmentDraft, writes, writing, removing, edits, stale, panelError>>

\* loadFragments reads the server; its answer may come after later writes' answers.
LoadFragments ==
    /\ request.stage = "sent"
    /\ \/ request' = [stage |-> "loaded", read |-> stored] /\ UNCHANGED counts
       \/ request' = NoRequest /\ Lost
    /\ UNCHANGED <<stored, openSegment, listed, fragmentDraft, writes, writing, removing, edits, stale, panelError>>

\* It may also give a waiting write the revision of content it was not made from.
RefreshArrives ==
    /\ request.stage = "loaded"
    /\ listed' = request.read
    /\ request' = NoRequest
    /\ stale' = (stale \/ (fragmentDraft # Gone /\ writing # "stored" /\ listed # request.read))
    /\ UNCHANGED <<stored, openSegment, fragmentDraft, writes, writing, removing, edits, panelError, counts>>

\* The user goes to the editor, whose save changes a field, and comes back, which
\* refreshes; a panel write still in the chain was made from the older content.
EditorSaves(field) ==
    /\ IsOpen /\ stored # Gone /\ writing = "idle"
    /\ LastEdit < MaxPanelEdits
    /\ edits' = [edits EXCEPT ![field] = LastEdit + 1]
    /\ stored' = [rev |-> stored.rev + 1, fields |-> [stored.fields EXCEPT ![field] = LastEdit + 1]]
    /\ openSegment' = stored'
    /\ stale' = (stale \/ fragmentDraft # Gone)
    /\ StartRefresh
    /\ UNCHANGED <<listed, fragmentDraft, writes, writing, removing, panelError, counts>>

DeleteListed ==
    /\ listed # Gone /\ ~ removing
    /\ removing' = TRUE
    /\ UNCHANGED <<stored, openSegment, listed, fragmentDraft, writes, writing, request, edits, stale, panelError, counts>>

\* The deletion and its answer: the catalogue and the open video lose the fragment.
Removed ==
    /\ removing
    /\ removing' = FALSE
    /\ IF Accepts /\ writing = "idle"
       THEN /\ stored' = Gone /\ openSegment' = Gone /\ listed' = Gone
            /\ stale' = (stale \/ request.stage = "loaded")
            /\ UNCHANGED <<panelError, request>>
       ELSE /\ panelError' = TRUE /\ StartRefresh
            /\ UNCHANGED <<stored, openSegment, listed, stale>>
    /\ UNCHANGED <<fragmentDraft, writes, writing, edits, counts>>

PanelNext ==
    \/ \E field \in Fields : Mutate(field) \/ EditorSaves(field)
    \/ UpdateFragment \/ WriteSucceeds \/ WriteFails
    \/ Refresh \/ LoadFragments \/ RefreshArrives
    \/ DeleteListed \/ Removed

\* Requests are answered or time out, and their continuations run.
PanelFairness ==
    /\ WF_panelVars(UpdateFragment) /\ WF_panelVars(WriteSucceeds \/ WriteFails)
    /\ WF_panelVars(LoadFragments) /\ WF_panelVars(RefreshArrives)

PanelSpec == PanelInit /\ [][PanelNext]_panelVars /\ PanelFairness

----------------------------------------------------------------------------
\* No write takes a field back to an older edit, though every write carries all the
\* fields and fragments are edited in two places: the expected revision catches it,
\* unless the panel's base was behind the open video that the revision is taken from.
NoEditIsReverted ==
    [][~ stale /\ stored # Gone /\ stored' # Gone =>
         \A field \in Fields : stored'.fields[field] >= stored.fields[field]]_panelVars

\* When the panel is quiet and reports no error, the server holds the last edit of
\* every field and the catalogue shows it.
QuietPanelIsTrue ==
    writes = <<>> /\ request = NoRequest /\ ~ stale /\ ~ panelError /\ ~ removing /\ counts.losses = 0 =>
        /\ listed = stored
        /\ stored # Gone => stored.fields = edits

\* A draft does not outlive its writes.
DraftsSettle == (fragmentDraft # Gone) ~> (fragmentDraft = Gone)
=============================================================================
