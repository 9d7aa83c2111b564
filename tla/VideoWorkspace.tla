---------------------------- MODULE VideoWorkspace ----------------------------
(***************************************************************************)
(* The workspace tables: which videos are open, in which order, and which is *)
(* active.  Opening, and closing by a deletion, run in a transaction; closing *)
(* and activating are separate statements.  Calls overlap statement by        *)
(* statement, as READ COMMITTED lets them.                                    *)
(***************************************************************************)
EXTENDS Integers, FiniteSets

CONSTANTS Shelf,      \* videos
          Clients,    \* calls that may overlap
          NoVideo,
          MaxPosition \* bound on the positions given

ASSUME MaxPositionAssumption == MaxPosition \in Nat

VARIABLES live,       \* the videos that are neither deleting nor gone
          position,   \* workspace_videos: the position of each, -1 if closed
          active,     \* workspace_state.active_video_id
          call,       \* [kind, video, at, next, then]: next and then are what it read
          crossed     \* a close, or a check, was overtaken by another call

workspaceVars == <<live, position, active, call, crossed>>

NoCall == [kind |-> "none", video |-> NoVideo, at |-> "none", next |-> -1, then |-> NoVideo]

WorkspaceInit ==
    /\ live = Shelf
    /\ position = [v \in Shelf |-> -1] /\ active = NoVideo
    /\ call = [c \in Clients |-> NoCall] /\ crossed = FALSE

OpenVideos == {v \in Shelf : position[v] >= 0}
LastPosition(videos) == CHOOSE n \in {position[v] : v \in videos} \cup {-1} :
                           \A v \in videos : position[v] <= n
NextPosition == LastPosition(OpenVideos) + 1

\* close() activates the open video with the highest position, whichever was active.
Remaining(v) ==
    LET others == OpenVideos \ {v}
    IN  IF others = {} THEN NoVideo
        ELSE CHOOSE u \in others : position[u] = LastPosition(others)

Calls(c, kind, at) == call[c].kind = kind /\ call[c].at = at
NotCalling(c) == call[c].kind = "none"
Over(c) == call' = [call EXCEPT ![c] = NoCall]
Others(c) == {d \in Clients \ {c} : ~ NotCalling(d)}

\* What is written while another call stands between its read and its write.
Crosses(c, kinds) == crossed' = (crossed \/ \E d \in Others(c) : call[d].kind \in kinds)

Call(c, kind, v, next, then) ==
    call' = [call EXCEPT ![c] = [kind |-> kind, video |-> v, at |-> "read", next |-> next, then |-> then]]

----------------------------------------------------------------------------
\* open: the video is found, its row is missing and the next position is read ...
OpenReads(c, v) ==
    /\ NotCalling(c) /\ v \in live /\ NextPosition <= MaxPosition
    /\ Call(c, "open", v, IF v \in OpenVideos THEN -1 ELSE NextPosition, NoVideo)
    /\ UNCHANGED <<live, position, active, crossed>>

\* A row or a position that another call took meanwhile fails the transaction, and so
\* does a row that was there and is not any more.
Clashes(c) ==
    IF call[c].next = -1 THEN call[c].video \notin OpenVideos
    ELSE call[c].video \in OpenVideos \/ \E v \in OpenVideos : position[v] = call[c].next

MutOpenCommits(c) ==
    /\ Calls(c, "open", "read")
    /\ IF Clashes(c) THEN UNCHANGED <<position, active, crossed>>
       ELSE /\ position' = IF call[c].next = -1 THEN position ELSE [position EXCEPT ![call[c].video] = call[c].next]
            /\ UNCHANGED active
            /\ Crosses(c, {"close", "delete"})
    /\ Over(c) /\ UNCHANGED live

\* ... and the row, the editor's state and the active video are written together.
OpenCommits(c) ==
    /\ Calls(c, "open", "read")
    /\ IF Clashes(c) THEN UNCHANGED <<position, active, crossed>>
       ELSE /\ position' = IF call[c].next = -1 THEN position ELSE [position EXCEPT ![call[c].video] = call[c].next]
            /\ active' = call[c].video
            /\ Crosses(c, {"close", "delete"})
    /\ Over(c) /\ UNCHANGED live

ActivateChecks(c, v) ==
    /\ NotCalling(c) /\ v \in OpenVideos
    /\ Call(c, "activate", v, -1, NoVideo)
    /\ UNCHANGED <<live, position, active, crossed>>

Activate(c) ==
    /\ Calls(c, "activate", "read")
    /\ active' = call[c].video
    /\ Crosses(c, {"close", "delete"})
    /\ Over(c) /\ UNCHANGED <<live, position>>

\* close: the row, then what remains, then the active video, each on its own.
CloseRow(c, v) ==
    /\ NotCalling(c) /\ v \in Shelf
    /\ position' = [position EXCEPT ![v] = -1]
    /\ Call(c, "close", v, -1, NoVideo)
    /\ Crosses(c, {"open", "activate", "close", "delete"})
    /\ UNCHANGED <<live, active>>

CloseReads(c) ==
    /\ Calls(c, "close", "read")
    /\ call' = [call EXCEPT ![c].at = "write", ![c].then = Remaining(call[c].video)]
    /\ UNCHANGED <<live, position, active, crossed>>

CloseWrites(c) ==
    /\ Calls(c, "close", "write")
    /\ active' = call[c].then
    /\ Crosses(c, {"close", "delete"})
    /\ Over(c) /\ UNCHANGED <<live, position>>

\* The deletion of a video closes it in its own transaction, under the video's lock.
DeleteReads(c, v) ==
    /\ NotCalling(c) /\ v \in live
    /\ \A d \in Others(c) : ~ (call[d].kind = "delete" /\ call[d].video = v)
    /\ Call(c, "delete", v, -1, Remaining(v))
    /\ UNCHANGED <<live, position, active, crossed>>

DeleteCommits(c) ==
    /\ Calls(c, "delete", "read")
    /\ live' = live \ {call[c].video}
    /\ position' = [position EXCEPT ![call[c].video] = -1]
    /\ active' = call[c].then
    /\ Crosses(c, {"open", "activate", "close", "delete"})
    /\ Over(c)

WorkspaceNext ==
    \E c \in Clients :
        \/ OpenCommits(c) \/ Activate(c) \/ CloseReads(c) \/ CloseWrites(c) \/ DeleteCommits(c)
        \/ \E v \in Shelf : OpenReads(c, v) \/ ActivateChecks(c, v) \/ CloseRow(c, v) \/ DeleteReads(c, v)

WorkspaceSpec == WorkspaceInit /\ [][WorkspaceNext]_workspaceVars

----------------------------------------------------------------------------
\* When no call is under way the active video is an open one, there is one whenever
\* any is open, and no two share a position: however opens and activations overlap, and
\* as long as no close or deletion overlapped another call's write.  When one did, the
\* active video may be a closed one, and the workspace answers with none.
ActiveIsOpen ==
    (\A c \in Clients : NotCalling(c)) =>
        /\ \A u, v \in OpenVideos : position[u] = position[v] => u = v
        /\ ~ crossed => IF OpenVideos = {} THEN active = NoVideo ELSE active \in OpenVideos
=============================================================================
