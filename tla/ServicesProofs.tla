----------------------------- MODULE ServicesProofs -----------------------------
(***************************************************************************)
(* Proofs about the services that run beside the catalog: the workspace,    *)
(* the sprite sets, the thumbnails, the previews and the replay of events,  *)
(* and about the sweep over the spans of fragments and segments.            *)
(***************************************************************************)
EXTENDS VideoWorkspace, ThumbnailSwap, VideoThumbnails, FragmentPreviews, EventReplay,
        FragmentTiming, TimelineEdits,
        FiniteSetTheorems, SequenceTheorems, WellFoundedInduction, TLAPS

----------------------------------------------------------------------------
(* The workspace, for any videos and any number of calls.                  *)

WorkspaceCall == [kind : {"none", "open", "activate", "close", "delete"},
                  video : Shelf \cup {NoVideo}, at : {"none", "read", "write"},
                  next : -1..MaxPosition, then : Shelf \cup {NoVideo}]

WorkspaceTypeOK ==
    /\ live \subseteq Shelf
    /\ position \in [Shelf -> -1..MaxPosition]
    /\ active \in Shelf \cup {NoVideo}
    /\ call \in [Clients -> WorkspaceCall]
    /\ crossed \in BOOLEAN

PositionsDiffer == \A u, v \in OpenVideos : position[u] = position[v] => u = v

\* The active video of a workspace in which `videos` are open.
Fits(which, videos) == IF videos = {} THEN which = NoVideo ELSE which \in videos

\* What a call has read is still so when it writes.
CallHolds(c) ==
    /\ call[c].kind # "none" => call[c].video \in Shelf
    /\ call[c].kind = "activate" /\ ~ crossed => call[c].video \in OpenVideos
    /\ call[c].kind = "close" /\ ~ crossed =>
         /\ call[c].video \notin OpenVideos
         /\ call[c].at = "write" => Fits(call[c].then, OpenVideos)
         /\ \A d \in Clients : call[d].kind = "close" => d = c
    /\ call[c].kind = "delete" /\ ~ crossed => Fits(call[c].then, OpenVideos \ {call[c].video})

\* Between the statements of a close the active video may be the closed one.
ActiveHolds ==
    ~ crossed /\ (\A c \in Clients : call[c].kind # "close") => Fits(active, OpenVideos)

WorkspaceInv ==
    /\ WorkspaceTypeOK
    /\ PositionsDiffer
    /\ \A c \in Clients : CallHolds(c)
    /\ ActiveHolds

LEMMA HighestExists ==
    ASSUME position \in [Shelf -> -1..MaxPosition], NEW videos \in SUBSET Shelf
    PROVE  /\ LastPosition(videos) \in {position[v] : v \in videos} \cup {-1}
           /\ \A v \in videos : position[v] <= LastPosition(videos)
  <1> DEFINE S == {position[v] : v \in videos} \cup {-1}
             T == {MaxPosition - n : n \in S}
  <1>1. MaxPosition \in Nat /\ S \subseteq -1..MaxPosition
    BY MaxPositionAssumption
  <1>2. T \subseteq Nat
    BY <1>1
  <1>3. T # {}
    OBVIOUS
  <1> HIDE DEF T
  <1>4. PICK x \in T : \A y \in T : ~ (<<y, x>> \in OpToRel(<, Nat))
    BY <1>2, <1>3, WFMin, NatLessThanWellFounded
  <1>5. \A y \in T : ~ (y < x)
    BY <1>2, <1>4 DEF OpToRel
  <1>6. PICK n \in S : x = MaxPosition - n
    BY <1>4 DEF T
  <1>7. \A m \in S : MaxPosition - m \in T
    BY DEF T
  <1>8. \A m \in S : m <= n
    BY <1>1, <1>5, <1>6, <1>7
  <1> QED
    BY <1>8 DEF LastPosition

LEMMA RemainingFits ==
    ASSUME position \in [Shelf -> -1..MaxPosition], NEW v \in Shelf
    PROVE  Remaining(v) \in Shelf \cup {NoVideo} /\ Fits(Remaining(v), OpenVideos \ {v})
  <1> DEFINE others == OpenVideos \ {v}
  <1>1. CASE others = {}
    BY <1>1 DEF Remaining, Fits
  <1>2. CASE others # {}
    <2>1. others \subseteq Shelf /\ \A u \in others : position[u] >= 0
      BY DEF OpenVideos
    <2>2. /\ LastPosition(others) \in {position[u] : u \in others} \cup {-1}
          /\ \A u \in others : position[u] <= LastPosition(others)
      BY <2>1, HighestExists
    <2>3. LastPosition(others) # -1
      BY <1>2, <2>1, <2>2
    <2>4. \E u \in others : position[u] = LastPosition(others)
      BY <2>2, <2>3
    <2>5. Remaining(v) = CHOOSE u \in others : position[u] = LastPosition(others)
      BY <1>2 DEF Remaining
    <2>6. Remaining(v) \in others
      BY <2>4, <2>5
    <2> QED
      BY <1>2, <2>1, <2>6 DEF Fits
  <1> QED
    BY <1>1, <1>2

LEMMA WorkspaceInitial == WorkspaceInit => WorkspaceInv
  <1> SUFFICES ASSUME WorkspaceInit PROVE WorkspaceInv
    OBVIOUS
  <1> USE DEF WorkspaceInit
  <1>1. NoCall \in WorkspaceCall
    BY MaxPositionAssumption DEF NoCall, WorkspaceCall
  <1>2. WorkspaceTypeOK
    <2>1. -1 \in -1..MaxPosition
      BY MaxPositionAssumption
    <2>2. position \in [Shelf -> -1..MaxPosition]
      BY <2>1
    <2>3. call \in [Clients -> WorkspaceCall]
      BY <1>1
    <2> QED
      BY <2>2, <2>3 DEF WorkspaceTypeOK
  <1>3. OpenVideos = {}
    BY DEF OpenVideos
  <1>4. \A c \in Clients : call[c].kind = "none"
    BY DEF NoCall
  <1>5. \A c \in Clients : CallHolds(c)
    BY <1>4 DEF CallHolds
  <1>6. PositionsDiffer /\ ActiveHolds
    BY <1>3 DEF PositionsDiffer, ActiveHolds, Fits
  <1> QED
    BY <1>2, <1>5, <1>6 DEF WorkspaceInv

\* A call that ends leaves NoCall, and every other call as it was.
LEMMA CallEnds ==
    ASSUME WorkspaceTypeOK, NEW c \in Clients, Over(c)
    PROVE  /\ call' \in [Clients -> WorkspaceCall]
           /\ call'[c].kind = "none"
           /\ \A d \in Clients \ {c} : call'[d] = call[d]
  <1>1. NoCall \in WorkspaceCall /\ NoCall.kind = "none"
    BY MaxPositionAssumption DEF NoCall, WorkspaceCall
  <1> QED
    BY <1>1 DEF WorkspaceTypeOK, Over

\* A call that begins stands with what it has read, and every other call as it was.
LEMMA CallBegins ==
    ASSUME WorkspaceTypeOK, NEW c \in Clients, NEW v \in Shelf,
           NEW kind \in {"open", "activate", "close", "delete"},
           NEW next \in -1..MaxPosition, NEW then \in Shelf \cup {NoVideo},
           Call(c, kind, v, next, then)
    PROVE  /\ call' \in [Clients -> WorkspaceCall]
           /\ call'[c].kind = kind /\ call'[c].video = v /\ call'[c].at = "read"
           /\ call'[c].next = next /\ call'[c].then = then
           /\ \A d \in Clients \ {c} : call'[d] = call[d]
  <1> DEFINE r == [kind |-> kind, video |-> v, at |-> "read", next |-> next, then |-> then]
  <1>1. /\ r \in WorkspaceCall
        /\ r.kind = kind /\ r.video = v /\ r.at = "read" /\ r.next = next /\ r.then = then
    BY DEF WorkspaceCall
  <1>2. call' = [call EXCEPT ![c] = r]
    BY DEF Call
  <1> HIDE DEF r
  <1>3. call \in [Clients -> WorkspaceCall]
    BY DEF WorkspaceTypeOK
  <1>4. call' \in [Clients -> WorkspaceCall] /\ call'[c] = r
    BY <1>1, <1>2, <1>3
  <1>5. \A d \in Clients \ {c} : call'[d] = call[d]
    BY <1>2, <1>3
  <1> QED
    BY <1>1, <1>4, <1>5

\* A write that nothing crossed met no other call of these kinds.
LEMMA Uncrossed ==
    ASSUME WorkspaceTypeOK, NEW c \in Clients, NEW kinds,
           "none" \notin kinds, Crosses(c, kinds)
    PROVE  /\ crossed' \in BOOLEAN
           /\ ~ crossed' => ~ crossed /\ \A d \in Clients \ {c} : call[d].kind \notin kinds
  <1>1. \A d \in Clients \ {c} : call[d].kind \in kinds => d \in Others(c)
    BY DEF Others, NotCalling
  <1> QED
    BY <1>1 DEF Crosses, WorkspaceTypeOK

LEMMA OpenReadsKeeps ==
    ASSUME WorkspaceInv, NEW c \in Clients, NEW v \in Shelf, OpenReads(c, v)
    PROVE  WorkspaceInv'
  <1>0. WorkspaceTypeOK
    BY DEF WorkspaceInv
  <1> DEFINE next == IF v \in OpenVideos THEN -1 ELSE NextPosition
  <1>1. next \in -1..MaxPosition
    <2>1. position \in [Shelf -> -1..MaxPosition]
      BY <1>0 DEF WorkspaceTypeOK
    <2>2. OpenVideos \in SUBSET Shelf
      BY DEF OpenVideos
    <2>3. LastPosition(OpenVideos) \in {position[u] : u \in OpenVideos} \cup {-1}
      BY <2>1, <2>2, HighestExists
    <2>4. LastPosition(OpenVideos) \in -1..MaxPosition
      BY <2>1, <2>2, <2>3, MaxPositionAssumption
    <2>5. NextPosition <= MaxPosition
      BY DEF OpenReads
    <2> QED
      BY <2>4, <2>5, MaxPositionAssumption DEF NextPosition
  <1>2. Call(c, "open", v, next, NoVideo) /\ UNCHANGED <<live, position, active, crossed>>
    BY DEF OpenReads
  <1> HIDE DEF next
  <1>3. /\ call' \in [Clients -> WorkspaceCall]
        /\ call'[c].kind = "open" /\ call'[c].video = v
        /\ \A d \in Clients \ {c} : call'[d] = call[d]
    BY <1>0, <1>1, <1>2, CallBegins
  <1>4. WorkspaceTypeOK'
    BY <1>0, <1>2, <1>3 DEF WorkspaceTypeOK
  <1>5. OpenVideos' = OpenVideos
    BY <1>2 DEF OpenVideos
  <1>6. PositionsDiffer'
    BY <1>2, <1>5 DEF PositionsDiffer, WorkspaceInv
  <1>7. ASSUME NEW d \in Clients PROVE CallHolds(d)'
    <2>1. CASE d = c
      BY <1>3, <2>1 DEF CallHolds
    <2>2. CASE d # c
      <3>1. call'[d] = call[d] /\ CallHolds(d)
        BY <1>3, <2>2 DEF WorkspaceInv
      <3>2. \A e \in Clients : call'[e].kind = "close" => call[e].kind = "close"
        BY <1>3
      <3> QED
        BY <1>2, <1>5, <3>1, <3>2 DEF CallHolds
    <2> QED
      BY <2>1, <2>2
  <1>8. ActiveHolds'
    <2>1. call[c].kind = "none"
      BY DEF OpenReads, NotCalling
    <2>2. \A d \in Clients : call[d].kind = "close" => call'[d].kind = "close"
      BY <1>3, <2>1
    <2> QED
      BY <1>2, <1>5, <2>2 DEF ActiveHolds, WorkspaceInv
  <1> QED
    BY <1>4, <1>6, <1>7, <1>8 DEF WorkspaceInv

LEMMA ActivateChecksKeeps ==
    ASSUME WorkspaceInv, NEW c \in Clients, NEW v \in Shelf, ActivateChecks(c, v)
    PROVE  WorkspaceInv'
  <1>0. WorkspaceTypeOK
    BY DEF WorkspaceInv
  <1>1. Call(c, "activate", v, -1, NoVideo) /\ UNCHANGED <<live, position, active, crossed>>
    BY DEF ActivateChecks
  <1>2. /\ call' \in [Clients -> WorkspaceCall]
        /\ call'[c].kind = "activate" /\ call'[c].video = v
        /\ \A d \in Clients \ {c} : call'[d] = call[d]
    BY <1>0, <1>1, CallBegins, MaxPositionAssumption
  <1>3. WorkspaceTypeOK'
    BY <1>0, <1>1, <1>2 DEF WorkspaceTypeOK
  <1>4. OpenVideos' = OpenVideos
    BY <1>1 DEF OpenVideos
  <1>5. PositionsDiffer'
    BY <1>1, <1>4 DEF PositionsDiffer, WorkspaceInv
  <1>6. ASSUME NEW d \in Clients PROVE CallHolds(d)'
    <2>1. CASE d = c
      <3>1. v \in OpenVideos'
        BY <1>4 DEF ActivateChecks
      <3> QED
        BY <1>2, <2>1, <3>1 DEF CallHolds
    <2>2. CASE d # c
      <3>1. call'[d] = call[d] /\ CallHolds(d)
        BY <1>2, <2>2 DEF WorkspaceInv
      <3>2. \A e \in Clients : call'[e].kind = "close" => call[e].kind = "close"
        BY <1>2
      <3> QED
        BY <1>1, <1>4, <3>1, <3>2 DEF CallHolds
    <2> QED
      BY <2>1, <2>2
  <1>7. ActiveHolds'
    <2>1. call[c].kind = "none"
      BY DEF ActivateChecks, NotCalling
    <2>2. \A d \in Clients : call[d].kind = "close" => call'[d].kind = "close"
      BY <1>2, <2>1
    <2> QED
      BY <1>1, <1>4, <2>2 DEF ActiveHolds, WorkspaceInv
  <1> QED
    BY <1>3, <1>5, <1>6, <1>7 DEF WorkspaceInv

LEMMA DeleteReadsKeeps ==
    ASSUME WorkspaceInv, NEW c \in Clients, NEW v \in Shelf, DeleteReads(c, v)
    PROVE  WorkspaceInv'
  <1>0. WorkspaceTypeOK
    BY DEF WorkspaceInv
  <1>1. Call(c, "delete", v, -1, Remaining(v)) /\ UNCHANGED <<live, position, active, crossed>>
    BY DEF DeleteReads
  <1>2. Remaining(v) \in Shelf \cup {NoVideo} /\ Fits(Remaining(v), OpenVideos \ {v})
    BY <1>0, RemainingFits DEF WorkspaceTypeOK
  <1>3. /\ call' \in [Clients -> WorkspaceCall]
        /\ call'[c].kind = "delete" /\ call'[c].video = v /\ call'[c].then = Remaining(v)
        /\ \A d \in Clients \ {c} : call'[d] = call[d]
    BY <1>0, <1>1, <1>2, CallBegins, MaxPositionAssumption
  <1>4. WorkspaceTypeOK'
    BY <1>0, <1>1, <1>3 DEF WorkspaceTypeOK
  <1>5. OpenVideos' = OpenVideos
    BY <1>1 DEF OpenVideos
  <1>6. PositionsDiffer'
    BY <1>1, <1>5 DEF PositionsDiffer, WorkspaceInv
  <1>7. ASSUME NEW d \in Clients PROVE CallHolds(d)'
    <2>1. CASE d = c
      <3>1. Fits(call'[c].then, OpenVideos' \ {call'[c].video})
        BY <1>2, <1>3, <1>5
      <3>2. Fits(call[c].then, OpenVideos \ {call[c].video})'
        BY <3>1 DEF Fits
      <3> QED
        BY <1>3, <2>1, <3>2 DEF CallHolds
    <2>2. CASE d # c
      <3>1. call'[d] = call[d] /\ CallHolds(d)
        BY <1>3, <2>2 DEF WorkspaceInv
      <3>2. \A e \in Clients : call'[e].kind = "close" => call[e].kind = "close"
        BY <1>3
      <3> QED
        BY <1>1, <1>5, <3>1, <3>2 DEF CallHolds
    <2> QED
      BY <2>1, <2>2
  <1>8. ActiveHolds'
    <2>1. call[c].kind = "none"
      BY DEF DeleteReads, NotCalling
    <2>2. \A d \in Clients : call[d].kind = "close" => call'[d].kind = "close"
      BY <1>3, <2>1
    <2> QED
      BY <1>1, <1>5, <2>2 DEF ActiveHolds, WorkspaceInv
  <1> QED
    BY <1>4, <1>6, <1>7, <1>8 DEF WorkspaceInv

\* What OpenCommits does when it does not clash.
LEMMA OpenFits ==
    ASSUME WorkspaceInv, NEW c \in Clients, Calls(c, "open", "read"), ~ Clashes(c),
           position' = IF call[c].next = -1 THEN position
                       ELSE [position EXCEPT ![call[c].video] = call[c].next]
    PROVE  /\ position' \in [Shelf -> -1..MaxPosition]
           /\ OpenVideos' = OpenVideos \cup {call[c].video}
           /\ PositionsDiffer'
  <1> DEFINE v == call[c].video  n == call[c].next
  <1>1. /\ v \in Shelf /\ n \in -1..MaxPosition
        /\ position \in [Shelf -> -1..MaxPosition]
        /\ PositionsDiffer
    BY DEF WorkspaceInv, CallHolds, Calls, WorkspaceTypeOK, WorkspaceCall
  <1>2. OpenVideos = {u \in Shelf : position[u] >= 0} /\ OpenVideos' = {u \in Shelf : position'[u] >= 0}
    BY DEF OpenVideos
  <1>3. IF n = -1 THEN v \in OpenVideos ELSE v \notin OpenVideos /\ \A u \in OpenVideos : position[u] # n
    BY DEF Clashes
  <1>4. position' = IF n = -1 THEN position ELSE [position EXCEPT ![v] = n]
    OBVIOUS
  <1> HIDE DEF v, n
  <1>5. CASE n = -1
    <2>1. position' = position /\ OpenVideos' = OpenVideos
      BY <1>2, <1>4, <1>5
    <2> QED
      BY <1>1, <1>3, <1>5, <2>1 DEF PositionsDiffer, v
  <1>6. CASE n # -1
    <2>1. n >= 0
      BY <1>1, <1>6, MaxPositionAssumption
    <2>2. /\ position' \in [Shelf -> -1..MaxPosition]
          /\ position'[v] = n /\ \A u \in Shelf \ {v} : position'[u] = position[u]
      BY <1>1, <1>4, <1>6
    <2>3. OpenVideos' = OpenVideos \cup {v}
      BY <1>1, <1>2, <2>1, <2>2
    <2>4. \A u, w \in OpenVideos \cup {v} : position'[u] = position'[w] => u = w
      <3>1. \A u \in OpenVideos : u \in Shelf \ {v} /\ position'[u] = position[u] /\ position[u] # n
        BY <1>2, <1>3, <1>6, <2>2
      <3>2. \A u, w \in OpenVideos : position[u] = position[w] => u = w
        BY <1>1 DEF PositionsDiffer
      <3> QED
        BY <2>2, <3>1, <3>2
    <2>5. PositionsDiffer'
      BY <2>3, <2>4 DEF PositionsDiffer
    <2> QED
      BY <2>2, <2>3, <2>5 DEF v
  <1> QED
    BY <1>5, <1>6

LEMMA OpenCommitsKeeps ==
    ASSUME WorkspaceInv, NEW c \in Clients, OpenCommits(c)
    PROVE  WorkspaceInv'
  <1>0. WorkspaceTypeOK
    BY DEF WorkspaceInv
  <1>1. Calls(c, "open", "read") /\ Over(c) /\ UNCHANGED live
    BY DEF OpenCommits
  <1>2. /\ call' \in [Clients -> WorkspaceCall]
        /\ call'[c].kind = "none"
        /\ \A d \in Clients \ {c} : call'[d] = call[d]
    BY <1>0, <1>1, CallEnds
  <1>3. call[c].video \in Shelf /\ call[c].kind = "open"
    BY <1>1 DEF WorkspaceInv, CallHolds, Calls
  <1>4. CASE Clashes(c)
    <2>1. UNCHANGED <<position, active, crossed>>
      BY <1>4 DEF OpenCommits
    <2>2. WorkspaceTypeOK'
      BY <1>0, <1>1, <1>2, <2>1 DEF WorkspaceTypeOK
    <2>3. OpenVideos' = OpenVideos
      BY <2>1 DEF OpenVideos
    <2>4. PositionsDiffer'
      BY <2>1, <2>3 DEF PositionsDiffer, WorkspaceInv
    <2>5. \A d \in Clients : call'[d].kind = "close" <=> call[d].kind = "close"
      BY <1>2, <1>3
    <2>6. ASSUME NEW d \in Clients PROVE CallHolds(d)'
      <3>1. CASE d = c
        BY <1>2, <3>1 DEF CallHolds
      <3>2. CASE d # c
        <4>1. call'[d] = call[d] /\ CallHolds(d)
          BY <1>2, <3>2 DEF WorkspaceInv
        <4> QED
          BY <2>1, <2>3, <2>5, <4>1 DEF CallHolds
      <3> QED
        BY <3>1, <3>2
    <2>7. ActiveHolds'
      BY <2>1, <2>3, <2>5 DEF ActiveHolds, WorkspaceInv
    <2> QED
      BY <2>2, <2>4, <2>6, <2>7 DEF WorkspaceInv
  <1>5. CASE ~ Clashes(c)
    <2>1. /\ position' = IF call[c].next = -1 THEN position
                         ELSE [position EXCEPT ![call[c].video] = call[c].next]
          /\ active' = call[c].video
          /\ Crosses(c, {"close", "delete"})
      BY <1>5 DEF OpenCommits
    <2>2. /\ position' \in [Shelf -> -1..MaxPosition]
          /\ OpenVideos' = OpenVideos \cup {call[c].video}
          /\ PositionsDiffer'
      BY <1>1, <1>5, <2>1, OpenFits
    <2>3. /\ crossed' \in BOOLEAN
          /\ ~ crossed' => /\ ~ crossed
                           /\ \A d \in Clients \ {c} : call[d].kind \notin {"close", "delete"}
      BY <1>0, <2>1, Uncrossed
    <2>4. WorkspaceTypeOK'
      BY <1>0, <1>1, <1>2, <1>3, <2>1, <2>2, <2>3 DEF WorkspaceTypeOK
    <2>5. ASSUME NEW d \in Clients PROVE CallHolds(d)'
      <3>1. CASE d = c
        BY <1>2, <3>1 DEF CallHolds
      <3>2. CASE d # c
        <4>1. call'[d] = call[d] /\ CallHolds(d)
          BY <1>2, <3>2 DEF WorkspaceInv
        <4> QED
          BY <2>2, <2>3, <3>2, <4>1 DEF CallHolds
      <3> QED
        BY <3>1, <3>2
    <2>6. ActiveHolds'
      BY <2>1, <2>2 DEF ActiveHolds, Fits
    <2> QED
      BY <2>2, <2>4, <2>5, <2>6 DEF WorkspaceInv
  <1> QED
    BY <1>4, <1>5

LEMMA ActivateKeeps ==
    ASSUME WorkspaceInv, NEW c \in Clients, Activate(c)
    PROVE  WorkspaceInv'
  <1>0. WorkspaceTypeOK
    BY DEF WorkspaceInv
  <1>1. /\ Calls(c, "activate", "read") /\ Over(c) /\ UNCHANGED <<live, position>>
        /\ active' = call[c].video /\ Crosses(c, {"close", "delete"})
    BY DEF Activate
  <1>2. /\ call' \in [Clients -> WorkspaceCall]
        /\ call'[c].kind = "none"
        /\ \A d \in Clients \ {c} : call'[d] = call[d]
    BY <1>0, <1>1, CallEnds
  <1>3. call[c].video \in Shelf /\ (~ crossed => call[c].video \in OpenVideos)
    BY <1>1 DEF WorkspaceInv, CallHolds, Calls
  <1>4. /\ crossed' \in BOOLEAN
        /\ ~ crossed' => /\ ~ crossed
                         /\ \A d \in Clients \ {c} : call[d].kind \notin {"close", "delete"}
    BY <1>0, <1>1, Uncrossed
  <1>5. WorkspaceTypeOK'
    BY <1>0, <1>1, <1>2, <1>3, <1>4 DEF WorkspaceTypeOK
  <1>6. OpenVideos' = OpenVideos
    BY <1>1 DEF OpenVideos
  <1>7. PositionsDiffer'
    BY <1>1, <1>6 DEF PositionsDiffer, WorkspaceInv
  <1>8. ASSUME NEW d \in Clients PROVE CallHolds(d)'
    <2>1. CASE d = c
      BY <1>2, <2>1 DEF CallHolds
    <2>2. CASE d # c
      <3>1. call'[d] = call[d] /\ CallHolds(d)
        BY <1>2, <2>2 DEF WorkspaceInv
      <3> QED
        BY <1>4, <1>6, <2>2, <3>1 DEF CallHolds
    <2> QED
      BY <2>1, <2>2
  <1>9. ActiveHolds'
    BY <1>1, <1>3, <1>4, <1>6 DEF ActiveHolds, Fits
  <1> QED
    BY <1>5, <1>7, <1>8, <1>9 DEF WorkspaceInv

\* A row that is removed leaves the others open, each at its own position.
LEMMA RowRemoved ==
    ASSUME WorkspaceInv, NEW v \in Shelf, position' = [position EXCEPT ![v] = -1]
    PROVE  /\ position' \in [Shelf -> -1..MaxPosition]
           /\ OpenVideos' = OpenVideos \ {v}
           /\ PositionsDiffer'
  <1>1. position \in [Shelf -> -1..MaxPosition] /\ PositionsDiffer
    BY DEF WorkspaceInv, WorkspaceTypeOK
  <1>2. /\ position' \in [Shelf -> -1..MaxPosition]
        /\ position'[v] = -1 /\ \A u \in Shelf \ {v} : position'[u] = position[u]
    BY <1>1, MaxPositionAssumption
  <1>3. OpenVideos' = OpenVideos \ {v}
    BY <1>1, <1>2, MaxPositionAssumption DEF OpenVideos
  <1>4. \A u \in OpenVideos \ {v} : position'[u] = position[u]
    BY <1>2 DEF OpenVideos
  <1>5. PositionsDiffer'
    BY <1>1, <1>3, <1>4 DEF PositionsDiffer
  <1> QED
    BY <1>2, <1>3, <1>5

LEMMA CloseRowKeeps ==
    ASSUME WorkspaceInv, NEW c \in Clients, NEW v \in Shelf, CloseRow(c, v)
    PROVE  WorkspaceInv'
  <1>0. WorkspaceTypeOK
    BY DEF WorkspaceInv
  <1>1. /\ position' = [position EXCEPT ![v] = -1]
        /\ Call(c, "close", v, -1, NoVideo)
        /\ Crosses(c, {"open", "activate", "close", "delete"})
        /\ UNCHANGED <<live, active>>
    BY DEF CloseRow
  <1>2. /\ call' \in [Clients -> WorkspaceCall]
        /\ call'[c].kind = "close" /\ call'[c].video = v /\ call'[c].at = "read"
        /\ \A d \in Clients \ {c} : call'[d] = call[d]
    BY <1>0, <1>1, CallBegins, MaxPositionAssumption
  <1>3. /\ position' \in [Shelf -> -1..MaxPosition]
        /\ OpenVideos' = OpenVideos \ {v}
        /\ PositionsDiffer'
    BY <1>1, RowRemoved
  <1>4. /\ crossed' \in BOOLEAN
        /\ ~ crossed' => \A d \in Clients \ {c} :
                            call[d].kind \notin {"open", "activate", "close", "delete"}
    BY <1>0, <1>1, Uncrossed
  <1>5. WorkspaceTypeOK'
    BY <1>0, <1>1, <1>2, <1>3, <1>4 DEF WorkspaceTypeOK
  <1>6. ASSUME NEW d \in Clients PROVE CallHolds(d)'
    <2>1. CASE d = c
      <3>1. ~ crossed' => \A e \in Clients : call'[e].kind = "close" => e = c
        BY <1>2, <1>4
      <3> QED
        BY <1>2, <1>3, <2>1, <3>1 DEF CallHolds
    <2>2. CASE d # c
      <3>1. call'[d] = call[d] /\ CallHolds(d)
        BY <1>2, <2>2 DEF WorkspaceInv
      <3> QED
        BY <1>4, <2>2, <3>1 DEF CallHolds
    <2> QED
      BY <2>1, <2>2
  <1>7. ActiveHolds'
    BY <1>2 DEF ActiveHolds
  <1> QED
    BY <1>3, <1>5, <1>6, <1>7 DEF WorkspaceInv

LEMMA CloseReadsKeeps ==
    ASSUME WorkspaceInv, NEW c \in Clients, CloseReads(c)
    PROVE  WorkspaceInv'
  <1>0. WorkspaceTypeOK
    BY DEF WorkspaceInv
  <1> DEFINE heir == Remaining(call[c].video)
  <1>1. /\ Calls(c, "close", "read")
        /\ call' = [call EXCEPT ![c].at = "write", ![c].then = heir]
        /\ UNCHANGED <<live, position, active, crossed>>
    BY DEF CloseReads
  <1>2. CallHolds(c) /\ call[c].kind = "close" /\ call[c].video \in Shelf /\ call[c] \in WorkspaceCall
    BY <1>0, <1>1 DEF WorkspaceInv, WorkspaceTypeOK, CallHolds, Calls
  <1>3. heir \in Shelf \cup {NoVideo} /\ Fits(heir, OpenVideos \ {call[c].video})
    BY <1>0, <1>2, RemainingFits DEF WorkspaceTypeOK
  <1> HIDE DEF heir
  <1>4. /\ call'[c].kind = "close" /\ call'[c].video = call[c].video /\ call'[c].then = heir
        /\ call'[c] \in WorkspaceCall
        /\ \A d \in Clients \ {c} : call'[d] = call[d]
    BY <1>0, <1>1, <1>2, <1>3 DEF WorkspaceTypeOK, WorkspaceCall
  <1>5. call' \in [Clients -> WorkspaceCall]
    <2>1. call' \in [Clients -> WorkspaceCall] <=> \A d \in Clients : call'[d] \in WorkspaceCall
      BY <1>0, <1>1 DEF WorkspaceTypeOK
    <2> QED
      BY <1>0, <1>4, <2>1 DEF WorkspaceTypeOK
  <1>6. WorkspaceTypeOK'
    BY <1>0, <1>1, <1>5 DEF WorkspaceTypeOK
  <1>7. OpenVideos' = OpenVideos
    BY <1>1 DEF OpenVideos
  <1>8. PositionsDiffer'
    BY <1>1, <1>7 DEF PositionsDiffer, WorkspaceInv
  <1>9. \A d \in Clients : call'[d].kind = "close" <=> call[d].kind = "close"
    BY <1>2, <1>4
  <1>10. ASSUME NEW d \in Clients PROVE CallHolds(d)'
    <2>1. CASE d = c
      <3>1. ~ crossed => call[c].video \notin OpenVideos /\ \A e \in Clients : call[e].kind = "close" => e = c
        BY <1>2 DEF CallHolds
      <3>2. ~ crossed => OpenVideos \ {call[c].video} = OpenVideos
        BY <3>1
      <3>3. ~ crossed => Fits(heir, OpenVideos)
        BY <1>3, <3>2
      <3>4. crossed' = crossed
        BY <1>1
      <3>5. ~ crossed' => \A e \in Clients : call'[e].kind = "close" => e = c
        BY <1>9, <3>1, <3>4
      <3>6. /\ call'[c].kind = "close" /\ call'[c].video \in Shelf
            /\ ~ crossed' => call'[c].video \notin OpenVideos' /\ Fits(call'[c].then, OpenVideos')
        BY <1>2, <1>4, <1>7, <3>1, <3>3, <3>4
      <3>7. ~ crossed' => Fits(call[c].then, OpenVideos)'
        BY <3>6 DEF Fits
      <3> QED
        BY <2>1, <3>5, <3>6, <3>7 DEF CallHolds
    <2>2. CASE d # c
      <3>1. call'[d] = call[d] /\ CallHolds(d)
        BY <1>4, <2>2 DEF WorkspaceInv
      <3>2. crossed' = crossed /\ \A e \in Clients : call'[e].kind = "close" => call[e].kind = "close"
        BY <1>1, <1>9
      <3> QED
        BY <1>7, <3>1, <3>2 DEF CallHolds
    <2> QED
      BY <2>1, <2>2
  <1>11. ActiveHolds'
    BY <1>1, <1>7, <1>9 DEF ActiveHolds, WorkspaceInv
  <1> QED
    BY <1>6, <1>8, <1>10, <1>11 DEF WorkspaceInv

LEMMA CloseWritesKeeps ==
    ASSUME WorkspaceInv, NEW c \in Clients, CloseWrites(c)
    PROVE  WorkspaceInv'
  <1>0. WorkspaceTypeOK
    BY DEF WorkspaceInv
  <1>1. /\ Calls(c, "close", "write") /\ Over(c) /\ UNCHANGED <<live, position>>
        /\ active' = call[c].then /\ Crosses(c, {"close", "delete"})
    BY DEF CloseWrites
  <1>2. /\ call' \in [Clients -> WorkspaceCall]
        /\ call'[c].kind = "none"
        /\ \A d \in Clients \ {c} : call'[d] = call[d]
    BY <1>0, <1>1, CallEnds
  <1>3. call[c].then \in Shelf \cup {NoVideo} /\ (~ crossed => Fits(call[c].then, OpenVideos))
    BY <1>0, <1>1 DEF WorkspaceInv, WorkspaceTypeOK, WorkspaceCall, CallHolds, Calls
  <1>4. /\ crossed' \in BOOLEAN
        /\ ~ crossed' => /\ ~ crossed
                         /\ \A d \in Clients \ {c} : call[d].kind \notin {"close", "delete"}
    BY <1>0, <1>1, Uncrossed
  <1>5. WorkspaceTypeOK'
    BY <1>0, <1>1, <1>2, <1>3, <1>4 DEF WorkspaceTypeOK
  <1>6. OpenVideos' = OpenVideos
    BY <1>1 DEF OpenVideos
  <1>7. PositionsDiffer'
    BY <1>1, <1>6 DEF PositionsDiffer, WorkspaceInv
  <1>8. ASSUME NEW d \in Clients PROVE CallHolds(d)'
    <2>1. CASE d = c
      BY <1>2, <2>1 DEF CallHolds
    <2>2. CASE d # c
      <3>1. call'[d] = call[d] /\ CallHolds(d)
        BY <1>2, <2>2 DEF WorkspaceInv
      <3> QED
        BY <1>4, <1>6, <2>2, <3>1 DEF CallHolds
    <2> QED
      BY <2>1, <2>2
  <1>9. ActiveHolds'
    BY <1>1, <1>3, <1>4, <1>6 DEF ActiveHolds
  <1> QED
    BY <1>5, <1>7, <1>8, <1>9 DEF WorkspaceInv

LEMMA DeleteCommitsKeeps ==
    ASSUME WorkspaceInv, NEW c \in Clients, DeleteCommits(c)
    PROVE  WorkspaceInv'
  <1>0. WorkspaceTypeOK
    BY DEF WorkspaceInv
  <1> DEFINE v == call[c].video
  <1>1. /\ Calls(c, "delete", "read") /\ Over(c)
        /\ live' = live \ {v} /\ position' = [position EXCEPT ![v] = -1]
        /\ active' = call[c].then
        /\ Crosses(c, {"open", "activate", "close", "delete"})
    BY DEF DeleteCommits
  <1>2. /\ call' \in [Clients -> WorkspaceCall]
        /\ call'[c].kind = "none"
        /\ \A d \in Clients \ {c} : call'[d] = call[d]
    BY <1>0, <1>1, CallEnds
  <1>3. /\ v \in Shelf /\ call[c].then \in Shelf \cup {NoVideo}
        /\ ~ crossed => Fits(call[c].then, OpenVideos \ {v})
    BY <1>0, <1>1 DEF WorkspaceInv, WorkspaceTypeOK, WorkspaceCall, CallHolds, Calls
  <1>4. /\ position' \in [Shelf -> -1..MaxPosition]
        /\ OpenVideos' = OpenVideos \ {v}
        /\ PositionsDiffer'
    BY <1>1, <1>3, RowRemoved
  <1>5. /\ crossed' \in BOOLEAN
        /\ ~ crossed' => /\ ~ crossed
                         /\ \A d \in Clients \ {c} :
                              call[d].kind \notin {"open", "activate", "close", "delete"}
    BY <1>0, <1>1, Uncrossed
  <1>6. WorkspaceTypeOK'
    <2>1. live' \subseteq Shelf
      BY <1>0, <1>1 DEF WorkspaceTypeOK
    <2>2. active' \in Shelf \cup {NoVideo}
      BY <1>1, <1>3
    <2> QED
      BY <1>2, <1>4, <1>5, <2>1, <2>2 DEF WorkspaceTypeOK
  <1>7. ASSUME NEW d \in Clients PROVE CallHolds(d)'
    <2>1. CASE d = c
      BY <1>2, <2>1 DEF CallHolds
    <2>2. CASE d # c
      <3>1. call'[d] = call[d] /\ CallHolds(d)
        BY <1>2, <2>2 DEF WorkspaceInv
      <3> QED
        BY <1>5, <2>2, <3>1 DEF CallHolds
    <2> QED
      BY <2>1, <2>2
  <1>8. ActiveHolds'
    BY <1>1, <1>3, <1>4, <1>5 DEF ActiveHolds
  <1> QED
    BY <1>4, <1>6, <1>7, <1>8 DEF WorkspaceInv

LEMMA WorkspaceStep == WorkspaceInv /\ [WorkspaceNext]_workspaceVars => WorkspaceInv'
  <1> SUFFICES ASSUME WorkspaceInv, [WorkspaceNext]_workspaceVars PROVE WorkspaceInv'
    OBVIOUS
  <1>1. CASE WorkspaceNext
    <2>1. PICK c \in Clients :
            \/ OpenCommits(c) \/ Activate(c) \/ CloseReads(c) \/ CloseWrites(c) \/ DeleteCommits(c)
            \/ \E v \in Shelf : OpenReads(c, v) \/ ActivateChecks(c, v) \/ CloseRow(c, v) \/ DeleteReads(c, v)
      BY <1>1 DEF WorkspaceNext
    <2> QED
      BY <2>1, OpenCommitsKeeps, ActivateKeeps, CloseReadsKeeps, CloseWritesKeeps, DeleteCommitsKeeps,
         OpenReadsKeeps, ActivateChecksKeeps, CloseRowKeeps, DeleteReadsKeeps
  <1>2. CASE UNCHANGED workspaceVars
    <2>1. /\ UNCHANGED <<live, position, active, call, crossed>>
          /\ OpenVideos' = OpenVideos
      BY <1>2 DEF workspaceVars, OpenVideos
    <2> QED
      BY <2>1 DEF WorkspaceInv, WorkspaceTypeOK, PositionsDiffer, CallHolds, ActiveHolds
  <1> QED
    BY <1>1, <1>2

\* For any videos and any number of overlapping calls, every reachable workspace keeps
\* the invariant: positions never repeat, and what a call read still holds while no
\* close or deletion has overlapped another call's write.
THEOREM WorkspaceInvariant == WorkspaceSpec => []WorkspaceInv
  <1> QED
    BY WorkspaceInitial, WorkspaceStep, PTL DEF WorkspaceSpec

\* When no call is under way the active video is an open one, or none is open
\* (workspace-service.ts), for any videos and any number of calls.
THEOREM ActiveVideoIsOpen == WorkspaceSpec => []ActiveIsOpen
  <1>1. WorkspaceInv => ActiveIsOpen
    BY DEF WorkspaceInv, PositionsDiffer, ActiveHolds, Fits, ActiveIsOpen, NotCalling
  <1> QED
    BY <1>1, WorkspaceInvariant, PTL

----------------------------------------------------------------------------
(* The exchange of the thumbnails, for any wishes and any bounds.           *)

Places == {"destination", "staging", "backup"}
Directory == [of : Wishes \cup {NoWish}, pages : {"none", "part", "all"}, manifest : BOOLEAN]
Stages == {"idle", "render", "validate", "aside", "promote", "sync", "clean", "catch", "restore", "finally"}
Attempt == [at : Stages, previousMoved : BOOLEAN, stagingPromoted : BOOLEAN]

SwapTypeOK ==
    /\ folders \in [Places -> Directory]
    /\ wish \in Wishes
    /\ attempt \in Attempt
    /\ left \in BOOLEAN /\ served \in BOOLEAN /\ stranded \in BOOLEAN
    /\ upsets \in Nat /\ attempts \in Nat

\* The set that readers had is in this place, unless an earlier attempt took it away.
Kept(place) ==
    /\ served => left \/ Whole(folders[place])
    /\ served /\ ~ stranded => Whole(folders[place])

\* Where the readers' set is while the new one is made, exchanged and taken back.
StageHolds ==
    /\ attempt.at = "idle" =>
         /\ ~ attempt.previousMoved /\ ~ attempt.stagingPromoted
         /\ folders["staging"] = NoDirectory
         /\ served => left \/ Whole(folders["destination"]) \/ Whole(folders["backup"])
         /\ served /\ ~ stranded => Whole(folders["destination"])
    /\ attempt.at \in {"render", "validate", "aside"} =>
         /\ ~ attempt.previousMoved /\ ~ attempt.stagingPromoted
         /\ folders["backup"] = NoDirectory /\ Kept("destination")
    /\ attempt.at \in {"aside", "promote"} => Whole(folders["staging"])
    /\ attempt.at = "promote" => folders["destination"] = NoDirectory /\ ~ attempt.stagingPromoted
    /\ attempt.at \in {"promote", "sync"} =>
         Kept("backup") /\ (~ attempt.previousMoved => folders["backup"] = NoDirectory)
    /\ attempt.at = "sync" => attempt.stagingPromoted
    /\ attempt.at \in {"sync", "clean"} => Whole(folders["destination"])
    /\ attempt.at = "catch" =>
         /\ ~ attempt.previousMoved => folders["backup"] = NoDirectory
         /\ IF attempt.previousMoved \/ attempt.stagingPromoted THEN Kept("backup") ELSE Kept("destination")
    /\ attempt.at = "restore" => attempt.previousMoved /\ Kept("backup")
    /\ attempt.at = "finally" =>
         /\ served => \/ left \/ Whole(folders["destination"])
                      \/ attempt.previousMoved /\ Whole(folders["backup"])
         /\ served /\ ~ stranded => Whole(folders["destination"])

SwapInv == SwapTypeOK /\ StageHolds

LEMMA NoDirectoryIsNotWhole == NoDirectory \in Directory /\ ~ Whole(NoDirectory)
  BY DEF NoDirectory, Directory, Whole

LEMMA SwapInitial == SwapInit => SwapInv
  <1> SUFFICES ASSUME SwapInit PROVE SwapInv
    OBVIOUS
  <1>1. attempt = NoAttempt /\ NoAttempt \in Attempt
    BY DEF SwapInit, NoAttempt, Attempt, Stages
  <1>2. /\ attempt.at = "idle" /\ ~ attempt.previousMoved /\ ~ attempt.stagingPromoted
        /\ folders["staging"] = NoDirectory /\ ~ served
    BY <1>1 DEF SwapInit, NoAttempt
  <1>3. folders \in [Places -> Directory]
    BY NoDirectoryIsNotWhole DEF SwapInit, Places
  <1>4. SwapTypeOK
    BY <1>1, <1>3 DEF SwapInit, SwapTypeOK
  <1>5. StageHolds
    BY <1>2 DEF StageHolds
  <1> QED
    BY <1>4, <1>5 DEF SwapInv

\* An attempt that goes on remembers what it has moved.
LEMMA GoesOn ==
    ASSUME SwapTypeOK, NEW at \in Stages, To(at)
    PROVE  /\ attempt' \in Attempt /\ attempt'.at = at
           /\ attempt'.previousMoved = attempt.previousMoved
           /\ attempt'.stagingPromoted = attempt.stagingPromoted
  BY DEF SwapTypeOK, To, Attempt

LEMMA UpsetCounts == ASSUME SwapTypeOK, Upset PROVE upsets' \in Nat
  BY DEF SwapTypeOK, Upset

LEMMA WishChangesKeeps == ASSUME SwapInv, WishChanges PROVE SwapInv'
  <1>1. wish' \in Wishes /\ UNCHANGED <<folders, left, attempt, served, stranded, upsets, attempts>>
    BY DEF WishChanges
  <1> QED
    BY <1>1 DEF SwapInv, SwapTypeOK, StageHolds, Kept

LEMMA GenerateKeeps == ASSUME SwapInv, Generate PROVE SwapInv'
  <1>0. SwapTypeOK /\ StageHolds
    BY DEF SwapInv
  <1>1. /\ attempt.at = "idle"
        /\ attempts' = attempts + 1 /\ left' = (left \/ Whole(folders["backup"]))
        /\ folders' = [folders EXCEPT !["backup"] = NoDirectory, !["staging"] = NoDirectory]
        /\ attempt' = [NoAttempt EXCEPT !.at = "render"]
        /\ UNCHANGED <<wish, served, stranded, upsets>>
    BY DEF Generate
  <1>2. /\ attempt' \in Attempt /\ attempt'.at = "render"
        /\ ~ attempt'.previousMoved /\ ~ attempt'.stagingPromoted
    BY <1>1 DEF NoAttempt, Attempt, Stages
  <1>3. /\ folders' \in [Places -> Directory]
        /\ folders'["backup"] = NoDirectory /\ folders'["destination"] = folders["destination"]
    BY <1>0, <1>1, NoDirectoryIsNotWhole DEF SwapTypeOK, Places
  <1>4. SwapTypeOK'
    BY <1>0, <1>1, <1>2, <1>3 DEF SwapTypeOK
  <1>5. /\ served => left \/ Whole(folders["destination"]) \/ Whole(folders["backup"])
        /\ served /\ ~ stranded => Whole(folders["destination"])
    BY <1>0, <1>1 DEF StageHolds
  <1>6. StageHolds'
    BY <1>1, <1>2, <1>3, <1>5 DEF StageHolds, Kept
  <1> QED
    BY <1>4, <1>6 DEF SwapInv

\* What rendering leaves in the staging directory disturbs no other.
LEMMA StagedOnly ==
    ASSUME SwapTypeOK, NEW pages \in {"none", "part", "all"}, Staged(pages)
    PROVE  /\ folders' \in [Places -> Directory]
           /\ folders'["backup"] = folders["backup"] /\ folders'["destination"] = folders["destination"]
  <1> DEFINE new == [of |-> wish, pages |-> pages, manifest |-> FALSE]
  <1>1. new \in Directory
    BY DEF Directory, SwapTypeOK
  <1>2. folders' = [folders EXCEPT !["staging"] = new]
    BY DEF Staged
  <1> HIDE DEF new
  <1> QED
    BY <1>1, <1>2 DEF SwapTypeOK, Places

LEMMA GenerateSpritesKeeps == ASSUME SwapInv, GenerateSprites PROVE SwapInv'
  <1>0. SwapTypeOK /\ StageHolds
    BY DEF SwapInv
  <1>1. PICK pages \in {"all", "part"} : Staged(pages)
    BY DEF GenerateSprites
  <1>2. /\ attempt.at = "render" /\ To("validate")
        /\ UNCHANGED <<left, wish, served, stranded, upsets, attempts>>
    BY DEF GenerateSprites
  <1>3. /\ folders' \in [Places -> Directory]
        /\ folders'["backup"] = folders["backup"] /\ folders'["destination"] = folders["destination"]
    BY <1>0, <1>1, StagedOnly
  <1>4. /\ attempt' \in Attempt /\ attempt'.at = "validate"
        /\ attempt'.previousMoved = attempt.previousMoved
        /\ attempt'.stagingPromoted = attempt.stagingPromoted
    BY <1>0, <1>2, GoesOn DEF Stages
  <1>5. SwapTypeOK'
    BY <1>0, <1>2, <1>3, <1>4 DEF SwapTypeOK
  <1>6. StageHolds'
    BY <1>0, <1>2, <1>3, <1>4 DEF StageHolds, Kept
  <1> QED
    BY <1>5, <1>6 DEF SwapInv

LEMMA SpritesFailKeeps == ASSUME SwapInv, SpritesFail PROVE SwapInv'
  <1>0. SwapTypeOK /\ StageHolds
    BY DEF SwapInv
  <1>1. PICK pages \in {"none", "part"} : Staged(pages)
    BY DEF SpritesFail
  <1>2. /\ attempt.at = "render" /\ To("catch") /\ Upset
        /\ UNCHANGED <<left, wish, served, stranded, attempts>>
    BY DEF SpritesFail, Fails
  <1>3. /\ folders' \in [Places -> Directory]
        /\ folders'["backup"] = folders["backup"] /\ folders'["destination"] = folders["destination"]
    BY <1>0, <1>1, StagedOnly
  <1>4. /\ attempt' \in Attempt /\ attempt'.at = "catch"
        /\ attempt'.previousMoved = attempt.previousMoved
        /\ attempt'.stagingPromoted = attempt.stagingPromoted
    BY <1>0, <1>2, GoesOn DEF Stages
  <1>5. SwapTypeOK'
    BY <1>0, <1>2, <1>3, <1>4, UpsetCounts DEF SwapTypeOK
  <1>6. StageHolds'
    BY <1>0, <1>2, <1>3, <1>4 DEF StageHolds, Kept
  <1> QED
    BY <1>5, <1>6 DEF SwapInv

\* A call that fails before anything was moved goes to the catch with the set in place.
LEMMA FailsInPlace ==
    ASSUME SwapInv, attempt.at \in {"validate", "aside", "promote", "sync"},
           To("catch"), upsets' \in Nat,
           UNCHANGED <<folders, left, wish, served, stranded, attempts>>
    PROVE  SwapInv'
  <1>0. SwapTypeOK /\ StageHolds
    BY DEF SwapInv
  <1>1. /\ attempt' \in Attempt /\ attempt'.at = "catch"
        /\ attempt'.previousMoved = attempt.previousMoved
        /\ attempt'.stagingPromoted = attempt.stagingPromoted
    BY <1>0, GoesOn DEF Stages
  <1>2. SwapTypeOK'
    BY <1>0, <1>1 DEF SwapTypeOK
  <1>3. /\ ~ attempt.previousMoved => folders["backup"] = NoDirectory
        /\ IF attempt.previousMoved \/ attempt.stagingPromoted THEN Kept("backup") ELSE Kept("destination")
    <2>1. CASE attempt.at \in {"validate", "aside"}
      BY <1>0, <2>1 DEF StageHolds
    <2>2. CASE attempt.at \in {"promote", "sync"}
      <3>1. Kept("backup") /\ (~ attempt.previousMoved => folders["backup"] = NoDirectory)
        BY <1>0, <2>2 DEF StageHolds
      <3>2. ~ attempt.previousMoved => Kept("destination")
        BY <3>1, NoDirectoryIsNotWhole DEF Kept
      <3> QED
        BY <3>1, <3>2
    <2> QED
      BY <2>1, <2>2
  <1>4. StageHolds'
    <2>1. UNCHANGED <<folders, left, served, stranded>>
      OBVIOUS
    <2> QED
      BY <1>1, <1>3, <2>1 DEF StageHolds, Kept
  <1> QED
    BY <1>2, <1>4 DEF SwapInv

LEMMA ValidateKeeps == ASSUME SwapInv, ValidateGeneratedSet PROVE SwapInv'
  <1>0. SwapTypeOK /\ StageHolds
    BY DEF SwapInv
  <1>1. attempt.at = "validate" /\ UNCHANGED <<left, wish, served, stranded, attempts>>
    BY DEF ValidateGeneratedSet
  <1>2. CASE /\ folders["staging"].pages = "all"
             /\ folders' = [folders EXCEPT !["staging"] = [@ EXCEPT !.manifest = TRUE]]
             /\ To("aside") /\ UNCHANGED upsets
    <2> DEFINE new == [folders["staging"] EXCEPT !.manifest = TRUE]
    <2>1. folders["staging"] \in Directory
      BY <1>0 DEF SwapTypeOK, Places
    <2>2. new \in Directory /\ Whole(new)
      BY <1>2, <2>1 DEF Directory, Whole
    <2>3. folders' = [folders EXCEPT !["staging"] = new]
      BY <1>2
    <2> HIDE DEF new
    <2>4. /\ folders' \in [Places -> Directory] /\ folders'["staging"] = new
          /\ folders'["backup"] = folders["backup"] /\ folders'["destination"] = folders["destination"]
      BY <1>0, <2>2, <2>3 DEF SwapTypeOK, Places
    <2>5. /\ attempt' \in Attempt /\ attempt'.at = "aside"
          /\ attempt'.previousMoved = attempt.previousMoved
          /\ attempt'.stagingPromoted = attempt.stagingPromoted
      BY <1>0, <1>2, GoesOn DEF Stages
    <2>6. SwapTypeOK'
      BY <1>0, <1>1, <1>2, <2>4, <2>5 DEF SwapTypeOK
    <2>7. StageHolds'
      BY <1>0, <1>1, <2>2, <2>4, <2>5 DEF StageHolds, Kept
    <2> QED
      BY <2>6, <2>7 DEF SwapInv
  <1>3. CASE To("catch") /\ UNCHANGED <<folders, upsets>>
    BY <1>0, <1>1, <1>3, FailsInPlace DEF SwapTypeOK
  <1>4. CASE Fails /\ UNCHANGED folders
    BY <1>0, <1>1, <1>4, FailsInPlace, UpsetCounts DEF Fails
  <1> QED
    BY <1>2, <1>3, <1>4 DEF ValidateGeneratedSet

LEMMA MoveAsideKeeps == ASSUME SwapInv, MoveAside PROVE SwapInv'
  <1>0. SwapTypeOK /\ StageHolds
    BY DEF SwapInv
  <1>1. attempt.at = "aside" /\ UNCHANGED <<left, wish, served, stranded, attempts>>
    BY DEF MoveAside
  <1>2. /\ ~ attempt.previousMoved /\ ~ attempt.stagingPromoted
        /\ folders["backup"] = NoDirectory /\ Kept("destination") /\ Whole(folders["staging"])
    BY <1>0, <1>1 DEF StageHolds
  <1>3. CASE /\ folders["destination"] = NoDirectory
             /\ To("promote") /\ UNCHANGED <<folders, upsets>>
    <2>1. /\ attempt' \in Attempt /\ attempt'.at = "promote"
          /\ ~ attempt'.previousMoved /\ ~ attempt'.stagingPromoted
      BY <1>0, <1>2, <1>3, GoesOn DEF Stages
    <2>2. SwapTypeOK'
      BY <1>0, <1>1, <1>3, <2>1 DEF SwapTypeOK
    <2>3. Kept("backup")
      BY <1>2, <1>3 DEF Kept
    <2>4. StageHolds'
      BY <1>1, <1>2, <1>3, <2>1, <2>3 DEF StageHolds, Kept
    <2> QED
      BY <2>2, <2>4 DEF SwapInv
  <1>4. CASE /\ folders' = [folders EXCEPT !["backup"] = folders["destination"], !["destination"] = NoDirectory]
             /\ attempt' = [attempt EXCEPT !.at = "promote", !.previousMoved = TRUE]
             /\ UNCHANGED upsets
    <2>1. /\ attempt' \in Attempt /\ attempt'.at = "promote"
          /\ attempt'.previousMoved /\ ~ attempt'.stagingPromoted
      BY <1>0, <1>2, <1>4 DEF SwapTypeOK, Attempt, Stages
    <2>2. /\ folders' \in [Places -> Directory]
          /\ folders'["backup"] = folders["destination"] /\ folders'["destination"] = NoDirectory
          /\ folders'["staging"] = folders["staging"]
      BY <1>0, <1>4, NoDirectoryIsNotWhole DEF SwapTypeOK, Places
    <2>3. SwapTypeOK'
      BY <1>0, <1>1, <1>4, <2>1, <2>2 DEF SwapTypeOK
    <2>4. StageHolds'
      BY <1>1, <1>2, <2>1, <2>2 DEF StageHolds, Kept
    <2> QED
      BY <2>3, <2>4 DEF SwapInv
  <1>5. CASE Fails /\ UNCHANGED folders
    BY <1>0, <1>1, <1>5, FailsInPlace, UpsetCounts DEF Fails
  <1> QED
    BY <1>3, <1>4, <1>5 DEF MoveAside

LEMMA PromoteKeeps == ASSUME SwapInv, PromoteStaging PROVE SwapInv'
  <1>0. SwapTypeOK /\ StageHolds
    BY DEF SwapInv
  <1>1. attempt.at = "promote" /\ UNCHANGED <<left, wish, served, stranded, attempts>>
    BY DEF PromoteStaging
  <1>2. CASE /\ folders' = [folders EXCEPT !["destination"] = folders["staging"], !["staging"] = NoDirectory]
             /\ attempt' = [attempt EXCEPT !.at = "sync", !.stagingPromoted = TRUE]
             /\ UNCHANGED upsets
    <2>1. /\ attempt' \in Attempt /\ attempt'.at = "sync" /\ attempt'.stagingPromoted
          /\ attempt'.previousMoved = attempt.previousMoved
      BY <1>0, <1>2 DEF SwapTypeOK, Attempt, Stages
    <2>2. /\ folders' \in [Places -> Directory]
          /\ folders'["destination"] = folders["staging"] /\ folders'["backup"] = folders["backup"]
      BY <1>0, <1>2, NoDirectoryIsNotWhole DEF SwapTypeOK, Places
    <2>3. SwapTypeOK'
      BY <1>0, <1>1, <1>2, <2>1, <2>2 DEF SwapTypeOK
    <2>4. /\ Whole(folders["staging"]) /\ Kept("backup")
          /\ ~ attempt.previousMoved => folders["backup"] = NoDirectory
      BY <1>0, <1>1 DEF StageHolds
    <2>5. StageHolds'
      BY <1>1, <2>1, <2>2, <2>4 DEF StageHolds, Kept
    <2> QED
      BY <2>3, <2>5 DEF SwapInv
  <1>3. CASE Fails /\ UNCHANGED folders
    BY <1>0, <1>1, <1>3, FailsInPlace, UpsetCounts DEF Fails
  <1> QED
    BY <1>2, <1>3 DEF PromoteStaging

LEMMA SyncKeeps == ASSUME SwapInv, SyncParent PROVE SwapInv'
  <1>0. SwapTypeOK /\ StageHolds
    BY DEF SwapInv
  <1>1. attempt.at = "sync" /\ UNCHANGED <<folders, left, wish, attempts>>
    BY DEF SyncParent
  <1>2. CASE To("clean") /\ served' = TRUE /\ stranded' = FALSE /\ UNCHANGED upsets
    <2>1. attempt' \in Attempt /\ attempt'.at = "clean"
      BY <1>0, <1>2, GoesOn DEF Stages
    <2>2. SwapTypeOK'
      BY <1>0, <1>1, <1>2, <2>1 DEF SwapTypeOK
    <2>3. StageHolds'
      BY <1>0, <1>1, <2>1 DEF StageHolds
    <2> QED
      BY <2>2, <2>3 DEF SwapInv
  <1>3. CASE Fails /\ UNCHANGED <<served, stranded>>
    BY <1>0, <1>1, <1>3, FailsInPlace, UpsetCounts DEF Fails
  <1> QED
    BY <1>2, <1>3 DEF SyncParent

\* What a removal that fails leaves is a directory, and the others are as they were.
LEMMA RemovalsElsewhere ==
    ASSUME SwapTypeOK, NEW place \in Places, folders' \in Removals(place)
    PROVE  folders' \in [Places -> Directory] /\ \A p \in Places \ {place} : folders'[p] = folders[p]
  <1>1. PICK pages \in {folders[place].pages, "part"}, manifest \in {folders[place].manifest, FALSE} :
           folders' = [folders EXCEPT ![place] = [@ EXCEPT !.pages = pages, !.manifest = manifest]]
    BY DEF Removals
  <1> DEFINE rest == [folders[place] EXCEPT !.pages = pages, !.manifest = manifest]
  <1>2. folders[place] \in Directory
    BY DEF SwapTypeOK
  <1>3. pages \in {"none", "part", "all"} /\ manifest \in BOOLEAN
    BY <1>1, <1>2 DEF Directory
  <1>4. rest \in Directory
    BY <1>2, <1>3 DEF Directory
  <1>5. folders' = [folders EXCEPT ![place] = rest]
    BY <1>1
  <1> HIDE DEF rest
  <1> QED
    BY <1>4, <1>5 DEF SwapTypeOK

LEMMA RemovedElsewhere ==
    ASSUME SwapTypeOK, NEW place \in Places, folders' = Removed(place)
    PROVE  folders' \in [Places -> Directory] /\ \A p \in Places \ {place} : folders'[p] = folders[p]
  BY NoDirectoryIsNotWhole DEF SwapTypeOK, Removed

LEMMA RemoveBackupKeeps == ASSUME SwapInv, RemoveBackup PROVE SwapInv'
  <1>0. SwapTypeOK /\ StageHolds
    BY DEF SwapInv
  <1>1. /\ attempt.at = "clean" /\ UNCHANGED <<left, wish, served, stranded, attempts>>
        /\ attempt' = [attempt EXCEPT !.at = "finally", !.previousMoved = FALSE]
        /\ \/ folders' = Removed("backup") /\ UNCHANGED upsets
           \/ Upset /\ folders' \in Removals("backup")
    BY DEF RemoveBackup
  <1>2. /\ folders' \in [Places -> Directory] /\ folders'["destination"] = folders["destination"]
        /\ upsets' \in Nat
    <2>1. "backup" \in Places /\ "destination" \in Places \ {"backup"}
      BY DEF Places
    <2>2. CASE folders' = Removed("backup") /\ UNCHANGED upsets
      BY <1>0, <2>1, <2>2, RemovedElsewhere DEF SwapTypeOK
    <2>3. CASE Upset /\ folders' \in Removals("backup")
      BY <1>0, <2>1, <2>3, RemovalsElsewhere, UpsetCounts
    <2> QED
      BY <1>1, <2>2, <2>3
  <1>3. attempt' \in Attempt /\ attempt'.at = "finally"
    BY <1>0, <1>1 DEF SwapTypeOK, Attempt, Stages
  <1>4. SwapTypeOK'
    BY <1>0, <1>1, <1>2, <1>3 DEF SwapTypeOK
  <1>5. Whole(folders["destination"])
    BY <1>0, <1>1 DEF StageHolds
  <1>6. StageHolds'
    BY <1>2, <1>3, <1>5 DEF StageHolds
  <1> QED
    BY <1>4, <1>6 DEF SwapInv

LEMMA TakeBackKeeps == ASSUME SwapInv, TakeBack PROVE SwapInv'
  <1>0. SwapTypeOK /\ StageHolds
    BY DEF SwapInv
  <1>1. /\ attempt.at = "catch" /\ UNCHANGED <<left, wish, served, stranded, attempts>>
        /\ To(IF attempt.previousMoved THEN "restore" ELSE "finally")
        /\ \/ ~ attempt.stagingPromoted /\ UNCHANGED <<folders, upsets>>
           \/ attempt.stagingPromoted /\ folders' = Removed("destination") /\ UNCHANGED upsets
           \/ attempt.stagingPromoted /\ Upset /\ folders' \in Removals("destination")
    BY DEF TakeBack
  <1>2. /\ folders' \in [Places -> Directory] /\ folders'["backup"] = folders["backup"]
        /\ ~ attempt.stagingPromoted => folders' = folders
        /\ upsets' \in Nat
    <2>1. "destination" \in Places /\ "backup" \in Places \ {"destination"}
      BY DEF Places
    <2>2. CASE ~ attempt.stagingPromoted /\ UNCHANGED <<folders, upsets>>
      BY <1>0, <2>2 DEF SwapTypeOK
    <2>3. CASE attempt.stagingPromoted /\ folders' = Removed("destination") /\ UNCHANGED upsets
      BY <1>0, <2>1, <2>3, RemovedElsewhere DEF SwapTypeOK
    <2>4. CASE attempt.stagingPromoted /\ Upset /\ folders' \in Removals("destination")
      BY <1>0, <2>1, <2>4, RemovalsElsewhere, UpsetCounts
    <2> QED
      BY <1>1, <2>2, <2>3, <2>4
  <1>3. /\ attempt' \in Attempt
        /\ attempt'.at = IF attempt.previousMoved THEN "restore" ELSE "finally"
        /\ attempt'.previousMoved = attempt.previousMoved
    BY <1>0, <1>1, GoesOn DEF Stages
  <1>4. SwapTypeOK'
    BY <1>0, <1>1, <1>2, <1>3 DEF SwapTypeOK
  <1>5. /\ ~ attempt.previousMoved => folders["backup"] = NoDirectory
        /\ IF attempt.previousMoved \/ attempt.stagingPromoted THEN Kept("backup") ELSE Kept("destination")
    BY <1>0, <1>1 DEF StageHolds
  <1>6. CASE attempt.previousMoved
    <2>1. Kept("backup") /\ attempt'.at = "restore" /\ attempt'.previousMoved
      BY <1>3, <1>5, <1>6
    <2>2. StageHolds'
      BY <1>1, <1>2, <2>1 DEF StageHolds, Kept
    <2> QED
      BY <1>4, <2>2 DEF SwapInv
  <1>7. CASE ~ attempt.previousMoved
    <2>1. attempt'.at = "finally"
      BY <1>3, <1>7
    <2>2. (served => left \/ Whole(folders'["destination"])) /\ (served /\ ~ stranded => Whole(folders'["destination"]))
      <3>1. CASE attempt.stagingPromoted
        BY <1>5, <1>7, <3>1, NoDirectoryIsNotWhole DEF Kept
      <3>2. CASE ~ attempt.stagingPromoted
        BY <1>2, <1>5, <1>7, <3>2 DEF Kept
      <3> QED
        BY <3>1, <3>2
    <2>3. StageHolds'
      BY <1>1, <2>1, <2>2 DEF StageHolds
    <2> QED
      BY <1>4, <2>3 DEF SwapInv
  <1> QED
    BY <1>6, <1>7

LEMMA RestoreKeeps == ASSUME SwapInv, RestorePrevious PROVE SwapInv'
  <1>0. SwapTypeOK /\ StageHolds
    BY DEF SwapInv
  <1>1. attempt.at = "restore" /\ UNCHANGED <<left, wish, served, attempts>>
    BY DEF RestorePrevious
  <1>2. attempt.previousMoved /\ Kept("backup")
    BY <1>0, <1>1 DEF StageHolds
  <1>3. CASE /\ folders' = [folders EXCEPT !["destination"] = folders["backup"], !["backup"] = NoDirectory]
             /\ attempt' = [attempt EXCEPT !.at = "finally", !.previousMoved = FALSE]
             /\ UNCHANGED <<upsets, stranded>>
    <2>1. folders' \in [Places -> Directory] /\ folders'["destination"] = folders["backup"]
      BY <1>0, <1>3, NoDirectoryIsNotWhole DEF SwapTypeOK, Places
    <2>2. attempt' \in Attempt /\ attempt'.at = "finally"
      BY <1>0, <1>3 DEF SwapTypeOK, Attempt, Stages
    <2>3. SwapTypeOK'
      BY <1>0, <1>1, <1>3, <2>1, <2>2 DEF SwapTypeOK
    <2>4. StageHolds'
      BY <1>1, <1>2, <1>3, <2>1, <2>2 DEF StageHolds, Kept
    <2> QED
      BY <2>3, <2>4 DEF SwapInv
  <1>4. CASE To("finally") /\ stranded' = TRUE /\ UNCHANGED folders /\ (upsets' = upsets \/ Upset)
    <2>1. attempt' \in Attempt /\ attempt'.at = "finally" /\ attempt'.previousMoved
      BY <1>0, <1>2, <1>4, GoesOn DEF Stages
    <2>2. upsets' \in Nat
      BY <1>0, <1>4, UpsetCounts DEF SwapTypeOK
    <2>3. SwapTypeOK'
      BY <1>0, <1>1, <1>4, <2>1, <2>2 DEF SwapTypeOK
    <2>4. StageHolds'
      BY <1>1, <1>2, <1>4, <2>1 DEF StageHolds, Kept
    <2> QED
      BY <2>3, <2>4 DEF SwapInv
  <1> QED
    BY <1>3, <1>4 DEF RestorePrevious

LEMMA AttemptEnds == ASSUME attempt' = NoAttempt
                     PROVE  /\ attempt' \in Attempt /\ attempt'.at = "idle"
                            /\ ~ attempt'.previousMoved /\ ~ attempt'.stagingPromoted
  BY DEF NoAttempt, Attempt, Stages

LEMMA FinallyKeeps == ASSUME SwapInv, Finally PROVE SwapInv'
  <1>0. SwapTypeOK /\ StageHolds
    BY DEF SwapInv
  <1>1. /\ attempt.at = "finally" /\ attempt' = NoAttempt
        /\ folders' = [[folders EXCEPT !["staging"] = NoDirectory] EXCEPT
                          !["backup"] = IF attempt.previousMoved THEN @ ELSE NoDirectory]
        /\ UNCHANGED <<left, wish, served, stranded, upsets, attempts>>
    BY DEF Finally, Removed, KeepsBackup
  <1>2. /\ folders' \in [Places -> Directory]
        /\ folders'["staging"] = NoDirectory /\ folders'["destination"] = folders["destination"]
        /\ attempt.previousMoved => folders'["backup"] = folders["backup"]
    <2>1. PICK f : f = [folders EXCEPT !["staging"] = NoDirectory]
      OBVIOUS
    <2>2. /\ f \in [Places -> Directory] /\ f["staging"] = NoDirectory
          /\ f["destination"] = folders["destination"] /\ f["backup"] = folders["backup"]
      BY <1>0, <2>1, NoDirectoryIsNotWhole DEF SwapTypeOK, Places
    <2>3. folders' = [f EXCEPT !["backup"] = IF attempt.previousMoved THEN f["backup"] ELSE NoDirectory]
      BY <1>1, <2>1
    <2> QED
      BY <2>2, <2>3, NoDirectoryIsNotWhole DEF Places
  <1>3. SwapTypeOK'
    BY <1>0, <1>1, <1>2, AttemptEnds DEF SwapTypeOK
  <1>4. /\ served => \/ left \/ Whole(folders["destination"])
                     \/ attempt.previousMoved /\ Whole(folders["backup"])
        /\ served /\ ~ stranded => Whole(folders["destination"])
    BY <1>0, <1>1 DEF StageHolds
  <1>5. StageHolds'
    BY <1>1, <1>2, <1>4, AttemptEnds DEF StageHolds
  <1> QED
    BY <1>3, <1>5 DEF SwapInv

\* At every stage a whole set is somewhere.
LEMMA SetIsSomewhere ==
    ASSUME SwapInv
    PROVE  served => \/ left \/ Whole(folders["destination"])
                     \/ Whole(folders["staging"]) \/ Whole(folders["backup"])
  <1>1. attempt.at \in Stages /\ StageHolds
    BY DEF SwapInv, SwapTypeOK, Attempt
  <1> QED
    BY <1>1 DEF StageHolds, Kept, Stages

LEMMA AttemptDiesKeeps == ASSUME SwapInv, AttemptDies PROVE SwapInv'
  <1>0. SwapTypeOK
    BY DEF SwapInv
  <1>1. /\ Upset /\ attempt' = NoAttempt /\ stranded' = TRUE /\ UNCHANGED <<wish, served, attempts>>
        /\ left' = (left \/ Whole(folders["staging"]) \/ Whole(folders["backup"]))
        /\ folders' = [folders EXCEPT !["staging"] = NoDirectory, !["backup"] = NoDirectory]
    BY DEF AttemptDies
  <1>2. /\ folders' \in [Places -> Directory]
        /\ folders'["staging"] = NoDirectory /\ folders'["destination"] = folders["destination"]
    BY <1>0, <1>1, NoDirectoryIsNotWhole DEF SwapTypeOK, Places
  <1>3. left' \in BOOLEAN
    BY <1>0, <1>1 DEF SwapTypeOK
  <1>4. SwapTypeOK'
    BY <1>0, <1>1, <1>2, <1>3, AttemptEnds, UpsetCounts DEF SwapTypeOK
  <1>5. StageHolds'
    BY <1>1, <1>2, AttemptEnds, SetIsSomewhere DEF StageHolds
  <1> QED
    BY <1>4, <1>5 DEF SwapInv

LEMMA SwapStep == SwapInv /\ [SwapNext]_swapVars => SwapInv'
  <1> SUFFICES ASSUME SwapInv, [SwapNext]_swapVars PROVE SwapInv'
    OBVIOUS
  <1>1. CASE SwapNext
    BY <1>1, WishChangesKeeps, GenerateKeeps, GenerateSpritesKeeps, SpritesFailKeeps, ValidateKeeps,
       MoveAsideKeeps, PromoteKeeps, SyncKeeps, RemoveBackupKeeps, TakeBackKeeps, RestoreKeeps,
       FinallyKeeps, AttemptDiesKeeps DEF SwapNext
  <1>2. CASE UNCHANGED swapVars
    <2>1. UNCHANGED <<folders, left, wish, attempt, served, stranded, upsets, attempts>>
      BY <1>2 DEF swapVars
    <2> QED
      BY <2>1 DEF SwapInv, SwapTypeOK, StageHolds, Kept
  <1> QED
    BY <1>1, <1>2

\* At every stage of every attempt the readers' set is where the way back looks for it.
THEOREM SwapInvariant == SwapSpec => []SwapInv
  <1> QED
    BY SwapInitial, SwapStep, PTL DEF SwapSpec

\* However calls fail and the process dies, a failed attempt leaves readers the set they
\* had unless the way back failed too, and a whole set is always somewhere
\* (thumbnail-worker.ts), for any number of attempts.
THEOREM SetAlwaysSurvives == SwapSpec => []SetSurvives
  <1>1. SwapInv => SetSurvives
    <2> SUFFICES ASSUME SwapInv PROVE SetSurvives
      OBVIOUS
    <2>1. FailureKeepsTheSet
      BY DEF SwapInv, StageHolds, FailureKeepsTheSet
    <2>2. served => left \/ \E place \in DOMAIN folders : Whole(folders[place])
      <3>1. DOMAIN folders = {"destination", "staging", "backup"}
        BY DEF SwapInv, SwapTypeOK, Places
      <3> QED
        BY <3>1, SetIsSomewhere
    <2>3. folders["destination"].pages = "part" => ~ Compatible(folders["destination"])
      BY DEF Compatible, Whole
    <2> QED
      BY <2>1, <2>2, <2>3 DEF SetSurvives, NothingIsDestroyed
  <1> QED
    BY <1>1, SwapInvariant, PTL

----------------------------------------------------------------------------
(* The thumbnails of a video, for any number of processes, deliveries and   *)
(* bundles.                                                                 *)

ThumbnailRow == [status : {"none", "generating", "ready", "failed"}, key : 0..MaxBundles]
HandlingStages == {"idle", "load", "previous", "mark", "render", "store", "stored", "fail"}
Handling == [at : HandlingStages, previous : ThumbnailRow,
             key : 0..MaxBundles, delivery : Nat]

ThumbnailTypeOK ==
    /\ video \in {"ready", "deleting", "gone"}
    /\ row \in ThumbnailRow
    /\ stored \subseteq Bundles /\ leaked \subseteq Bundles
    /\ made \in 0..MaxBundles
    /\ generator \in [Generators -> Handling]
    /\ request \in [state : {"waiting", "out", "acked", "termed"}, deliveries : Nat]
    /\ timers \subseteq (Generators \cup {"worker"}) \X Bundles
    /\ purge \in [at : {"none", "purge"}, key : 0..MaxBundles]
    /\ troubles \in Nat

\* Every key in use is one that was made.
KeysAreMade ==
    /\ \A k \in stored : k <= made
    /\ row.key <= made /\ purge.key <= made
    /\ \A t \in timers : t[2] <= made
    /\ \A g \in Generators : Key(g) <= made /\ Previous(g).key <= made

\* A key that no process is about to write into the row ...
Settled(k) == \A g \in Generators : At(g, "store") => Key(g) # k

\* ... and that the row does not offer: it never will again.
Retired(k) == Settled(k) /\ (row.status = "ready" => row.key # k)

RowHolds ==
    /\ row.status = "ready" => row.key \in stored
    /\ video = "gone" => row = NoRow
    /\ Settled(row.key) /\ Settled(purge.key)
    /\ \A t \in timers : Retired(t[2])

GeneratorHolds(g) ==
    /\ generator[g].at \in {"idle", "load", "previous", "mark", "render"} => Key(g) = NoBundle
    /\ At(g, "store") => Key(g) \in stored
    /\ Key(g) # NoBundle => Key(g) # Previous(g).key
    /\ \A h \in Generators : Key(h) = Key(g) /\ h # g => Key(g) = NoBundle
    /\ Retired(Previous(g).key)

\* Who will remove the bundle, or leave it, if the row does not name it.
Owned(k) ==
    \/ k = row.key \/ k \in leaked
    \/ \E t \in timers : t[2] = k
    \/ \E g \in Generators : \/ generator[g].at \in {"store", "fail"} /\ Key(g) = k
                             \/ At(g, "stored") /\ Previous(g).key = k

ThumbnailInv ==
    /\ ThumbnailTypeOK
    /\ KeysAreMade
    /\ RowHolds
    /\ \A g \in Generators : GeneratorHolds(g)
    /\ \A k \in stored : Owned(k)

LEMMA NoRowIsARow == NoRow \in ThumbnailRow /\ NoRow.key = NoBundle /\ NoRow.status = "none"
  BY BundlesAssumption DEF NoRow, ThumbnailRow, NoBundle

LEMMA WaitingIsIdle ==
    /\ Waiting \in Handling /\ Waiting.at = "idle"
    /\ Waiting.key = NoBundle /\ Waiting.previous = NoRow
  BY NoRowIsARow, BundlesAssumption DEF Waiting, Handling, HandlingStages, NoBundle

\* A process that goes on keeps what it handles.
LEMMA Moves ==
    ASSUME ThumbnailTypeOK, NEW g \in Generators, NEW at \in HandlingStages, Goes(g, at)
    PROVE  /\ generator' \in [Generators -> Handling]
           /\ generator'[g].at = at /\ generator'[g].key = Key(g) /\ generator'[g].previous = Previous(g)
           /\ \A h \in Generators \ {g} : generator'[h] = generator[h]
  <1>1. generator[g] \in Handling /\ generator \in [Generators -> Handling]
    BY DEF ThumbnailTypeOK
  <1> DEFINE r == [generator[g] EXCEPT !.at = at]
  <1>2. r \in Handling /\ r.at = at /\ r.key = generator[g].key /\ r.previous = generator[g].previous
    BY <1>1 DEF Handling
  <1>3. generator' = [generator EXCEPT ![g] = r]
    BY DEF Goes
  <1> HIDE DEF r
  <1> QED
    BY <1>1, <1>2, <1>3 DEF Key, Previous

\* A process that is through with its request is idle again.
LEMMA HandledWaits ==
    ASSUME ThumbnailTypeOK, NEW g \in Generators, Handled(g)
    PROVE  /\ generator' \in [Generators -> Handling]
           /\ generator'[g].at = "idle" /\ generator'[g].key = NoBundle /\ generator'[g].previous = NoRow
           /\ \A h \in Generators \ {g} : generator'[h] = generator[h]
  BY WaitingIsIdle DEF ThumbnailTypeOK, Handled

LEMMA RequestStates ==
    ASSUME ThumbnailTypeOK
    PROVE  /\ Acknowledge => request' \in [state : {"waiting", "out", "acked", "termed"}, deliveries : Nat]
           /\ \A g \in Generators :
                NakOrTerm(g) => request' \in [state : {"waiting", "out", "acked", "termed"}, deliveries : Nat]
  <1>1. Acknowledge => request' \in [state : {"waiting", "out", "acked", "termed"}, deliveries : Nat]
    BY DEF ThumbnailTypeOK, Acknowledge
  <1>2. ASSUME NEW g \in Generators, NakOrTerm(g)
        PROVE  request' \in [state : {"waiting", "out", "acked", "termed"}, deliveries : Nat]
    <2>1. PICK s \in {"waiting", "termed"} : request' = request \/ request' = [request EXCEPT !.state = s]
      BY <1>2 DEF NakOrTerm
    <2> QED
      BY <2>1 DEF ThumbnailTypeOK
  <1> QED
    BY <1>1, <1>2

\* The row of no bundle is settled, and a bundle on disk is not NoBundle.
LEMMA NoBundleIsRetired ==
    ASSUME ThumbnailInv
    PROVE  Retired(NoBundle) /\ \A k \in stored : k # NoBundle
  <1>1. \A k \in stored : k # NoBundle
    BY BundlesAssumption DEF ThumbnailInv, ThumbnailTypeOK, Bundles, NoBundle
  <1>2. \A g \in Generators : At(g, "store") => Key(g) \in stored
    BY DEF ThumbnailInv, GeneratorHolds
  <1>3. row.status = "ready" => row.key \in stored
    BY DEF ThumbnailInv, RowHolds
  <1> QED
    BY <1>1, <1>2, <1>3 DEF Retired, Settled

\* A step of one process before it has rendered: nothing is stored, made or removed.
LEMMA QuietStep ==
    ASSUME ThumbnailInv, NEW g \in Generators,
           generator[g].at \in {"idle", "load", "previous", "mark", "render"},
           generator' \in [Generators -> Handling],
           \A h \in Generators \ {g} : generator'[h] = generator[h],
           generator'[g].at \notin {"store", "stored"}, generator'[g].key = NoBundle,
           \/ generator'[g].previous \in {NoRow, Previous(g)}
           \/ generator'[g].previous = row /\ row.status # "ready",
           \/ row' = row
           \/ /\ video # "gone"
              /\ row' = [status |-> "generating", key |-> IF row = NoRow THEN Previous(g).key ELSE row.key],
           UNCHANGED <<video, stored, made, timers, purge, leaked>>,
           request' \in [state : {"waiting", "out", "acked", "termed"}, deliveries : Nat],
           troubles' \in Nat
    PROVE  ThumbnailInv'
  <1>1. ThumbnailTypeOK /\ KeysAreMade /\ RowHolds /\ (\A h \in Generators : GeneratorHolds(h))
    BY DEF ThumbnailInv
  <1>2. row \in ThumbnailRow /\ Previous(g) \in ThumbnailRow
    BY <1>1 DEF ThumbnailTypeOK, Handling, Previous
  <1>3. /\ row' \in ThumbnailRow
        /\ row'.key = row.key \/ (row = NoRow /\ row'.key = Previous(g).key)
        /\ row'.status = "ready" => row' = row
    <2>1. row' = row => row'.key = row.key /\ row' \in ThumbnailRow
      BY <1>2
    <2>2. ASSUME row' # row
          PROVE  /\ row' \in ThumbnailRow /\ row'.status # "ready"
                 /\ row'.key = row.key \/ (row = NoRow /\ row'.key = Previous(g).key)
      <3> DEFINE k == IF row = NoRow THEN Previous(g).key ELSE row.key
      <3>1. row' = [status |-> "generating", key |-> k]
        BY <2>2
      <3>2. k = row.key \/ (row = NoRow /\ k = Previous(g).key)
        OBVIOUS
      <3>3. k \in 0..MaxBundles
        BY <1>2 DEF ThumbnailRow
      <3> HIDE DEF k
      <3>4. row' \in ThumbnailRow /\ row'.status = "generating" /\ row'.key = k
        BY <3>1, <3>3 DEF ThumbnailRow
      <3> QED
        BY <3>2, <3>4
    <2> QED
      BY <2>1, <2>2
  <1>4. Settled(row.key) /\ Settled(purge.key) /\ Retired(Previous(g).key) /\ Retired(NoBundle)
    BY <1>1, NoBundleIsRetired DEF RowHolds, GeneratorHolds
  <1>5. UNCHANGED <<video, stored, made, timers, purge, leaked>>
    OBVIOUS
  <1>6. \A k : Settled(k) => Settled(k)'
    BY DEF Settled, At, Key
  <1>7. \A k : Retired(k) => Retired(k)'
    BY <1>3, <1>6 DEF Retired
  <1>8. ThumbnailTypeOK'
    BY <1>1, <1>3, <1>5 DEF ThumbnailTypeOK
  <1>9. generator'[g].previous.key \in {NoBundle, Previous(g).key, row.key}
    BY NoRowIsARow
  <1>10. KeysAreMade'
    <2>1. made \in Nat /\ NoBundle <= made
      BY <1>1, BundlesAssumption DEF ThumbnailTypeOK, NoBundle
    <2>2. row'.key <= made
      BY <1>1, <1>3 DEF KeysAreMade
    <2>3. \A h \in Generators : generator'[h].key <= made /\ generator'[h].previous.key <= made
      <3>1. generator'[g].key <= made /\ generator'[g].previous.key <= made
        BY <1>1, <1>9, <2>1 DEF KeysAreMade
      <3>2. \A h \in Generators \ {g} : generator'[h].key <= made /\ generator'[h].previous.key <= made
        BY <1>1 DEF KeysAreMade, Key, Previous
      <3> QED
        BY <3>1, <3>2
    <2> QED
      BY <1>1, <1>5, <2>2, <2>3 DEF KeysAreMade, Key, Previous
  <1>11. RowHolds'
    <2>1. row'.status = "ready" => row'.key \in stored
      BY <1>1, <1>3 DEF RowHolds
    <2>2. video' = "gone" => row' = NoRow
      BY <1>1, <1>5 DEF RowHolds
    <2>3. Settled(row'.key)
      BY <1>3, <1>4 DEF Retired
    <2>4. Settled(row.key)' /\ Settled(purge.key)'
      BY <1>4, <1>5, <1>6, <2>3 DEF Settled
    <2>5. \A t \in timers : Retired(t[2])'
      <3> SUFFICES ASSUME NEW t \in timers PROVE Retired(t[2])'
        OBVIOUS
      <3> DEFINE k == t[2]
      <3>1. Retired(k)
        BY <1>1 DEF RowHolds
      <3> HIDE DEF k
      <3>2. Retired(k)'
        BY <1>7, <3>1
      <3> QED
        BY <3>2 DEF k
    <2> QED
      BY <1>5, <2>1, <2>2, <2>4, <2>5 DEF RowHolds
  <1>12. ASSUME NEW h \in Generators PROVE GeneratorHolds(h)'
    <2>1. CASE h = g
      <3>1. Retired(generator'[g].previous.key)
        <4>1. CASE generator'[g].previous \in {NoRow, Previous(g)}
          BY <1>4, <4>1, NoRowIsARow
        <4>2. CASE generator'[g].previous = row /\ row.status # "ready"
          BY <1>4, <4>2 DEF Retired
        <4> QED
          BY <4>1, <4>2
      <3>2. Retired(Previous(g).key)'
        BY <1>7, <3>1 DEF Retired, Settled, Previous
      <3> QED
        BY <2>1, <3>2 DEF GeneratorHolds, At, Key, Previous
    <2>2. CASE h # g
      <3>1. generator'[h] = generator[h] /\ GeneratorHolds(h)
        BY <1>1, <2>2
      <3>2. Retired(Previous(h).key)'
        BY <1>7, <3>1 DEF GeneratorHolds, Retired, Settled, Previous
      <3>3. \A f \in Generators : generator'[f].key = generator'[h].key /\ f # h => generator'[h].key = NoBundle
        BY <3>1 DEF GeneratorHolds, Key
      <3> QED
        BY <1>5, <3>1, <3>2, <3>3 DEF GeneratorHolds, At, Key, Previous
    <2> QED
      BY <2>1, <2>2
  <1>13. ASSUME NEW k \in stored' PROVE Owned(k)'
    <2>1. k \in stored /\ Owned(k) /\ k # NoBundle
      BY <1>5, NoBundleIsRetired DEF ThumbnailInv
    <2>2. row.key = k => row'.key = k
      BY <1>3, <2>1, NoRowIsARow
    <2>3. \A f \in Generators :
            generator[f].at \in {"store", "fail", "stored"} => f # g /\ generator'[f] = generator[f]
      OBVIOUS
    <2> QED
      BY <1>5, <2>1, <2>2, <2>3 DEF Owned, At, Key, Previous
  <1> QED
    BY <1>8, <1>10, <1>11, <1>12, <1>13 DEF ThumbnailInv

LEMMA TakeRequestKeeps ==
    ASSUME ThumbnailInv, NEW g \in Generators, TakeRequest(g) PROVE ThumbnailInv'
  <1>0. ThumbnailTypeOK
    BY DEF ThumbnailInv
  <1>1. /\ generator[g].at = "idle"
        /\ request' = [state |-> "out", deliveries |-> request.deliveries + 1]
        /\ generator' = [generator EXCEPT ![g] = [Waiting EXCEPT !.at = "load", !.delivery = request'.deliveries]]
        /\ UNCHANGED <<row, video, stored, made, timers, purge, leaked, troubles>>
    BY DEF TakeRequest, Fixed, At
  <1>2. request'.deliveries \in Nat
        /\ request' \in [state : {"waiting", "out", "acked", "termed"}, deliveries : Nat]
    BY <1>0, <1>1 DEF ThumbnailTypeOK
  <1> DEFINE r == [Waiting EXCEPT !.at = "load", !.delivery = request'.deliveries]
  <1>3. r \in Handling /\ r.at = "load" /\ r.key = NoBundle /\ r.previous = NoRow
    BY <1>2, WaitingIsIdle DEF Handling, HandlingStages
  <1>4. generator' = [generator EXCEPT ![g] = r]
    BY <1>1
  <1> HIDE DEF r
  <1>5. /\ generator' \in [Generators -> Handling] /\ generator'[g] = r
        /\ \A h \in Generators \ {g} : generator'[h] = generator[h]
    BY <1>0, <1>3, <1>4 DEF ThumbnailTypeOK
  <1>6. troubles' \in Nat
    BY <1>0, <1>1 DEF ThumbnailTypeOK
  <1> QED
    BY <1>1, <1>2, <1>3, <1>5, <1>6, QuietStep

LEMMA LoadKeeps ==
    ASSUME ThumbnailInv, NEW g \in Generators, Load(g) PROVE ThumbnailInv'
  <1>0. ThumbnailTypeOK /\ GeneratorHolds(g)
    BY DEF ThumbnailInv
  <1>1. generator[g].at = "load" /\ UNCHANGED <<row, video, stored, made, timers, purge, leaked, troubles>>
    BY DEF Load, Fixed, At
  <1>2. troubles' \in Nat /\ Key(g) = NoBundle
    BY <1>0, <1>1 DEF ThumbnailTypeOK, GeneratorHolds
  <1>3. CASE Goes(g, "previous") /\ UNCHANGED request
    <2>1. /\ generator' \in [Generators -> Handling]
          /\ generator'[g].at = "previous" /\ generator'[g].key = NoBundle
          /\ generator'[g].previous = Previous(g)
          /\ \A h \in Generators \ {g} : generator'[h] = generator[h]
      BY <1>0, <1>2, <1>3, Moves DEF HandlingStages
    <2>2. request' \in [state : {"waiting", "out", "acked", "termed"}, deliveries : Nat]
      BY <1>0, <1>3 DEF ThumbnailTypeOK
    <2> QED
      BY <1>1, <1>2, <2>1, <2>2, QuietStep
  <1>4. CASE Handled(g) /\ Acknowledge
    BY <1>0, <1>1, <1>2, <1>4, HandledWaits, RequestStates, QuietStep
  <1> QED
    BY <1>3, <1>4 DEF Load

LEMMA LoadPreviousKeeps ==
    ASSUME ThumbnailInv, NEW g \in Generators, LoadPrevious(g) PROVE ThumbnailInv'
  <1>0. ThumbnailTypeOK /\ GeneratorHolds(g)
    BY DEF ThumbnailInv
  <1>1. generator[g].at = "previous" /\ UNCHANGED <<row, video, stored, made, timers, purge, leaked, troubles>>
    BY DEF LoadPrevious, Fixed, At
  <1>2. troubles' \in Nat /\ Key(g) = NoBundle
    BY <1>0, <1>1 DEF ThumbnailTypeOK, GeneratorHolds
  <1>3. CASE /\ row.status # "ready" /\ UNCHANGED request
             /\ generator' = [generator EXCEPT ![g].at = "mark", ![g].previous = row]
    <2>1. generator[g] \in Handling /\ row \in ThumbnailRow
      BY <1>0 DEF ThumbnailTypeOK
    <2> DEFINE r == [generator[g] EXCEPT !.at = "mark", !.previous = row]
    <2>2. r \in Handling /\ r.at = "mark" /\ r.key = generator[g].key /\ r.previous = row
      BY <2>1 DEF Handling, HandlingStages
    <2>3. generator' = [generator EXCEPT ![g] = r]
      BY <1>3
    <2> HIDE DEF r
    <2>4. /\ generator' \in [Generators -> Handling] /\ generator'[g] = r
          /\ \A h \in Generators \ {g} : generator'[h] = generator[h]
      BY <1>0, <2>2, <2>3 DEF ThumbnailTypeOK
    <2>5. request' \in [state : {"waiting", "out", "acked", "termed"}, deliveries : Nat]
      BY <1>0, <1>3 DEF ThumbnailTypeOK
    <2> QED
      BY <1>1, <1>2, <1>3, <2>2, <2>4, <2>5, QuietStep DEF Key
  <1>4. CASE Handled(g) /\ Acknowledge
    BY <1>0, <1>1, <1>2, <1>4, HandledWaits, RequestStates, QuietStep
  <1> QED
    BY <1>3, <1>4 DEF LoadPrevious

LEMMA MarkGeneratingKeeps ==
    ASSUME ThumbnailInv, NEW g \in Generators, MarkGenerating(g) PROVE ThumbnailInv'
  <1>0. ThumbnailTypeOK /\ GeneratorHolds(g)
    BY DEF ThumbnailInv
  <1>1. generator[g].at = "mark" /\ UNCHANGED <<video, stored, made, timers, purge, leaked, troubles>>
    BY DEF MarkGenerating, Fixed, At
  <1>2. troubles' \in Nat /\ Key(g) = NoBundle
    BY <1>0, <1>1 DEF ThumbnailTypeOK, GeneratorHolds
  <1>3. CASE /\ video # "gone"
             /\ row' = [status |-> "generating", key |-> IF row = NoRow THEN Previous(g).key ELSE row.key]
             /\ Goes(g, "render") /\ UNCHANGED request
    <2>1. /\ generator' \in [Generators -> Handling]
          /\ generator'[g].at = "render" /\ generator'[g].key = NoBundle
          /\ generator'[g].previous = Previous(g)
          /\ \A h \in Generators \ {g} : generator'[h] = generator[h]
      BY <1>0, <1>2, <1>3, Moves DEF HandlingStages
    <2>2. request' \in [state : {"waiting", "out", "acked", "termed"}, deliveries : Nat]
      BY <1>0, <1>3 DEF ThumbnailTypeOK
    <2> QED
      BY <1>1, <1>2, <1>3, <2>1, <2>2, QuietStep
  <1>4. CASE UNCHANGED row /\ Handled(g) /\ NakOrTerm(g)
    <2>1. /\ generator' \in [Generators -> Handling]
          /\ generator'[g].at = "idle" /\ generator'[g].key = NoBundle /\ generator'[g].previous = NoRow
          /\ \A h \in Generators \ {g} : generator'[h] = generator[h]
      BY <1>0, <1>4, HandledWaits
    <2>2. request' \in [state : {"waiting", "out", "acked", "termed"}, deliveries : Nat]
      BY <1>0, <1>4, RequestStates
    <2> QED
      BY <1>1, <1>2, <1>4, <2>1, <2>2, QuietStep
  <1> QED
    BY <1>3, <1>4 DEF MarkGenerating

LEMMA TroubleCounts == ASSUME ThumbnailTypeOK, Trouble PROVE troubles' \in Nat
  BY DEF ThumbnailTypeOK, Trouble

\* The bundle a render makes has a key that nothing has yet.
LEMMA RenderMakes ==
    ASSUME ThumbnailInv, NEW g \in Generators, At(g, "render"),
           made < MaxBundles, made' = made + 1, stored' = stored \cup {made'},
           generator' = [generator EXCEPT ![g].at = "store", ![g].key = made'],
           UNCHANGED <<troubles, video, purge, row, request, timers, leaked>>
    PROVE  ThumbnailInv'
  <1>1. /\ ThumbnailTypeOK /\ KeysAreMade /\ RowHolds /\ (\A h \in Generators : GeneratorHolds(h))
        /\ \A k \in stored : Owned(k)
    BY DEF ThumbnailInv
  <1>2. UNCHANGED <<troubles, video, purge, row, request, timers, leaked>>
    OBVIOUS
  <1>3. /\ made \in Nat /\ made' \in 0..MaxBundles /\ made' \in Bundles /\ made' # NoBundle
        /\ made < made' /\ made' = made + 1
    BY <1>1, BundlesAssumption DEF ThumbnailTypeOK, Bundles, NoBundle
  <1>4. generator[g] \in Handling
    BY <1>1 DEF ThumbnailTypeOK
  <1> DEFINE r == [generator[g] EXCEPT !.at = "store", !.key = made']
  <1>5. r \in Handling /\ r.at = "store" /\ r.key = made' /\ r.previous = Previous(g)
    BY <1>3, <1>4 DEF Handling, HandlingStages, Previous
  <1>6. generator' = [generator EXCEPT ![g] = r]
    OBVIOUS
  <1> HIDE DEF r
  <1>7. /\ generator' \in [Generators -> Handling] /\ generator'[g] = r
        /\ \A h \in Generators \ {g} : generator'[h] = generator[h]
    <2>1. generator \in [Generators -> Handling]
      BY <1>1 DEF ThumbnailTypeOK
    <2>2. r \in Handling
      BY <1>5
    <2> QED
      BY <1>6, <2>1, <2>2
  <1>8. ThumbnailTypeOK'
    <2>1. stored' \subseteq Bundles
      BY <1>1, <1>3 DEF ThumbnailTypeOK
    <2> QED
      BY <1>1, <1>2, <1>3, <1>7, <2>1 DEF ThumbnailTypeOK
  <1>9. /\ \A k \in stored : k \in Nat /\ k <= made
        /\ row.key \in Nat /\ row.key <= made /\ purge.key \in Nat /\ purge.key <= made
        /\ \A t \in timers : t[2] \in Nat /\ t[2] <= made
        /\ \A h \in Generators : /\ Key(h) \in Nat /\ Key(h) <= made
                                 /\ Previous(h).key \in Nat /\ Previous(h).key <= made
    <2>1. \A k \in stored : k \in Nat
      BY <1>1, BundlesAssumption DEF ThumbnailTypeOK, Bundles
    <2>2. row.key \in Nat /\ purge.key \in Nat
      BY <1>1, BundlesAssumption DEF ThumbnailTypeOK, ThumbnailRow
    <2>3. \A t \in timers : t[2] \in Nat
      BY <1>1, BundlesAssumption DEF ThumbnailTypeOK, Bundles
    <2>4. \A h \in Generators : Key(h) \in Nat /\ Previous(h).key \in Nat
      BY <1>1, BundlesAssumption DEF ThumbnailTypeOK, Handling, ThumbnailRow, Key, Previous
    <2> QED
      BY <1>1, <2>1, <2>2, <2>3, <2>4 DEF KeysAreMade
  <1>10. KeysAreMade'
    <2>1. \A k \in stored' : k <= made'
      BY <1>3, <1>9
    <2>2. row.key <= made' /\ purge.key <= made' /\ \A t \in timers : t[2] <= made'
      BY <1>3, <1>9
    <2>3. \A h \in Generators : generator'[h].key <= made' /\ generator'[h].previous.key <= made'
      <3>1. generator'[g].key <= made' /\ generator'[g].previous.key <= made'
        <4>1. generator'[g].key = made' /\ generator'[g].previous.key = Previous(g).key
          BY <1>5, <1>7
        <4>2. Previous(g).key \in Nat /\ Previous(g).key <= made
          BY <1>9
        <4> QED
          BY <1>3, <4>1, <4>2
      <3>2. \A h \in Generators \ {g} : generator'[h].key <= made' /\ generator'[h].previous.key <= made'
        BY <1>3, <1>7, <1>9 DEF Key, Previous
      <3> QED
        BY <3>1, <3>2
    <2> QED
      BY <1>2, <2>1, <2>2, <2>3 DEF KeysAreMade, Key, Previous
  <1>11. \A k \in Nat : k <= made /\ Settled(k) => Settled(k)'
    <2>1. \A k \in Nat : k <= made => k # made'
      BY <1>3
    <2>2. \A k : Settled(k) /\ k # made' => Settled(k)'
      BY <1>5, <1>7 DEF Settled, At, Key
    <2> QED
      BY <2>1, <2>2
  <1>12. \A k \in Nat : k <= made /\ Retired(k) => Retired(k)'
    BY <1>2, <1>11 DEF Retired
  <1>13. RowHolds'
    <2>1. Settled(row.key)' /\ Settled(purge.key)'
      <3>1. PICK k, l : k = row.key /\ l = purge.key
        OBVIOUS
      <3>2. Settled(k)' /\ Settled(l)'
        BY <1>1, <1>9, <1>11, <3>1 DEF RowHolds
      <3> QED
        BY <1>2, <3>1, <3>2 DEF Settled
    <2>2. \A t \in timers : Retired(t[2])'
      <3> SUFFICES ASSUME NEW t \in timers PROVE Retired(t[2])'
        OBVIOUS
      <3> DEFINE k == t[2]
      <3>1. Retired(k) /\ k \in Nat /\ k <= made
        BY <1>1, <1>9 DEF RowHolds
      <3> HIDE DEF k
      <3>2. Retired(k)'
        BY <1>12, <3>1
      <3> QED
        BY <3>2 DEF k
    <2>3. row'.status = "ready" => row'.key \in stored'
      BY <1>1, <1>2 DEF RowHolds
    <2>4. video' = "gone" => row' = NoRow
      BY <1>1, <1>2 DEF RowHolds
    <2> QED
      BY <1>2, <2>1, <2>2, <2>3, <2>4 DEF RowHolds
  <1>14. ASSUME NEW h \in Generators PROVE GeneratorHolds(h)'
    <2>0. Retired(Previous(h).key)'
      <3>1. PICK k : k = Previous(h).key
        OBVIOUS
      <3>2. Retired(k)'
        BY <1>1, <1>9, <1>12, <3>1 DEF GeneratorHolds
      <3>3. generator'[h].previous.key = k
        BY <1>5, <1>7, <3>1 DEF Previous
      <3> QED
        BY <3>2, <3>3 DEF Retired, Settled, Previous
    <2>1. CASE h = g
      <3>1. \A f \in Generators \ {g} : generator'[f].key # made'
        BY <1>3, <1>7, <1>9 DEF Key
      <3>2. Previous(g).key # made'
        BY <1>3, <1>9
      <3> QED
        BY <1>5, <1>7, <2>0, <2>1, <3>1, <3>2 DEF GeneratorHolds, At, Key, Previous
    <2>2. CASE h # g
      <3>1. generator'[h] = generator[h] /\ GeneratorHolds(h)
        BY <1>1, <1>7, <2>2
      <3>2. \A f \in Generators : generator'[f].key = generator'[h].key /\ f # h => generator'[h].key = NoBundle
        <4>1. generator'[g].key # generator'[h].key
          BY <1>3, <1>5, <1>7, <1>9, <3>1 DEF Key
        <4> QED
          BY <1>7, <3>1, <4>1 DEF GeneratorHolds, Key
      <3>3. generator'[h].at = "store" => generator'[h].key \in stored'
        BY <3>1 DEF GeneratorHolds, At, Key
      <3>4. /\ generator'[h].at \in {"idle", "load", "previous", "mark", "render"} => generator'[h].key = NoBundle
            /\ generator'[h].key # NoBundle => generator'[h].key # generator'[h].previous.key
        BY <3>1 DEF GeneratorHolds, Key, Previous
      <3> QED
        BY <2>0, <3>2, <3>3, <3>4 DEF GeneratorHolds, At, Key, Previous
    <2> QED
      BY <2>1, <2>2
  <1>15. ASSUME NEW k \in stored' PROVE Owned(k)'
    <2>1. CASE k = made'
      BY <1>5, <1>7, <2>1 DEF Owned, Key
    <2>2. CASE k \in stored
      <3>1. Owned(k)
        BY <1>1, <2>2
      <3>2. \A f \in Generators :
              generator[f].at \in {"store", "fail", "stored"} => f # g /\ generator'[f] = generator[f]
        BY <1>7 DEF At
      <3> QED
        BY <1>2, <3>1, <3>2 DEF Owned, At, Key, Previous
    <2> QED
      BY <2>1, <2>2
  <1> QED
    BY <1>8, <1>10, <1>13, <1>14, <1>15 DEF ThumbnailInv

LEMMA RenderKeeps ==
    ASSUME ThumbnailInv, NEW g \in Generators, Render(g) PROVE ThumbnailInv'
  <1>0. ThumbnailTypeOK /\ GeneratorHolds(g)
    BY DEF ThumbnailInv
  <1>1. generator[g].at = "render" /\ UNCHANGED <<video, purge, row, request, timers, leaked>>
    BY DEF Render, At
  <1>2. CASE /\ made < MaxBundles
             /\ made' = made + 1 /\ stored' = stored \cup {made'}
             /\ generator' = [generator EXCEPT ![g].at = "store", ![g].key = made']
             /\ UNCHANGED troubles
    BY <1>1, <1>2, RenderMakes DEF At
  <1>3. CASE Trouble /\ Goes(g, "fail") /\ UNCHANGED <<made, stored>>
    <2>1. /\ generator' \in [Generators -> Handling]
          /\ generator'[g].at = "fail" /\ generator'[g].key = NoBundle
          /\ generator'[g].previous = Previous(g)
          /\ \A h \in Generators \ {g} : generator'[h] = generator[h]
      BY <1>0, <1>1, <1>3, Moves DEF HandlingStages, GeneratorHolds
    <2>2. /\ request' \in [state : {"waiting", "out", "acked", "termed"}, deliveries : Nat]
          /\ troubles' \in Nat
      BY <1>0, <1>1, <1>3, TroubleCounts DEF ThumbnailTypeOK
    <2> QED
      BY <1>1, <1>3, <2>1, <2>2, QuietStep
  <1> QED
    BY <1>2, <1>3 DEF Render

\* The bundle and the row are written, or may have been.
LEMMA StoreWrites ==
    ASSUME ThumbnailInv, NEW g \in Generators, At(g, "store"),
           NEW at \in {"stored", "fail"}, Goes(g, at),
           \/ row' = row /\ at = "fail"
           \/ row' = Written(g) /\ Real(Unnamed(g)) \subseteq leaked'
                /\ (at = "fail" => Real({Previous(g).key}) \subseteq leaked'),
           leaked \subseteq leaked', leaked' \subseteq Bundles, troubles' \in Nat,
           UNCHANGED <<stored, request, timers, video, made, purge>>
    PROVE  ThumbnailInv'
  <1>1. /\ ThumbnailTypeOK /\ KeysAreMade /\ RowHolds /\ (\A h \in Generators : GeneratorHolds(h))
        /\ \A k \in stored : Owned(k) /\ k # NoBundle
    BY NoBundleIsRetired DEF ThumbnailInv
  <1>2. UNCHANGED <<stored, request, timers, video, made, purge>> /\ leaked \subseteq leaked' /\ leaked' \subseteq Bundles
    OBVIOUS
  <1>3. /\ generator' \in [Generators -> Handling]
        /\ generator'[g].at = at /\ generator'[g].key = Key(g) /\ generator'[g].previous = Previous(g)
        /\ \A h \in Generators \ {g} : generator'[h] = generator[h]
    BY <1>1, Moves DEF HandlingStages
  <1>4. /\ Key(g) \in stored /\ Key(g) # NoBundle /\ Key(g) \in 0..MaxBundles /\ Key(g) <= made
        /\ \A h \in Generators \ {g} : Key(h) # Key(g)
    BY <1>1 DEF GeneratorHolds, ThumbnailTypeOK, Handling, Key, KeysAreMade
  <1>5. /\ row' \in ThumbnailRow
        /\ row' = row \/ (row # NoRow /\ row'.status = "ready" /\ row'.key = Key(g)) \/ (row = NoRow /\ row' = NoRow)
    <2>1. [status |-> "ready", key |-> Key(g)] \in ThumbnailRow
      BY <1>4 DEF ThumbnailRow
    <2> QED
      BY <1>1, <2>1, NoRowIsARow DEF Written, ThumbnailTypeOK
  <1>6. row = NoRow => row' = NoRow
    BY <1>5
  <1>7. \A k : Settled(k) => Settled(k)'
    BY <1>3 DEF Settled, At, Key
  <1>8. \A k : Retired(k) => Retired(k)'
    <2>1. \A k : Settled(k) => Key(g) # k
      BY DEF Settled
    <2> QED
      BY <1>5, <1>7, <2>1, NoRowIsARow DEF Retired
  <1>9. ThumbnailTypeOK'
    BY <1>1, <1>2, <1>3, <1>5 DEF ThumbnailTypeOK
  <1>10. KeysAreMade'
    <2>1. row'.key <= made
      BY <1>1, <1>4, <1>5 DEF KeysAreMade
    <2>2. \A h \in Generators : generator'[h].key <= made /\ generator'[h].previous.key <= made
      BY <1>1, <1>3 DEF KeysAreMade, Key, Previous
    <2> QED
      BY <1>1, <1>2, <2>1, <2>2 DEF KeysAreMade, Key, Previous
  <1>11. RowHolds'
    <2>1. row'.status = "ready" => row'.key \in stored
      BY <1>1, <1>4, <1>5, NoRowIsARow DEF RowHolds
    <2>2. video' = "gone" => row' = NoRow
      BY <1>1, <1>2, <1>6 DEF RowHolds
    <2>3. Settled(row.key)'
      <3>1. CASE row' = row
        <4>1. PICK k : k = row.key
          OBVIOUS
        <4>2. Settled(k)'
          BY <1>1, <1>7, <4>1 DEF RowHolds
        <4> QED
          BY <3>1, <4>1, <4>2 DEF Settled
      <3>2. CASE row'.key = Key(g)
        <4>1. \A h \in Generators : generator'[h].at = "store" => generator'[h].key # Key(g)
          BY <1>3, <1>4 DEF Key
        <4> QED
          BY <3>2, <4>1 DEF Settled, At, Key
      <3>3. CASE row = NoRow /\ row' = NoRow
        BY <3>1, <3>3
      <3> QED
        BY <1>5, <3>1, <3>2, <3>3
    <2>4. Settled(purge.key)'
      <3>1. PICK k : k = purge.key
        OBVIOUS
      <3>2. Settled(k)'
        BY <1>1, <1>7, <3>1 DEF RowHolds
      <3> QED
        BY <1>2, <3>1, <3>2 DEF Settled
    <2>5. \A t \in timers : Retired(t[2])'
      <3> SUFFICES ASSUME NEW t \in timers PROVE Retired(t[2])'
        OBVIOUS
      <3> DEFINE k == t[2]
      <3>1. Retired(k)
        BY <1>1 DEF RowHolds
      <3> HIDE DEF k
      <3>2. Retired(k)'
        BY <1>8, <3>1
      <3> QED
        BY <3>2 DEF k
    <2> QED
      BY <1>2, <2>1, <2>2, <2>3, <2>4, <2>5 DEF RowHolds
  <1>12. ASSUME NEW h \in Generators PROVE GeneratorHolds(h)'
    <2>1. GeneratorHolds(h) /\ generator'[h].key = Key(h) /\ generator'[h].previous = Previous(h)
      BY <1>1, <1>3 DEF Key, Previous
    <2>2. Retired(Previous(h).key)'
      <3>1. PICK k : k = Previous(h).key
        OBVIOUS
      <3>2. Retired(k)'
        BY <1>8, <2>1, <3>1 DEF GeneratorHolds
      <3> QED
        BY <2>1, <3>1, <3>2 DEF Retired, Settled, Previous
    <2>3. /\ generator'[h].at = "store" => generator[h].at = "store"
          /\ generator'[h].at \in {"idle", "load", "previous", "mark", "render"} => generator[h].at = generator'[h].at
      BY <1>3
    <2>4. \A f \in Generators : generator'[f].key = Key(f)
      BY <1>3 DEF Key
    <2>5. generator'[h].at = "store" => generator'[h].key \in stored'
      BY <1>2, <2>1, <2>3 DEF GeneratorHolds, At
    <2>6. \A f \in Generators : generator'[f].key = generator'[h].key /\ f # h => generator'[h].key = NoBundle
      BY <2>1, <2>4 DEF GeneratorHolds
    <2>7. /\ generator'[h].at \in {"idle", "load", "previous", "mark", "render"} => generator'[h].key = NoBundle
          /\ generator'[h].key # NoBundle => generator'[h].key # generator'[h].previous.key
      BY <2>1, <2>3 DEF GeneratorHolds
    <2> QED
      BY <2>2, <2>5, <2>6, <2>7 DEF GeneratorHolds, At, Key, Previous
  <1>13. ASSUME NEW k \in stored' PROVE Owned(k)'
    <2>1. Owned(k) /\ k # NoBundle
      BY <1>1, <1>2
    <2>2. CASE k = row.key
      <3>1. CASE row' = row
        BY <2>2, <3>1 DEF Owned
      <3>2. CASE row' # row
        <4>1. /\ row' = Written(g) /\ Real(Unnamed(g)) \subseteq leaked'
              /\ at = "fail" => Real({Previous(g).key}) \subseteq leaked'
          BY <3>2
        <4>2. row # NoRow
          BY <2>1, <2>2, NoRowIsARow
        <4>3. CASE k # Previous(g).key
          <5>1. k \in Real(Unnamed(g))
            BY <2>1, <2>2, <4>2, <4>3 DEF Real, Unnamed
          <5> QED
            BY <4>1, <5>1 DEF Owned
        <4>4. CASE k = Previous(g).key /\ at = "fail"
          <5>1. k \in Real({Previous(g).key})
            BY <2>1, <4>4 DEF Real
          <5> QED
            BY <4>1, <4>4, <5>1 DEF Owned
        <4>5. CASE k = Previous(g).key /\ at = "stored"
          BY <1>3, <4>5 DEF Owned, At, Previous
        <4> QED
          BY <4>3, <4>4, <4>5
      <3> QED
        BY <3>1, <3>2
    <2>3. CASE k = Key(g)
      <3>1. CASE at = "fail"
        BY <1>3, <2>3, <3>1 DEF Owned, Key
      <3>2. CASE at = "stored"
        <4>1. row' = Written(g) /\ Real(Unnamed(g)) \subseteq leaked'
          BY <3>2
        <4>2. CASE row = NoRow
          <5>1. k \in Real(Unnamed(g))
            BY <2>1, <2>3, <4>2 DEF Real, Unnamed
          <5> QED
            BY <4>1, <5>1 DEF Owned
        <4>3. CASE row # NoRow
          <5>1. row'.key = k
            BY <2>3, <4>1, <4>3 DEF Written
          <5> QED
            BY <5>1 DEF Owned
        <4> QED
          BY <4>2, <4>3
      <3> QED
        BY <3>1, <3>2
    <2>4. CASE k \in leaked \/ \E t \in timers : t[2] = k
      BY <1>2, <2>4 DEF Owned
    <2>5. CASE \E f \in Generators \ {g} : \/ generator[f].at \in {"store", "fail"} /\ Key(f) = k
                                           \/ At(f, "stored") /\ Previous(f).key = k
      BY <1>3, <2>5 DEF Owned, At, Key, Previous
    <2> QED
      BY <2>1, <2>2, <2>3, <2>4, <2>5 DEF Owned, At
  <1> QED
    BY <1>9, <1>10, <1>11, <1>12, <1>13 DEF ThumbnailInv

LEMMA StoreKeeps ==
    ASSUME ThumbnailInv, NEW g \in Generators, Store(g) PROVE ThumbnailInv'
  <1>1. /\ At(g, "store") /\ UNCHANGED <<stored, request, timers, video, made, purge>>
        /\ \/ /\ row' = Written(g) /\ Leak(Unnamed(g)) /\ Goes(g, "stored") /\ UNCHANGED troubles
           \/ /\ Trouble /\ Goes(g, "fail")
              /\ \/ UNCHANGED <<row, leaked>>
                 \/ row' = Written(g) /\ Leak(Unnamed(g) \cup {Previous(g).key})
    BY DEF Store, Fixed
  <1>2. ThumbnailTypeOK /\ troubles \in Nat /\ leaked \subseteq Bundles
    BY DEF ThumbnailInv, ThumbnailTypeOK
  <1>3. Real(Unnamed(g)) \subseteq Bundles /\ Real({Previous(g).key}) \subseteq Bundles
    <2>1. row.key \in 0..MaxBundles /\ Key(g) \in 0..MaxBundles /\ Previous(g).key \in 0..MaxBundles
      BY <1>2 DEF ThumbnailTypeOK, ThumbnailRow, Handling, Key, Previous
    <2>2. \A k \in 0..MaxBundles : k # NoBundle => k \in Bundles
      BY BundlesAssumption DEF Bundles, NoBundle
    <2> QED
      BY <2>1, <2>2 DEF Real, Unnamed
  <1>4. CASE row' = Written(g) /\ Leak(Unnamed(g)) /\ Goes(g, "stored") /\ UNCHANGED troubles
    <2>1. leaked' = leaked \cup Real(Unnamed(g))
      BY <1>4 DEF Leak
    <2> QED
      BY <1>1, <1>2, <1>3, <1>4, <2>1, StoreWrites
  <1>5. CASE Trouble /\ Goes(g, "fail") /\ UNCHANGED <<row, leaked>>
    BY <1>1, <1>2, <1>5, TroubleCounts, StoreWrites
  <1>6. CASE Trouble /\ Goes(g, "fail") /\ row' = Written(g) /\ Leak(Unnamed(g) \cup {Previous(g).key})
    <2>1. leaked' = leaked \cup Real(Unnamed(g)) \cup Real({Previous(g).key})
      BY <1>6 DEF Leak, Real
    <2>2. troubles' \in Nat
      BY <1>2, <1>6, TroubleCounts
    <2> QED
      BY <1>1, <1>2, <1>3, <1>6, <2>1, <2>2, StoreWrites
  <1> QED
    BY <1>1, <1>4, <1>5, <1>6

\* A step that makes nothing: what it lets go of is on a timer, or is left.
LEMMA Releases ==
    ASSUME ThumbnailInv, ThumbnailTypeOK',
           \A g \in Generators :
              \/ generator'[g] = generator[g] /\ (At(g, "store") => Key(g) \in stored')
              \/ /\ generator'[g].at = "idle" /\ generator'[g].key = NoBundle
                 /\ generator'[g].previous = NoRow,
           row' = NoRow \/ (row'.key = row.key /\ video' # "gone"),
           row'.status = "ready" => row' = row /\ row.key \in stored',
           stored' \subseteq stored, made' = made,
           purge'.key \in {purge.key, row.key, NoBundle},
           \A t \in timers' : t[2] <= made /\ Retired(t[2])',
           \A k \in stored' : Owned(k)'
    PROVE  ThumbnailInv'
  <1>1. /\ ThumbnailTypeOK /\ KeysAreMade /\ RowHolds /\ (\A g \in Generators : GeneratorHolds(g))
        /\ Retired(NoBundle)
    BY NoBundleIsRetired DEF ThumbnailInv
  <1>2. \A g \in Generators : generator'[g].at = "store" => generator'[g] = generator[g] /\ At(g, "store")
    BY DEF At
  <1>3. \A k : Settled(k) => Settled(k)'
    BY <1>2 DEF Settled, At, Key
  <1>4. \A k : Retired(k) => Retired(k)'
    BY <1>3 DEF Retired
  <1>5. made \in Nat /\ NoBundle <= made
    BY <1>1, BundlesAssumption DEF ThumbnailTypeOK, NoBundle
  <1>6. KeysAreMade'
    <2>1. row'.key <= made /\ purge'.key <= made
      BY <1>1, <1>5, NoRowIsARow DEF KeysAreMade
    <2>2. \A g \in Generators : generator'[g].key <= made /\ generator'[g].previous.key <= made
      BY <1>1, <1>5, NoRowIsARow DEF KeysAreMade, Key, Previous
    <2>3. \A k \in stored' : k <= made
      BY <1>1 DEF KeysAreMade
    <2>4. \A t \in timers' : t[2] <= made
      OBVIOUS
    <2>5. made' = made
      OBVIOUS
    <2> QED
      BY <2>1, <2>2, <2>3, <2>4, <2>5 DEF KeysAreMade, Key, Previous
  <1>7. RowHolds'
    <2>1. row'.status = "ready" => row'.key \in stored'
      OBVIOUS
    <2>2. video' = "gone" => row' = NoRow
      OBVIOUS
    <2>3. Settled(row.key)'
      <3>1. PICK k : k = row'.key
        OBVIOUS
      <3>2. Settled(k)
        BY <1>1, <3>1, NoRowIsARow DEF RowHolds, Retired
      <3>3. Settled(k)'
        BY <1>3, <3>2
      <3> QED
        BY <3>1, <3>3 DEF Settled
    <2>4. Settled(purge.key)'
      <3>1. PICK k : k = purge'.key
        OBVIOUS
      <3>2. Settled(k)
        BY <1>1, <3>1 DEF RowHolds, Retired
      <3>3. Settled(k)'
        BY <1>3, <3>2
      <3> QED
        BY <3>1, <3>3 DEF Settled
    <2>5. (\A t \in timers : Retired(t[2]))'
      OBVIOUS
    <2> QED
      BY <2>1, <2>2, <2>3, <2>4, <2>5 DEF RowHolds
  <1>8. ASSUME NEW g \in Generators PROVE GeneratorHolds(g)'
    <2>1. CASE generator'[g] = generator[g] /\ (At(g, "store") => Key(g) \in stored')
      <3>1. Retired(Previous(g).key)'
        <4>1. PICK k : k = Previous(g).key
          OBVIOUS
        <4>2. Retired(k)'
          BY <1>1, <1>4, <4>1 DEF GeneratorHolds
        <4> QED
          BY <2>1, <4>1, <4>2 DEF Retired, Settled, Previous
      <3>2. \A h \in Generators : generator'[h].key = generator'[g].key /\ h # g => generator'[g].key = NoBundle
        BY <1>1, <2>1 DEF GeneratorHolds, Key
      <3>3. GeneratorHolds(g)
        BY <1>1
      <3> QED
        BY <2>1, <3>1, <3>2, <3>3 DEF GeneratorHolds, At, Key, Previous
    <2>2. CASE /\ generator'[g].at = "idle" /\ generator'[g].key = NoBundle
               /\ generator'[g].previous = NoRow
      <3>1. Retired(NoBundle)'
        BY <1>1, <1>4
      <3>2. Retired(Previous(g).key)'
        BY <2>2, <3>1, NoRowIsARow DEF Retired, Settled, Previous
      <3> QED
        BY <2>2, <3>2 DEF GeneratorHolds, At, Key, Previous
    <2> QED
      BY <2>1, <2>2
  <1>9. (\A k \in stored : Owned(k))'
    OBVIOUS
  <1> QED
    BY <1>6, <1>7, <1>8, <1>9 DEF ThumbnailInv

\* The bundles a process has a key for may go on a timer.
LEMMA KeysAreBundles ==
    ASSUME ThumbnailTypeOK
    PROVE  /\ Real({row.key}) \subseteq Bundles /\ Real({purge.key}) \subseteq Bundles
           /\ \A g \in Generators : Real({Key(g)}) \subseteq Bundles /\ Real({Previous(g).key}) \subseteq Bundles
  <1>1. \A k \in 0..MaxBundles : Real({k}) \subseteq Bundles
    BY BundlesAssumption DEF Bundles, NoBundle, Real
  <1>2. row.key \in 0..MaxBundles /\ purge.key \in 0..MaxBundles
    BY DEF ThumbnailTypeOK, ThumbnailRow
  <1>3. \A g \in Generators : Key(g) \in 0..MaxBundles /\ Previous(g).key \in 0..MaxBundles
    BY DEF ThumbnailTypeOK, ThumbnailRow, Handling, Key, Previous
  <1> QED
    BY <1>1, <1>2, <1>3

LEMMA FinishKeeps ==
    ASSUME ThumbnailInv, NEW g \in Generators, Finish(g) PROVE ThumbnailInv'
  <1>1. /\ ThumbnailTypeOK /\ KeysAreMade /\ RowHolds /\ (\A h \in Generators : GeneratorHolds(h))
        /\ \A k \in stored : Owned(k) /\ k # NoBundle
    BY NoBundleIsRetired DEF ThumbnailInv
  <1>2. /\ At(g, "stored") /\ DeleteLater(g, {Previous(g).key} \ {Key(g)}) /\ Handled(g)
        /\ UNCHANGED <<row, stored, leaked, video, made, purge>>
    BY DEF Finish, Fixed
  <1>3. /\ request' \in [state : {"waiting", "out", "acked", "termed"}, deliveries : Nat]
        /\ troubles' \in Nat
    <2>1. CASE Acknowledge /\ UNCHANGED troubles
      BY <1>1, <2>1, RequestStates DEF ThumbnailTypeOK
    <2>2. CASE /\ Trouble
               /\ request' = IF request.state = "acked" THEN request ELSE [request EXCEPT !.state = "waiting"]
      BY <1>1, <2>2, TroubleCounts DEF ThumbnailTypeOK
    <2> QED
      BY <2>1, <2>2 DEF Finish
  <1>4. /\ generator' \in [Generators -> Handling]
        /\ generator'[g].at = "idle" /\ generator'[g].key = NoBundle /\ generator'[g].previous = NoRow
        /\ \A h \in Generators \ {g} : generator'[h] = generator[h]
    BY <1>1, <1>2, HandledWaits
  <1>5. timers' = timers \cup ({g} \X Real({Previous(g).key} \ {Key(g)}))
    BY <1>2 DEF DeleteLater
  <1>6. /\ \A t \in timers' : t \in timers \/ (t[2] = Previous(g).key /\ t \in (Generators \cup {"worker"}) \X Bundles)
        /\ \A k \in Real({Previous(g).key} \ {Key(g)}) : <<g, k>> \in timers' /\ <<g, k>>[2] = k
    BY <1>1, <1>5, KeysAreBundles DEF Real
  <1>7. ThumbnailTypeOK'
    <2>1. timers' \subseteq (Generators \cup {"worker"}) \X Bundles
      BY <1>1, <1>6 DEF ThumbnailTypeOK
    <2> QED
      BY <1>1, <1>2, <1>3, <1>4, <2>1 DEF ThumbnailTypeOK
  <1>8. \A k : Retired(k) => Retired(k)'
    BY <1>2, <1>4 DEF Retired, Settled, At, Key
  <1>9. \A t \in timers' : t[2] <= made /\ Retired(t[2])'
    <2> SUFFICES ASSUME NEW t \in timers' PROVE t[2] <= made /\ Retired(t[2])'
      OBVIOUS
    <2>1. PICK k : k = t[2]
      OBVIOUS
    <2>2. k <= made /\ Retired(k)
      BY <1>1, <1>6, <2>1 DEF KeysAreMade, RowHolds, GeneratorHolds
    <2>3. Retired(k)'
      BY <1>8, <2>2
    <2> QED
      BY <2>1, <2>2, <2>3
  <1>10. ASSUME NEW k \in stored' PROVE Owned(k)'
    <2>1. Owned(k) /\ k # NoBundle
      BY <1>1, <1>2
    <2>2. CASE At(g, "stored") /\ Previous(g).key = k
      <3>1. k # Key(g)
        BY <1>1, <2>1, <2>2 DEF GeneratorHolds
      <3>2. k \in Real({Previous(g).key} \ {Key(g)})
        BY <2>1, <2>2, <3>1 DEF Real
      <3> QED
        BY <1>6, <3>2 DEF Owned
    <2>3. CASE \E f \in Generators \ {g} : \/ generator[f].at \in {"store", "fail"} /\ Key(f) = k
                                           \/ At(f, "stored") /\ Previous(f).key = k
      BY <1>4, <2>3 DEF Owned, At, Key, Previous
    <2>4. CASE k = row.key \/ k \in leaked \/ \E t \in timers : t[2] = k
      <3>1. timers \subseteq timers'
        BY <1>5
      <3> QED
        BY <1>2, <2>4, <3>1 DEF Owned
    <2>5. generator[g].at \notin {"store", "fail"}
      BY <1>2 DEF At
    <2> QED
      BY <2>1, <2>2, <2>3, <2>4, <2>5 DEF Owned
  <1>11. \A h \in Generators :
            \/ generator'[h] = generator[h] /\ (At(h, "store") => Key(h) \in stored')
            \/ /\ generator'[h].at = "idle" /\ generator'[h].key = NoBundle
               /\ generator'[h].previous = NoRow
    BY <1>1, <1>2, <1>4 DEF GeneratorHolds
  <1>12. /\ row' = NoRow \/ (row'.key = row.key /\ video' # "gone")
         /\ row'.status = "ready" => row' = row /\ row.key \in stored'
         /\ stored' \subseteq stored /\ made' = made /\ purge'.key \in {purge.key, row.key, NoBundle}
    BY <1>1, <1>2 DEF RowHolds
  <1> QED
    BY <1>7, <1>9, <1>10, <1>11, <1>12, Releases

LEMMA FailKeeps ==
    ASSUME ThumbnailInv, NEW g \in Generators, Fail(g) PROVE ThumbnailInv'
  <1>1. /\ ThumbnailTypeOK /\ KeysAreMade /\ RowHolds /\ (\A h \in Generators : GeneratorHolds(h))
        /\ \A k \in stored : Owned(k) /\ k # NoBundle
    BY NoBundleIsRetired DEF ThumbnailInv
  <1>2. /\ At(g, "fail") /\ NakOrTerm(g) /\ Handled(g)
        /\ UNCHANGED <<stored, video, made, purge>>
        /\ \/ /\ row' = IF row = NoRow THEN NoRow ELSE [row EXCEPT !.status = "failed"]
              /\ DeleteLater(g, {Key(g)}) /\ UNCHANGED <<leaked, troubles>>
           \/ Trouble /\ Leak({Key(g)}) /\ UNCHANGED <<row, timers>>
    BY DEF Fail, Fixed
  <1>3. request' \in [state : {"waiting", "out", "acked", "termed"}, deliveries : Nat]
    BY <1>1, <1>2, RequestStates
  <1>4. /\ generator' \in [Generators -> Handling]
        /\ generator'[g].at = "idle" /\ generator'[g].key = NoBundle /\ generator'[g].previous = NoRow
        /\ \A h \in Generators \ {g} : generator'[h] = generator[h]
    BY <1>1, <1>2, HandledWaits
  <1>5. \A k : Settled(k) => Settled(k)'
    BY <1>4 DEF Settled, At, Key
  <1>6. \A h \in Generators :
            \/ generator'[h] = generator[h] /\ (At(h, "store") => Key(h) \in stored')
            \/ /\ generator'[h].at = "idle" /\ generator'[h].key = NoBundle
               /\ generator'[h].previous = NoRow
    BY <1>1, <1>2, <1>4 DEF GeneratorHolds
  <1>7. ASSUME NEW k \in stored, k # Key(g),
               row'.key = row.key, leaked \subseteq leaked', timers \subseteq timers'
        PROVE  Owned(k)'
    <2>1. Owned(k)
      BY <1>1
    <2>2. ~ At(g, "stored") /\ UNCHANGED purge
      BY <1>2 DEF At
    <2> QED
      BY <1>4, <1>7, <2>1, <2>2 DEF Owned, At, Key, Previous
  <1>8. CASE /\ row' = IF row = NoRow THEN NoRow ELSE [row EXCEPT !.status = "failed"]
             /\ DeleteLater(g, {Key(g)}) /\ UNCHANGED <<leaked, troubles>>
    <2>1. row \in ThumbnailRow
      BY <1>1 DEF ThumbnailTypeOK
    <2>2. /\ row' \in ThumbnailRow /\ row'.key = row.key /\ row'.status # "ready"
          /\ row = NoRow => row' = NoRow
      BY <1>8, <2>1, NoRowIsARow DEF ThumbnailRow
    <2>3. timers' = timers \cup ({g} \X Real({Key(g)}))
      BY <1>8 DEF DeleteLater
    <2>4. /\ \A t \in timers' : t \in timers \/ (t[2] = Key(g) /\ t[2] # NoBundle /\ t \in (Generators \cup {"worker"}) \X Bundles)
          /\ \A k \in Real({Key(g)}) : <<g, k>> \in timers' /\ <<g, k>>[2] = k
      BY <1>1, <2>3, KeysAreBundles DEF Real
    <2>5. ThumbnailTypeOK'
      <3>1. timers' \subseteq (Generators \cup {"worker"}) \X Bundles
        BY <1>1, <2>4 DEF ThumbnailTypeOK
      <3> QED
        BY <1>1, <1>2, <1>3, <1>4, <1>8, <2>2, <3>1 DEF ThumbnailTypeOK
    <2>6. \A t \in timers' : t[2] <= made /\ Retired(t[2])'
      <3> SUFFICES ASSUME NEW t \in timers' PROVE t[2] <= made /\ Retired(t[2])'
        OBVIOUS
      <3>1. PICK k : k = t[2]
        OBVIOUS
      <3>2. k <= made
        BY <1>1, <2>4, <3>1 DEF KeysAreMade
      <3>3. Settled(k)'
        <4>1. CASE t \in timers
          BY <1>1, <1>5, <3>1, <4>1 DEF RowHolds, Retired
        <4>2. CASE k = Key(g) /\ k # NoBundle
          <5>1. \A h \in Generators \ {g} : generator'[h].key # k
            BY <1>1, <1>4, <4>2 DEF GeneratorHolds, Key
          <5> QED
            BY <1>4, <5>1 DEF Settled, At, Key
        <4> QED
          BY <2>4, <3>1, <4>1, <4>2
      <3>4. Retired(k)'
        BY <2>2, <3>3 DEF Retired
      <3> QED
        BY <3>1, <3>2, <3>4
    <2>7. ASSUME NEW k \in stored' PROVE Owned(k)'
      <3>1. k \in stored /\ k # NoBundle
        BY <1>1, <1>2
      <3>2. CASE k = Key(g)
        <4>1. k \in Real({Key(g)})
          BY <3>1, <3>2 DEF Real
        <4> QED
          BY <2>4, <4>1 DEF Owned
      <3>3. CASE k # Key(g)
        BY <1>7, <1>8, <2>2, <2>3, <3>1, <3>3
      <3> QED
        BY <3>2, <3>3
    <2>8. row' = NoRow \/ (row'.key = row.key /\ video' # "gone")
      BY <1>1, <1>2, <2>2 DEF RowHolds
    <2> QED
      BY <1>2, <1>6, <2>2, <2>5, <2>6, <2>7, <2>8, Releases
  <1>9. CASE Trouble /\ Leak({Key(g)}) /\ UNCHANGED <<row, timers>>
    <2>1. leaked' = leaked \cup Real({Key(g)}) /\ troubles' \in Nat
      BY <1>1, <1>9, TroubleCounts DEF Leak
    <2>2. leaked' \subseteq Bundles
      BY <1>1, <2>1, KeysAreBundles DEF ThumbnailTypeOK
    <2>3. ThumbnailTypeOK'
      BY <1>1, <1>2, <1>3, <1>4, <1>9, <2>1, <2>2 DEF ThumbnailTypeOK
    <2>4. \A k : Retired(k) => Retired(k)'
      BY <1>5, <1>9 DEF Retired
    <2>5. \A t \in timers' : t[2] <= made /\ Retired(t[2])'
      <3> SUFFICES ASSUME NEW t \in timers' PROVE t[2] <= made /\ Retired(t[2])'
        OBVIOUS
      <3>1. PICK k : k = t[2]
        OBVIOUS
      <3>2. k <= made /\ Retired(k)
        BY <1>1, <1>9, <3>1 DEF KeysAreMade, RowHolds
      <3>3. Retired(k)'
        BY <2>4, <3>2
      <3> QED
        BY <3>1, <3>2, <3>3
    <2>6. ASSUME NEW k \in stored' PROVE Owned(k)'
      <3>1. k \in stored /\ k # NoBundle
        BY <1>1, <1>2
      <3>2. CASE k = Key(g)
        BY <2>1, <3>1, <3>2 DEF Owned, Real
      <3>3. CASE k # Key(g)
        BY <1>7, <1>9, <2>1, <3>1, <3>3
      <3> QED
        BY <3>2, <3>3
    <2>7. /\ row' = NoRow \/ (row'.key = row.key /\ video' # "gone")
          /\ row'.status = "ready" => row' = row /\ row.key \in stored'
      BY <1>1, <1>2, <1>9 DEF RowHolds
    <2> QED
      BY <1>2, <1>6, <2>3, <2>5, <2>6, <2>7, Releases
  <1> QED
    BY <1>2, <1>8, <1>9

LEMMA TimerFiresKeeps ==
    ASSUME ThumbnailInv, NEW process \in Generators \cup {"worker"}, NEW key \in Bundles,
           TimerFires(process, key)
    PROVE  ThumbnailInv'
  <1>1. /\ ThumbnailTypeOK /\ KeysAreMade /\ RowHolds /\ (\A h \in Generators : GeneratorHolds(h))
        /\ \A k \in stored : Owned(k) /\ k # NoBundle
    BY NoBundleIsRetired DEF ThumbnailInv
  <1>2. /\ <<process, key>> \in timers
        /\ timers' = timers \ {<<process, key>>} /\ stored' = stored \ {key}
        /\ UNCHANGED <<row, generator, request, leaked, troubles, video, made, purge>>
    BY DEF TimerFires, Fixed
  <1>3. Retired(key)
    <2>1. PICK t \in timers : t = <<process, key>>
      BY <1>2
    <2>2. t[2] = key
      BY <2>1
    <2> QED
      BY <1>1, <2>2 DEF RowHolds
  <1>4. ThumbnailTypeOK'
    <2>1. timers' \subseteq (Generators \cup {"worker"}) \X Bundles /\ stored' \subseteq Bundles
      BY <1>1, <1>2 DEF ThumbnailTypeOK
    <2> QED
      BY <1>1, <1>2, <2>1 DEF ThumbnailTypeOK
  <1>5. \A h \in Generators : generator'[h] = generator[h] /\ (At(h, "store") => Key(h) \in stored')
    BY <1>1, <1>2, <1>3 DEF GeneratorHolds, Retired, Settled
  <1>6. \A k : Retired(k) => Retired(k)'
    BY <1>2 DEF Retired, Settled, At, Key
  <1>7. \A t \in timers' : t[2] <= made /\ Retired(t[2])'
    <2> SUFFICES ASSUME NEW t \in timers' PROVE t[2] <= made /\ Retired(t[2])'
      OBVIOUS
    <2>1. PICK k : k = t[2]
      OBVIOUS
    <2>2. k <= made /\ Retired(k)
      BY <1>1, <1>2, <2>1 DEF KeysAreMade, RowHolds
    <2>3. Retired(k)'
      BY <1>6, <2>2
    <2> QED
      BY <2>1, <2>2, <2>3
  <1>8. ASSUME NEW k \in stored' PROVE Owned(k)'
    <2>1. Owned(k) /\ k # key
      BY <1>1, <1>2
    <2>2. \A t \in timers : t[2] = k => t \in timers'
      <3>1. <<process, key>>[2] = key
        OBVIOUS
      <3> QED
        BY <1>2, <2>1, <3>1
    <2> QED
      BY <1>2, <2>1, <2>2 DEF Owned, At, Key, Previous
  <1>9. /\ row' = NoRow \/ (row'.key = row.key /\ video' # "gone")
        /\ row'.status = "ready" => row' = row /\ row.key \in stored'
        /\ stored' \subseteq stored /\ made' = made /\ purge'.key \in {purge.key, row.key, NoBundle}
    BY <1>1, <1>2, <1>3 DEF RowHolds, Retired
  <1> QED
    BY <1>4, <1>5, <1>7, <1>8, <1>9, Releases

LEMMA ProcessDiesKeeps ==
    ASSUME ThumbnailInv, NEW g \in Generators, ProcessDies(g) PROVE ThumbnailInv'
  <1>1. /\ ThumbnailTypeOK /\ KeysAreMade /\ RowHolds /\ (\A h \in Generators : GeneratorHolds(h))
        /\ \A k \in stored : Owned(k) /\ k # NoBundle
    BY NoBundleIsRetired DEF ThumbnailInv
  <1> DEFINE mine == {t \in timers : t[1] = g}
             lost == {t[2] : t \in mine} \cup {Key(g), Previous(g).key}
  <1>2. /\ Trouble /\ Handled(g) /\ timers' = timers \ mine /\ leaked' = leaked \cup Real(lost)
        /\ UNCHANGED <<row, stored, request, video, made, purge>>
    BY DEF ProcessDies, Fixed, Leak
  <1>3. /\ generator' \in [Generators -> Handling]
        /\ generator'[g].at = "idle" /\ generator'[g].key = NoBundle /\ generator'[g].previous = NoRow
        /\ \A h \in Generators \ {g} : generator'[h] = generator[h]
    BY <1>1, <1>2, HandledWaits
  <1>4. Real(lost) \subseteq Bundles
    <2>1. \A t \in timers : t[2] \in Bundles
      BY <1>1 DEF ThumbnailTypeOK
    <2> QED
      BY <1>1, <2>1, KeysAreBundles DEF Real
  <1>5. /\ timers' \subseteq timers
        /\ \A t \in timers : t[2] # NoBundle => t \in timers' \/ t[2] \in leaked'
        /\ \A k \in {Key(g), Previous(g).key} : k # NoBundle => k \in leaked'
        /\ leaked \subseteq leaked'
    BY <1>2 DEF Real
  <1> HIDE DEF mine, lost
  <1>6. ThumbnailTypeOK'
    <2>1. leaked' \subseteq Bundles
      BY <1>1, <1>2, <1>4 DEF ThumbnailTypeOK
    <2>2. troubles' \in Nat
      BY <1>1, <1>2, TroubleCounts
    <2>3. timers' \subseteq (Generators \cup {"worker"}) \X Bundles
      BY <1>1, <1>5 DEF ThumbnailTypeOK
    <2> QED
      BY <1>1, <1>2, <1>3, <2>1, <2>2, <2>3 DEF ThumbnailTypeOK
  <1>7. \A k : Retired(k) => Retired(k)'
    BY <1>2, <1>3 DEF Retired, Settled, At, Key
  <1>8. \A t \in timers' : t[2] <= made /\ Retired(t[2])'
    <2> SUFFICES ASSUME NEW t \in timers' PROVE t[2] <= made /\ Retired(t[2])'
      OBVIOUS
    <2>1. PICK k : k = t[2]
      OBVIOUS
    <2>2. k <= made /\ Retired(k)
      BY <1>1, <1>5, <2>1 DEF KeysAreMade, RowHolds
    <2>3. Retired(k)'
      BY <1>7, <2>2
    <2> QED
      BY <2>1, <2>2, <2>3
  <1>9. ASSUME NEW k \in stored' PROVE Owned(k)'
    <2>1. Owned(k) /\ k # NoBundle
      BY <1>1, <1>2
    <2>2. CASE k \in {Key(g), Previous(g).key}
      BY <1>5, <2>1, <2>2 DEF Owned
    <2>3. CASE \E f \in Generators \ {g} : \/ generator[f].at \in {"store", "fail"} /\ Key(f) = k
                                           \/ At(f, "stored") /\ Previous(f).key = k
      BY <1>3, <2>3 DEF Owned, At, Key, Previous
    <2>4. CASE k = row.key \/ k \in leaked \/ \E t \in timers : t[2] = k
      BY <1>2, <1>5, <2>1, <2>4 DEF Owned
    <2> QED
      BY <2>1, <2>2, <2>3, <2>4 DEF Owned
  <1>10. \A h \in Generators :
            \/ generator'[h] = generator[h] /\ (At(h, "store") => Key(h) \in stored')
            \/ /\ generator'[h].at = "idle" /\ generator'[h].key = NoBundle
               /\ generator'[h].previous = NoRow
    BY <1>1, <1>2, <1>3 DEF GeneratorHolds
  <1>11. /\ row' = NoRow \/ (row'.key = row.key /\ video' # "gone")
         /\ row'.status = "ready" => row' = row /\ row.key \in stored'
         /\ stored' \subseteq stored /\ made' = made /\ purge'.key \in {purge.key, row.key, NoBundle}
    BY <1>1, <1>2 DEF RowHolds
  <1> QED
    BY <1>6, <1>8, <1>9, <1>10, <1>11, Releases

\* The steps of the deletion before its transaction, and a lapse of the acknowledgement.
LEMMA ElsewhereKeeps ==
    ASSUME ThumbnailInv, AckWaitPasses \/ DeleteVideo \/ PurgeReads PROVE ThumbnailInv'
  <1>1. /\ ThumbnailTypeOK /\ KeysAreMade /\ RowHolds /\ (\A h \in Generators : GeneratorHolds(h))
        /\ \A k \in stored : Owned(k) /\ k # NoBundle
    BY NoBundleIsRetired DEF ThumbnailInv
  <1>2. /\ UNCHANGED <<row, stored, made, generator, timers, leaked, troubles>>
        /\ request' = request \/ request' = [request EXCEPT !.state = "waiting"]
        /\ video' = video \/ video' = "deleting"
        /\ purge' = purge \/ (purge.at = "none" /\ purge' = [at |-> "purge", key |-> row.key])
    BY DEF AckWaitPasses, DeleteVideo, PurgeReads, Fixed
  <1>3. row.key \in 0..MaxBundles
    BY <1>1 DEF ThumbnailTypeOK, ThumbnailRow
  <1>4. purge' \in [at : {"none", "purge"}, key : 0..MaxBundles] /\ purge'.key \in {purge.key, row.key}
    BY <1>1, <1>2, <1>3 DEF ThumbnailTypeOK
  <1>5. ThumbnailTypeOK'
    BY <1>1, <1>2, <1>4 DEF ThumbnailTypeOK
  <1>6. \A k : Retired(k) => Retired(k)'
    BY <1>2 DEF Retired, Settled, At, Key
  <1>7. \A t \in timers' : t[2] <= made /\ Retired(t[2])'
    <2> SUFFICES ASSUME NEW t \in timers' PROVE t[2] <= made /\ Retired(t[2])'
      OBVIOUS
    <2>1. PICK k : k = t[2]
      OBVIOUS
    <2>2. k <= made /\ Retired(k)
      BY <1>1, <1>2, <2>1 DEF KeysAreMade, RowHolds
    <2>3. Retired(k)'
      BY <1>6, <2>2
    <2> QED
      BY <2>1, <2>2, <2>3
  <1>8. \A k \in stored' : Owned(k)'
    BY <1>1, <1>2 DEF Owned, At, Key, Previous
  <1>9. /\ row' = NoRow \/ (row'.key = row.key /\ video' # "gone")
        /\ row'.status = "ready" => row' = row /\ row.key \in stored'
    BY <1>1, <1>2 DEF RowHolds
  <1>10. \A h \in Generators : generator'[h] = generator[h] /\ (At(h, "store") => Key(h) \in stored')
    BY <1>1, <1>2 DEF GeneratorHolds
  <1> QED
    BY <1>2, <1>4, <1>5, <1>7, <1>8, <1>9, <1>10, Releases

\* However an attempt of the deletion ends: what it lets go of is on a timer, or is left.
LEMMA PurgeEnds ==
    ASSUME ThumbnailInv, purge' = NoPurge,
           (row' = NoRow /\ video' = "gone") \/ (row' = row /\ video' = video),
           UNCHANGED <<stored, made, generator, request>>,
           troubles' \in Nat, leaked' \subseteq Bundles, leaked \subseteq leaked',
           timers' \subseteq (Generators \cup {"worker"}) \X Bundles,
           \A t \in timers' : t \in timers \/ (t[2] = purge.key /\ row' = NoRow),
           \A t \in timers : t \in timers' \/ t[2] \in leaked',
           \/ row' = row \/ row.key = NoBundle \/ row.key \in leaked'
           \/ \E t \in timers' : t[2] = row.key
    PROVE  ThumbnailInv'
  <1>1. /\ ThumbnailTypeOK /\ KeysAreMade /\ RowHolds /\ (\A h \in Generators : GeneratorHolds(h))
        /\ \A k \in stored : Owned(k) /\ k # NoBundle
    BY NoBundleIsRetired DEF ThumbnailInv
  <1>2. NoPurge \in [at : {"none", "purge"}, key : 0..MaxBundles] /\ NoPurge.key = NoBundle
    BY BundlesAssumption DEF NoPurge, NoBundle
  <1>3. ThumbnailTypeOK'
    BY <1>1, <1>2, NoRowIsARow DEF ThumbnailTypeOK
  <1>4. \A k : Settled(k) /\ (Retired(k) \/ row' = NoRow) => Retired(k)'
    BY NoRowIsARow DEF Retired, Settled, At, Key
  <1>5. \A t \in timers' : t[2] <= made /\ Retired(t[2])'
    <2> SUFFICES ASSUME NEW t \in timers' PROVE t[2] <= made /\ Retired(t[2])'
      OBVIOUS
    <2>1. PICK k : k = t[2]
      OBVIOUS
    <2>2. k <= made /\ Settled(k) /\ (Retired(k) \/ row' = NoRow)
      BY <1>1, <2>1 DEF KeysAreMade, RowHolds, Retired
    <2>3. Retired(k)'
      BY <1>4, <2>2
    <2> QED
      BY <2>1, <2>2, <2>3
  <1>6. ASSUME NEW k \in stored' PROVE Owned(k)'
    <2>1. Owned(k) /\ k # NoBundle
      BY <1>1
    <2>2. CASE k = row.key
      BY <2>1, <2>2 DEF Owned
    <2>3. CASE k \in leaked \/ \E t \in timers : t[2] = k
      BY <2>3 DEF Owned
    <2>4. CASE \E f \in Generators : \/ generator[f].at \in {"store", "fail"} /\ Key(f) = k
                                     \/ At(f, "stored") /\ Previous(f).key = k
      BY <2>4 DEF Owned, At, Key, Previous
    <2> QED
      BY <2>1, <2>2, <2>3, <2>4 DEF Owned
  <1>7. \A h \in Generators : generator'[h] = generator[h] /\ (At(h, "store") => Key(h) \in stored')
    BY <1>1 DEF GeneratorHolds
  <1>8. row' = NoRow \/ (row'.key = row.key /\ video' # "gone")
    BY <1>1 DEF RowHolds
  <1>9. row'.status = "ready" => row' = row /\ row.key \in stored'
    BY <1>1, NoRowIsARow DEF RowHolds
  <1>10. stored' \subseteq stored /\ made' = made /\ purge'.key = NoBundle
    BY <1>2
  <1> QED
    BY <1>3, <1>5, <1>6, <1>7, <1>8, <1>9, <1>10, Releases

LEMMA PurgeVideoKeeps == ASSUME ThumbnailInv, PurgeVideo PROVE ThumbnailInv'
  <1>1. ThumbnailTypeOK /\ troubles \in Nat
    BY DEF ThumbnailInv, ThumbnailTypeOK
  <1>2. purge' = NoPurge /\ UNCHANGED <<stored, made, generator, request>>
    BY DEF PurgeVideo
  <1>3. /\ \A keys : Real(keys) \subseteq keys
        /\ Real({row.key}) \subseteq Bundles /\ Real({purge.key}) \subseteq Bundles
        /\ Real({row.key} \ {purge.key}) \subseteq Bundles
    BY <1>1, KeysAreBundles DEF Real
  <1>4. CASE /\ video' = "gone" /\ row' = NoRow /\ UNCHANGED troubles
             /\ DeleteLater("worker", {purge.key}) /\ Leak({row.key} \ {purge.key})
    <2>1. /\ timers' = timers \cup ({"worker"} \X Real({purge.key}))
          /\ leaked' = leaked \cup Real({row.key} \ {purge.key})
      BY <1>4 DEF DeleteLater, Leak
    <2>2. /\ timers' \subseteq (Generators \cup {"worker"}) \X Bundles /\ timers \subseteq timers'
          /\ \A t \in timers' : t \in timers \/ t[2] = purge.key
      BY <1>1, <1>3, <2>1 DEF ThumbnailTypeOK
    <2>3. leaked' \subseteq Bundles /\ leaked \subseteq leaked'
      BY <1>1, <1>3, <2>1 DEF ThumbnailTypeOK
    <2>4. \/ row.key = NoBundle \/ row.key \in leaked'
          \/ \E t \in timers' : t[2] = row.key
      <3>1. CASE row.key # NoBundle /\ row.key = purge.key
        <4>1. <<"worker", row.key>> \in timers' /\ <<"worker", row.key>>[2] = row.key
          BY <2>1, <3>1 DEF Real
        <4> QED
          BY <4>1
      <3>2. CASE row.key # NoBundle /\ row.key # purge.key
        BY <2>1, <3>2 DEF Real
      <3> QED
        BY <3>1, <3>2
    <2> QED
      BY <1>1, <1>2, <1>4, <2>2, <2>3, <2>4, PurgeEnds
  <1>5. CASE /\ video' = "gone" /\ row' = NoRow /\ Trouble
             /\ Leak({row.key}) /\ UNCHANGED timers
    <2>1. leaked' = leaked \cup Real({row.key})
      BY <1>5 DEF Leak
    <2>2. leaked' \subseteq Bundles /\ leaked \subseteq leaked'
      BY <1>1, <1>3, <2>1 DEF ThumbnailTypeOK
    <2>3. row.key = NoBundle \/ row.key \in leaked'
      BY <2>1 DEF Real
    <2>4. timers' \subseteq (Generators \cup {"worker"}) \X Bundles
      BY <1>1, <1>5 DEF ThumbnailTypeOK
    <2>5. troubles' \in Nat
      BY <1>1, <1>5, TroubleCounts
    <2> QED
      BY <1>2, <1>5, <2>2, <2>3, <2>4, <2>5, PurgeEnds
  <1>6. CASE Trouble /\ UNCHANGED <<video, row, timers, leaked>>
    <2>1. troubles' \in Nat
      BY <1>1, <1>6, TroubleCounts
    <2>2. timers' \subseteq (Generators \cup {"worker"}) \X Bundles /\ leaked' \subseteq Bundles
      BY <1>1, <1>6 DEF ThumbnailTypeOK
    <2> QED
      BY <1>2, <1>6, <2>1, <2>2, PurgeEnds
  <1> QED
    BY <1>4, <1>5, <1>6 DEF PurgeVideo

LEMMA PurgerDiesKeeps == ASSUME ThumbnailInv, PurgerDies PROVE ThumbnailInv'
  <1>1. ThumbnailTypeOK /\ \A t \in timers : t[2] \in Bundles
    BY DEF ThumbnailInv, ThumbnailTypeOK
  <1> DEFINE mine == {t \in timers : t[1] = "worker"}
             lost == {t[2] : t \in mine}
  <1>2. /\ Trouble /\ purge' = NoPurge /\ timers' = timers \ mine /\ leaked' = leaked \cup Real(lost)
        /\ UNCHANGED <<video, row, stored, made, generator, request>>
    BY DEF PurgerDies, Leak
  <1>3. troubles' \in Nat
    BY <1>1, <1>2, TroubleCounts
  <1>4. timers' \subseteq timers /\ timers' \subseteq (Generators \cup {"worker"}) \X Bundles
    BY <1>1, <1>2 DEF ThumbnailTypeOK
  <1>5. leaked' \subseteq Bundles /\ leaked \subseteq leaked'
    BY <1>1, <1>2 DEF ThumbnailTypeOK, Real
  <1>6. \A t \in timers : t \in timers' \/ t[2] \in leaked'
    <2>1. \A k \in Bundles : k # NoBundle
      BY BundlesAssumption DEF Bundles, NoBundle
    <2> QED
      BY <1>1, <1>2, <2>1 DEF Real
  <1> HIDE DEF mine, lost
  <1> QED
    BY <1>2, <1>3, <1>4, <1>5, <1>6, PurgeEnds

LEMMA ThumbnailInitial == ThumbnailInit => ThumbnailInv
  <1> SUFFICES ASSUME ThumbnailInit PROVE ThumbnailInv
    OBVIOUS
  <1>1. /\ video = "ready" /\ row = NoRow /\ stored = {} /\ made = 0 /\ timers = {} /\ leaked = {}
        /\ generator = [g \in Generators |-> Waiting]
        /\ request = [state |-> "waiting", deliveries |-> 0]
        /\ purge = NoPurge /\ troubles = 0
    BY DEF ThumbnailInit
  <1>2. NoPurge \in [at : {"none", "purge"}, key : 0..MaxBundles] /\ NoPurge.key = NoBundle
    BY BundlesAssumption DEF NoPurge, NoBundle
  <1>3. \A g \in Generators : generator[g] = Waiting
    BY <1>1
  <1>4. generator \in [Generators -> Handling]
    BY <1>1, WaitingIsIdle
  <1>5. ThumbnailTypeOK
    BY <1>1, <1>2, <1>4, NoRowIsARow, BundlesAssumption DEF ThumbnailTypeOK
  <1>6. NoBundle <= made
    BY <1>1 DEF NoBundle
  <1>7. KeysAreMade
    BY <1>1, <1>2, <1>3, <1>6, NoRowIsARow, WaitingIsIdle DEF KeysAreMade, Key, Previous
  <1>8. \A k : Settled(k) /\ Retired(k)
    BY <1>1, <1>3, NoRowIsARow, WaitingIsIdle DEF Settled, Retired, At
  <1>9. RowHolds
    BY <1>1, <1>8, NoRowIsARow DEF RowHolds
  <1>10. \A g \in Generators : GeneratorHolds(g)
    BY <1>3, <1>8, WaitingIsIdle DEF GeneratorHolds, At, Key
  <1> QED
    BY <1>1, <1>5, <1>7, <1>9, <1>10 DEF ThumbnailInv

LEMMA ThumbnailStep == ThumbnailInv /\ [ThumbnailNext]_thumbnailVars => ThumbnailInv'
  <1> SUFFICES ASSUME ThumbnailInv, [ThumbnailNext]_thumbnailVars PROVE ThumbnailInv'
    OBVIOUS
  <1>1. CASE ThumbnailNext
    <2>1. CASE AckWaitPasses \/ DeleteVideo \/ PurgeReads \/ PurgeVideo \/ PurgerDies
      BY <2>1, ElsewhereKeeps, PurgeVideoKeeps, PurgerDiesKeeps
    <2>2. CASE \E p \in Generators \cup {"worker"}, k \in Bundles : TimerFires(p, k)
      BY <2>2, TimerFiresKeeps
    <2>3. ASSUME NEW g \in Generators,
                 \/ TakeRequest(g) \/ Load(g) \/ LoadPrevious(g) \/ MarkGenerating(g) \/ Render(g)
                 \/ Store(g) \/ Finish(g) \/ Fail(g) \/ ProcessDies(g)
          PROVE  ThumbnailInv'
      BY <2>3, TakeRequestKeeps, LoadKeeps, LoadPreviousKeeps, MarkGeneratingKeeps, RenderKeeps,
         StoreKeeps, FinishKeeps, FailKeeps, ProcessDiesKeeps
    <2> QED
      BY <1>1, <2>1, <2>2, <2>3 DEF ThumbnailNext
  <1>2. CASE UNCHANGED thumbnailVars
    <2>1. UNCHANGED <<video, row, stored, made, generator, request, timers, purge, leaked, troubles>>
      BY <1>2 DEF thumbnailVars
    <2> QED
      BY <2>1 DEF ThumbnailInv, ThumbnailTypeOK, KeysAreMade, RowHolds, GeneratorHolds, Owned,
                  Settled, Retired, At, Key, Previous
  <1> QED
    BY <1>1, <1>2

\* For any number of processes and any bounds, a key that the row has given up is never
\* offered again, and every bundle on disk has something that names it.
THEOREM ThumbnailInvariant == ThumbnailSpec => []ThumbnailInv
  <1> QED
    BY ThumbnailInitial, ThumbnailStep, PTL DEF ThumbnailSpec

\* A ready row names a bundle that is on disk, and with nothing under way every bundle is
\* the row's or one the code has lost track of (events/consumers/thumbnail-generator.ts).
THEOREM BundlesAlwaysMatch == ThumbnailSpec => []BundlesMatchTheRow
  <1>1. ThumbnailInv => BundlesMatchTheRow
    <2> SUFFICES ASSUME ThumbnailInv PROVE BundlesMatchTheRow
      OBVIOUS
    <2>1. row.status = "ready" => row.key \in stored
      BY DEF ThumbnailInv, RowHolds
    <2>2. ASSUME \A g \in Generators : At(g, "idle"), timers = {}, purge = NoPurge, NEW k \in stored
          PROVE  k \in {row.key} \cup leaked
      <3>1. Owned(k)
        BY DEF ThumbnailInv
      <3>2. purge.at = "none"
        BY <2>2 DEF NoPurge
      <3> QED
        BY <2>2, <3>1, <3>2 DEF Owned, At
    <2> QED
      BY <2>1, <2>2 DEF BundlesMatchTheRow
  <1> QED
    BY <1>1, ThumbnailInvariant, PTL

----------------------------------------------------------------------------
(* The previews of a fragment, for any number of attempts, revisions and    *)
(* tries.                                                                   *)

RenderStages == {"idle", "read", "claim", "publish", "commit", "drop", "failed", "gone"}
RenderState == [at : RenderStages, revision : 0..MaxRevisions, last : BOOLEAN]

PreviewTypeOK ==
    /\ owner \in {"live", "deleting", "gone"}
    /\ fragment \in [state : {"live", "deleted", "gone"}, revision : Revisions, timed : Revisions]
    /\ preview \in [status : {"none", "pending", "ready", "failed"},
                    revision : 0..MaxRevisions, asset : 0..MaxRevisions]
    /\ assets \in [Revisions -> {"none", "ready", "deleting"}]
    /\ files \in [Revisions -> {"none", "empty", "whole"}]
    /\ tries \in [Revisions -> Nat]
    /\ renders \in [Renderers -> RenderState]
    /\ assetJobs \in [Revisions -> {"none", "queued", "unlinked"}]
    /\ videoJob \in [at : {"none", "queued", "unlinked", "done"}, listed : SUBSET Revisions]
    /\ doubled \in BOOLEAN /\ unsure \in BOOLEAN
    /\ spilled \subseteq Revisions /\ flaws \in Nat

\* No user brings this revision back.
MovedOn(r) == fragment.state = "gone" \/ r < fragment.revision

\* The row of the preview is for the span the fragment has, and its asset is there.
PreviewRowHolds ==
    /\ fragment.timed <= fragment.revision
    /\ fragment.state = "gone" => preview = NoPreview
    /\ fragment.state # "gone" => preview.revision = fragment.timed
    /\ preview.asset # 0 => preview.asset = preview.revision /\ assets[preview.asset] = "ready"
    /\ preview.status = "failed" => preview.asset = 0 \/ doubled \/ unsure
    /\ videoJob.at # "none" => owner # "live"

\* A deletion that is under way is of a revision that is past, or of the video.
DeletionHolds(r) ==
    /\ assets[r] = "ready" => preview.asset = r
    /\ assets[r] = "deleting" \/ assetJobs[r] # "none" => MovedOn(r)
    /\ assetJobs[r] = "unlinked" => assets[r] # "ready"
    /\ videoJob.at = "unlinked" /\ assets[r] = "ready" => r \in videoJob.listed

OnIt(a, r) == renders[a].revision = r /\ renders[a].at # "idle"

\* A file that no row will name is about to be removed, or was left by an attempt.
LooksAfter(r) ==
    \/ files[r] = "none" \/ r \in spilled
    \/ \E a \in Renderers : OnIt(a, r) /\ renders[a].at \in {"commit", "drop"}

FileHolds(r) ==
    /\ assets[r] = "ready" /\ ~ doubled /\ owner = "live" => files[r] = "whole"
    /\ files[r] = "empty" => r \in spilled
    /\ assets[r] = "none" => LooksAfter(r)
    /\ assetJobs[r] = "unlinked" => LooksAfter(r)
    /\ videoJob.at = "unlinked" /\ r \in videoJob.listed => LooksAfter(r)

\* A preview that was made and is not ready will not be tried again.
NotTriedAgain ==
    preview.asset # 0 /\ preview.status # "ready" /\ ~ doubled =>
        tries[preview.asset] = 0 /\ \A a \in Renderers : ~ OnIt(a, preview.asset)

AttemptOn(a, r) ==
    /\ renders[a].last => tries[r] = 0
    /\ renders[a].at \in {"publish", "commit", "drop"} => r <= fragment.timed
    /\ ~ doubled => \A b \in Renderers \ {a} : ~ OnIt(b, r)
    /\ renders[a].at \in {"claim", "publish", "commit", "drop"} => assets[r] # "ready" \/ doubled
    /\ renders[a].at = "failed" => assets[r] # "ready" \/ doubled \/ unsure
    /\ renders[a].at = "commit" => files[r] = "whole" \/ doubled \/ MovedOn(r) \/ owner # "live"

AttemptHolds(a) ==
    /\ renders[a].at # "idle" => renders[a].revision \in 1..fragment.revision
    /\ \A r \in Revisions : OnIt(a, r) => AttemptOn(a, r)

PreviewInv ==
    /\ PreviewTypeOK
    /\ PreviewRowHolds
    /\ \A r \in Revisions : DeletionHolds(r) /\ FileHolds(r) /\ (fragment.revision < r => tries[r] = 0)
    /\ NotTriedAgain
    /\ \A a \in Renderers : AttemptHolds(a)

LEMMA NoPreviewHasNoAsset ==
    /\ NoPreview \in [status : {"none", "pending", "ready", "failed"},
                      revision : 0..MaxRevisions, asset : 0..MaxRevisions]
    /\ NoPreview.asset = 0 /\ NoPreview.revision = 0 /\ NoPreview.status = "none"
  BY RevisionsAssumption DEF NoPreview

LEMMA NoRenderIsIdle == NoRender \in RenderState /\ NoRender.at = "idle"
  BY RevisionsAssumption DEF NoRender, RenderState, RenderStages

\* Revisions are numbers that can be compared.
LEMMA RevisionNumbers ==
    ASSUME PreviewTypeOK
    PROVE  /\ fragment.revision \in Nat /\ fragment.timed \in Nat /\ fragment.revision \in Revisions
           /\ fragment.timed \in Revisions
           /\ preview.asset \in Nat /\ preview.revision \in Nat
           /\ preview.asset # 0 => preview.asset \in Revisions
           /\ \A r \in Revisions : r \in Nat /\ r # 0
           /\ \A a \in Renderers : renders[a].revision \in Nat
           /\ \A a \in Renderers : renders[a].at \in RenderStages
  BY RevisionsAssumption DEF PreviewTypeOK, Revisions, RenderState

LEMMA PreviewInitial == PreviewInit => PreviewInv
  <1> SUFFICES ASSUME PreviewInit PROVE PreviewInv
    OBVIOUS
  <1>1. /\ owner = "live"
        /\ fragment = [state |-> "live", revision |-> 1, timed |-> 1]
        /\ preview = [status |-> "pending", revision |-> 1, asset |-> 0]
        /\ assets = [r \in Revisions |-> "none"] /\ files = [r \in Revisions |-> "none"]
        /\ tries = [r \in Revisions |-> IF r = 1 THEN MaxTries ELSE 0]
        /\ renders = [a \in Renderers |-> NoRender]
        /\ assetJobs = [r \in Revisions |-> "none"]
        /\ videoJob = [at |-> "none", listed |-> {}]
        /\ doubled = FALSE /\ unsure = FALSE /\ spilled = {} /\ flaws = 0
    BY DEF PreviewInit
  <1>2. 1 \in Revisions /\ 1 \in 0..MaxRevisions /\ 0 \in 0..MaxRevisions
    BY RevisionsAssumption DEF Revisions
  <1>3. PreviewTypeOK
    <2>1. /\ fragment \in [state : {"live", "deleted", "gone"}, revision : Revisions, timed : Revisions]
          /\ preview \in [status : {"none", "pending", "ready", "failed"},
                          revision : 0..MaxRevisions, asset : 0..MaxRevisions]
          /\ videoJob \in [at : {"none", "queued", "unlinked", "done"}, listed : SUBSET Revisions]
      BY <1>1, <1>2
    <2>2. /\ assets \in [Revisions -> {"none", "ready", "deleting"}]
          /\ files \in [Revisions -> {"none", "empty", "whole"}]
          /\ assetJobs \in [Revisions -> {"none", "queued", "unlinked"}]
      BY <1>1
    <2>3. tries \in [Revisions -> Nat]
      BY <1>1, RevisionsAssumption
    <2>4. renders \in [Renderers -> RenderState]
      BY <1>1, NoRenderIsIdle
    <2> QED
      BY <1>1, <2>1, <2>2, <2>3, <2>4 DEF PreviewTypeOK
  <1>4. /\ fragment.state = "live" /\ fragment.revision = 1 /\ fragment.timed = 1
        /\ preview.status = "pending" /\ preview.revision = 1 /\ preview.asset = 0
        /\ videoJob.at = "none"
        /\ \A r \in Revisions : assets[r] = "none" /\ files[r] = "none" /\ assetJobs[r] = "none"
        /\ \A r \in Revisions : 1 < r => tries[r] = 0
    BY <1>1
  <1>5. \A a \in Renderers : renders[a].at = "idle"
    BY <1>1, NoRenderIsIdle
  <1>6. PreviewRowHolds
    BY <1>4 DEF PreviewRowHolds
  <1>7. \A r \in Revisions : DeletionHolds(r) /\ FileHolds(r) /\ (fragment.revision < r => tries[r] = 0)
    BY <1>4 DEF DeletionHolds, FileHolds, LooksAfter
  <1>8. NotTriedAgain /\ \A a \in Renderers : AttemptHolds(a)
    BY <1>4, <1>5 DEF NotTriedAgain, AttemptHolds, OnIt
  <1> QED
    BY <1>3, <1>6, <1>7, <1>8 DEF PreviewInv

\* An edit that leaves the span, and the undo of a deletion: a revision, and nothing else.
LEMMA RevisionPasses ==
    ASSUME PreviewInv, fragment.revision < MaxRevisions,
           fragment'.revision = fragment.revision + 1, fragment'.timed = fragment.timed,
           fragment'.state = "live", fragment.state # "gone",
           fragment' \in [state : {"live", "deleted", "gone"}, revision : Revisions, timed : Revisions],
           UNCHANGED <<owner, preview, assets, files, tries, renders, assetJobs, videoJob,
                       doubled, unsure, spilled, flaws>>
    PROVE  PreviewInv'
  <1>1. /\ PreviewTypeOK /\ PreviewRowHolds /\ NotTriedAgain
        /\ \A r \in Revisions : DeletionHolds(r) /\ FileHolds(r) /\ (fragment.revision < r => tries[r] = 0)
        /\ \A a \in Renderers : AttemptHolds(a)
    BY DEF PreviewInv
  <1>2. UNCHANGED <<owner, preview, assets, files, tries, renders, assetJobs, videoJob,
                    doubled, unsure, spilled, flaws>>
    OBVIOUS
  <1>3. fragment.revision \in Nat /\ fragment.timed \in Nat /\ \A r \in Revisions : r \in Nat
    BY <1>1, RevisionNumbers
  <1>4. \A r \in Revisions : /\ MovedOn(r) => MovedOn(r)'
                             /\ fragment'.revision < r => fragment.revision < r
    BY <1>3 DEF MovedOn
  <1>5. PreviewTypeOK'
    BY <1>1, <1>2 DEF PreviewTypeOK
  <1>6. PreviewRowHolds'
    BY <1>1, <1>2, <1>3 DEF PreviewRowHolds
  <1>7. \A r \in Revisions : DeletionHolds(r)' /\ FileHolds(r)' /\ (fragment'.revision < r => tries'[r] = 0)
    BY <1>1, <1>2, <1>4 DEF DeletionHolds, FileHolds, LooksAfter, OnIt
  <1>8. NotTriedAgain'
    BY <1>1, <1>2 DEF NotTriedAgain, OnIt
  <1>9. ASSUME NEW a \in Renderers PROVE AttemptHolds(a)'
    <2>1. renders'[a].at # "idle" => renders'[a].revision \in 1..fragment'.revision
      BY <1>1, <1>2, <1>3 DEF AttemptHolds
    <2>2. ASSUME NEW r \in Revisions, OnIt(a, r)' PROVE AttemptOn(a, r)'
      <3>1. AttemptOn(a, r) /\ (MovedOn(r) => MovedOn(r)')
        BY <1>1, <1>2, <1>4, <2>2 DEF AttemptHolds, OnIt
      <3> QED
        BY <1>2, <3>1 DEF AttemptOn, OnIt
    <2> QED
      BY <2>1, <2>2 DEF AttemptHolds
  <1> QED
    BY <1>5, <1>6, <1>7, <1>8, <1>9 DEF PreviewInv

\* The asset of the row goes: none is ready any more.
LEMMA AssetQueued ==
    ASSUME PreviewInv, QueueAssetDeletion
    PROVE  /\ assets' \in [Revisions -> {"none", "ready", "deleting"}]
           /\ assetJobs' \in [Revisions -> {"none", "queued", "unlinked"}]
           /\ \A r \in Revisions :
                \/ assets'[r] = assets[r] /\ assetJobs'[r] = assetJobs[r] /\ assets[r] # "ready"
                \/ r = preview.asset /\ assets'[r] = "deleting" /\ assetJobs'[r] = "queued"
  <1>1. /\ PreviewTypeOK /\ (preview.asset # 0 => preview.asset \in Revisions)
        /\ \A r \in Revisions : r # 0 /\ (assets[r] = "ready" => preview.asset = r)
    BY RevisionNumbers DEF PreviewInv, DeletionHolds
  <1>2. CASE preview.asset = 0
    BY <1>1, <1>2 DEF QueueAssetDeletion, PreviewTypeOK
  <1>3. CASE preview.asset # 0
    <2>1. /\ assets' = [assets EXCEPT ![preview.asset] = "deleting"]
          /\ assetJobs' = [assetJobs EXCEPT ![preview.asset] = "queued"]
      BY <1>3 DEF QueueAssetDeletion
    <2> QED
      BY <1>1, <1>3, <2>1 DEF PreviewTypeOK
  <1> QED
    BY <1>2, <1>3

\* The row stops naming an asset, for an edit or for the purge of the fragment.
LEMMA RowGivesUp ==
    ASSUME PreviewInv, QueueAssetDeletion, PreviewTypeOK', PreviewRowHolds',
           preview'.asset = 0,
           \A r \in Revisions : MovedOn(r) \/ r = preview.asset => MovedOn(r)',
           \A r \in 1..fragment.revision : r \in 1..fragment'.revision /\ tries'[r] = tries[r],
           \A r \in Revisions : fragment'.revision < r => tries'[r] = 0,
           fragment.timed <= fragment'.timed,
           UNCHANGED <<owner, files, renders, videoJob, doubled, unsure, spilled>>
    PROVE  PreviewInv'
  <1>1. /\ PreviewTypeOK /\ PreviewRowHolds /\ NotTriedAgain
        /\ \A r \in Revisions : DeletionHolds(r) /\ FileHolds(r)
        /\ \A a \in Renderers : AttemptHolds(a)
    BY DEF PreviewInv
  <1>2. \A r \in Revisions :
          \/ assets'[r] = assets[r] /\ assetJobs'[r] = assetJobs[r] /\ assets[r] # "ready"
          \/ r = preview.asset /\ assets'[r] = "deleting" /\ assetJobs'[r] = "queued"
    BY AssetQueued
  <1>3. UNCHANGED <<owner, files, renders, videoJob, doubled, unsure, spilled>>
    OBVIOUS
  <1>4. \A r \in Revisions : assets'[r] # "ready"
    BY <1>2
  <1>5. ASSUME NEW r \in Revisions PROVE DeletionHolds(r)' /\ FileHolds(r)'
    <2>1. DeletionHolds(r) /\ FileHolds(r)
      BY <1>1
    <2>2. assets'[r] = "deleting" \/ assetJobs'[r] # "none" => MovedOn(r)'
      BY <1>2, <2>1 DEF DeletionHolds
    <2>3. DeletionHolds(r)'
      BY <1>4, <2>2 DEF DeletionHolds
    <2>4. FileHolds(r)'
      BY <1>2, <1>3, <1>4, <2>1 DEF FileHolds, LooksAfter, OnIt
    <2> QED
      BY <2>3, <2>4
  <1>6. NotTriedAgain'
    BY DEF NotTriedAgain
  <1>7. ASSUME NEW a \in Renderers PROVE AttemptHolds(a)'
    <2>1. renders'[a].at # "idle" => renders'[a].revision \in 1..fragment'.revision
      <3>1. renders[a].at # "idle" => renders[a].revision \in 1..fragment.revision
        BY <1>1 DEF AttemptHolds
      <3> QED
        BY <1>3, <3>1
    <2>2. ASSUME NEW r \in Revisions, OnIt(a, r)' PROVE AttemptOn(a, r)'
      <3>1. OnIt(a, r) /\ r \in 1..fragment.revision /\ AttemptOn(a, r)
        BY <1>1, <1>3, <2>2 DEF AttemptHolds, OnIt
      <3>2. r \in Nat /\ fragment.timed \in Nat /\ fragment'.timed \in Nat
        <4>1. fragment.timed \in Nat /\ fragment'.timed \in Revisions
          BY <1>1, RevisionNumbers DEF PreviewTypeOK
        <4> QED
          BY <4>1, <3>1, RevisionsAssumption DEF Revisions
      <3>3. tries'[r] = tries[r]
        BY <3>1
      <3>4. renders[a].at \in {"publish", "commit", "drop"} => r <= fragment'.timed
        BY <3>1, <3>2 DEF AttemptOn
      <3>5. (MovedOn(r) => MovedOn(r)') /\ assets'[r] # "ready"
        BY <1>4
      <3> QED
        BY <1>3, <3>1, <3>3, <3>4, <3>5 DEF AttemptOn, OnIt
    <2> QED
      BY <2>1, <2>2 DEF AttemptHolds
  <1> QED
    BY <1>5, <1>6, <1>7 DEF PreviewInv

LEMMA EditFragmentKeeps ==
    ASSUME PreviewInv, NEW newSpan \in BOOLEAN, EditFragment(newSpan) PROVE PreviewInv'
  <1> DEFINE revision == fragment.revision + 1
  <1>1. PreviewTypeOK /\ PreviewRowHolds /\ \A r \in Revisions : fragment.revision < r => tries[r] = 0
    BY DEF PreviewInv
  <1>2. /\ fragment.revision \in Nat /\ fragment.timed \in Nat /\ fragment.revision < MaxRevisions
        /\ fragment.state = "live" /\ revision \in Nat /\ revision \in Revisions
        /\ preview.asset \in Nat /\ \A r \in Revisions : r \in Nat
    BY <1>1, RevisionNumbers, RevisionsAssumption DEF EditFragment, Revisions
  <1>3. /\ fragment' = [fragment EXCEPT !.revision = revision, !.timed = IF newSpan THEN revision ELSE @]
        /\ UNCHANGED <<owner, files, renders, videoJob, flaws, doubled, unsure, spilled>>
    BY DEF EditFragment, History
  <1>4. /\ fragment' \in [state : {"live", "deleted", "gone"}, revision : Revisions, timed : Revisions]
        /\ fragment'.revision = revision /\ fragment'.state = "live"
        /\ fragment'.timed = IF newSpan THEN revision ELSE fragment.timed
    BY <1>1, <1>2, <1>3 DEF PreviewTypeOK
  <1>5. CASE ~ newSpan
    <2>1. UNCHANGED <<preview, tries, assets, assetJobs>>
      BY <1>5 DEF EditFragment
    <2> QED
      BY <1>2, <1>3, <1>4, <1>5, <2>1, RevisionPasses
  <1>6. CASE newSpan
    <2>1. RequestPreview(revision)
      BY <1>6 DEF EditFragment
    <2> HIDE DEF revision
    <2>2. /\ preview' = [status |-> "pending", revision |-> revision, asset |-> 0]
          /\ tries' = [tries EXCEPT ![revision] = MaxTries] /\ QueueAssetDeletion
      BY <2>1 DEF RequestPreview
    <2>3. /\ preview' \in [status : {"none", "pending", "ready", "failed"},
                           revision : 0..MaxRevisions, asset : 0..MaxRevisions]
          /\ preview'.status = "pending" /\ preview'.revision = revision /\ preview'.asset = 0
      BY <1>2, <2>2, RevisionsAssumption DEF Revisions
    <2>4. tries' \in [Revisions -> Nat] /\ \A r \in Revisions \ {revision} : tries'[r] = tries[r]
      BY <1>1, <1>2, <2>2, RevisionsAssumption DEF PreviewTypeOK
    <2>5. PreviewTypeOK'
      BY <1>1, <1>3, <1>4, <2>2, <2>3, <2>4, AssetQueued DEF PreviewTypeOK
    <2>6. revision = fragment.revision + 1
      BY DEF revision
    <2>7. PreviewRowHolds'
      <3>1. videoJob'.at # "none" => owner' # "live"
        BY <1>1, <1>3 DEF PreviewRowHolds
      <3> QED
        BY <1>2, <1>4, <1>6, <2>3, <3>1 DEF PreviewRowHolds
    <2>8. \A r \in Revisions : MovedOn(r) \/ r = preview.asset => MovedOn(r)'
      <3>1. preview.asset # 0 => preview.asset <= fragment.revision
        BY <1>1, <1>2 DEF PreviewRowHolds
      <3>2. \A r \in Revisions : r # 0
        BY <1>1, RevisionNumbers
      <3> QED
        BY <1>2, <1>4, <2>6, <3>1, <3>2 DEF MovedOn
    <2>9. \A r \in 1..fragment.revision : r \in 1..fragment'.revision /\ tries'[r] = tries[r]
      <3>1. \A r \in 1..fragment.revision : r \in Revisions /\ r # revision /\ r \in 1..revision
        BY <1>2, <2>6, RevisionsAssumption DEF Revisions
      <3> QED
        BY <1>4, <2>4, <3>1
    <2>10. \A r \in Revisions : fragment'.revision < r => tries'[r] = 0
      <3>1. \A r \in Revisions : revision < r => r # revision /\ fragment.revision < r
        BY <1>2, <2>6
      <3> QED
        BY <1>1, <1>4, <2>4, <3>1
    <2>11. fragment.timed <= fragment'.timed
      BY <1>1, <1>2, <1>4, <1>6, <2>6 DEF PreviewRowHolds
    <2> QED
      BY <1>3, <2>2, <2>3, <2>5, <2>7, <2>8, <2>9, <2>10, <2>11, RowGivesUp
  <1> QED
    BY <1>5, <1>6

LEMMA UndoDeleteKeeps == ASSUME PreviewInv, UndoDelete PROVE PreviewInv'
  <1>1. PreviewTypeOK
    BY DEF PreviewInv
  <1>2. /\ fragment.state = "deleted" /\ fragment.revision < MaxRevisions
        /\ fragment' = [fragment EXCEPT !.state = "live", !.revision = fragment.revision + 1]
        /\ UNCHANGED <<owner, preview, assets, files, tries, renders, assetJobs, videoJob,
                       doubled, unsure, spilled, flaws>>
    BY DEF UndoDelete, History
  <1>3. fragment.revision + 1 \in Revisions
    BY <1>1, <1>2, RevisionNumbers, RevisionsAssumption DEF Revisions
  <1>4. /\ fragment' \in [state : {"live", "deleted", "gone"}, revision : Revisions, timed : Revisions]
        /\ fragment'.revision = fragment.revision + 1 /\ fragment'.state = "live"
        /\ fragment'.timed = fragment.timed
    BY <1>1, <1>2, <1>3 DEF PreviewTypeOK
  <1> QED
    BY <1>2, <1>4, RevisionPasses

LEMMA PurgeFragmentKeeps == ASSUME PreviewInv, PurgeFragment PROVE PreviewInv'
  <1>1. PreviewTypeOK /\ PreviewRowHolds /\ \A r \in Revisions : fragment.revision < r => tries[r] = 0
    BY DEF PreviewInv
  <1>2. /\ QueueAssetDeletion
        /\ fragment' = [fragment EXCEPT !.state = "gone"] /\ preview' = NoPreview
        /\ UNCHANGED <<owner, files, tries, renders, videoJob, flaws, doubled, unsure, spilled>>
    BY DEF PurgeFragment, History
  <1>3. /\ fragment' \in [state : {"live", "deleted", "gone"}, revision : Revisions, timed : Revisions]
        /\ fragment'.revision = fragment.revision /\ fragment'.state = "gone"
        /\ fragment'.timed = fragment.timed
    BY <1>1, <1>2 DEF PreviewTypeOK
  <1>4. PreviewTypeOK'
    BY <1>1, <1>2, <1>3, AssetQueued, NoPreviewHasNoAsset DEF PreviewTypeOK
  <1>5. PreviewRowHolds'
    BY <1>1, <1>2, <1>3, NoPreviewHasNoAsset DEF PreviewRowHolds
  <1>6. \A r \in Revisions : MovedOn(r)'
    BY <1>3 DEF MovedOn
  <1>7. fragment.timed <= fragment'.timed
    BY <1>1, <1>3, RevisionNumbers
  <1> QED
    BY <1>1, <1>2, <1>3, <1>4, <1>5, <1>6, <1>7, NoPreviewHasNoAsset, RowGivesUp

\* A soft deletion and the request to delete the video change what is shown, no more.
LEMMA HidingKeeps == ASSUME PreviewInv, SoftDelete \/ RequestDeletion PROVE PreviewInv'
  <1>1. /\ PreviewTypeOK /\ PreviewRowHolds /\ NotTriedAgain
        /\ \A r \in Revisions : DeletionHolds(r) /\ FileHolds(r) /\ (fragment.revision < r => tries[r] = 0)
        /\ \A a \in Renderers : AttemptHolds(a)
    BY DEF PreviewInv
  <1>2. /\ UNCHANGED <<preview, assets, files, tries, renders, assetJobs, doubled, unsure, spilled, flaws>>
        /\ \/ /\ fragment.state = "live" /\ fragment' = [fragment EXCEPT !.state = "deleted"]
              /\ UNCHANGED <<owner, videoJob>>
           \/ /\ owner = "live" /\ owner' = "deleting" /\ videoJob' = [videoJob EXCEPT !.at = "queued"]
              /\ UNCHANGED fragment
    BY DEF SoftDelete, RequestDeletion, History
  <1>3. /\ fragment' \in [state : {"live", "deleted", "gone"}, revision : Revisions, timed : Revisions]
        /\ fragment'.revision = fragment.revision /\ fragment'.timed = fragment.timed
        /\ fragment'.state = "gone" <=> fragment.state = "gone"
    BY <1>1, <1>2 DEF PreviewTypeOK
  <1>4. /\ videoJob' \in [at : {"none", "queued", "unlinked", "done"}, listed : SUBSET Revisions]
        /\ videoJob'.at = "unlinked" => videoJob' = videoJob
        /\ videoJob'.at # "none" => owner' # "live"
        /\ owner' \in {"live", "deleting", "gone"} /\ (owner' = "live" => owner = "live")
    BY <1>1, <1>2 DEF PreviewTypeOK, PreviewRowHolds
  <1>5. \A r : MovedOn(r)' <=> MovedOn(r)
    BY <1>3 DEF MovedOn
  <1>6. PreviewTypeOK'
    BY <1>1, <1>2, <1>3, <1>4 DEF PreviewTypeOK
  <1>7. PreviewRowHolds'
    BY <1>1, <1>2, <1>3, <1>4 DEF PreviewRowHolds
  <1>8. ASSUME NEW r \in Revisions
        PROVE  DeletionHolds(r)' /\ FileHolds(r)' /\ (fragment'.revision < r => tries'[r] = 0)
    <2>1. DeletionHolds(r) /\ FileHolds(r) /\ (MovedOn(r)' <=> MovedOn(r))
      BY <1>1, <1>5
    <2>2. DeletionHolds(r)'
      BY <1>2, <1>4, <2>1 DEF DeletionHolds
    <2>3. FileHolds(r)'
      BY <1>2, <1>4, <2>1 DEF FileHolds, LooksAfter, OnIt
    <2> QED
      BY <1>1, <1>2, <1>3, <2>2, <2>3
  <1>9. NotTriedAgain'
    BY <1>1, <1>2 DEF NotTriedAgain, OnIt
  <1>10. ASSUME NEW a \in Renderers PROVE AttemptHolds(a)'
    <2>1. renders'[a].at # "idle" => renders'[a].revision \in 1..fragment'.revision
      BY <1>1, <1>2, <1>3 DEF AttemptHolds
    <2>2. ASSUME NEW r \in Revisions, OnIt(a, r)' PROVE AttemptOn(a, r)'
      <3>1. AttemptOn(a, r) /\ (MovedOn(r)' <=> MovedOn(r))
        BY <1>1, <1>2, <1>5, <2>2 DEF AttemptHolds, OnIt
      <3> QED
        BY <1>2, <1>3, <1>4, <3>1 DEF AttemptOn, OnIt
    <2> QED
      BY <2>1, <2>2 DEF AttemptHolds
  <1> QED
    BY <1>6, <1>7, <1>8, <1>9, <1>10 DEF PreviewInv

\* A step of an attempt a at revision r: what it leaves of the other revisions and attempts.
StepOf(a, r) ==
    /\ UNCHANGED <<owner, fragment, assetJobs, videoJob, doubled>>
    /\ unsure => unsure'
    /\ \A b \in Renderers \ {a} : renders'[b] = renders[b]
    /\ renders'[a].at # "idle" => renders'[a].revision = r
    /\ \A q \in Revisions \ {r} : /\ assets'[q] = assets[q] /\ files'[q] = files[q]
                                  /\ tries'[q] = tries[q] /\ (q \in spilled <=> q \in spilled')
    /\ tries'[r] \in {0, tries[r]}
    /\ preview'.asset # preview.asset => \A q \in Revisions \ {r} : assets[q] # "ready"

LEMMA AttemptSteps ==
    ASSUME PreviewInv, NEW a \in Renderers, NEW r \in Revisions, OnIt(a, r), StepOf(a, r),
           PreviewTypeOK', PreviewRowHolds', NotTriedAgain', DeletionHolds(r)', FileHolds(r)',
           OnIt(a, r)' => AttemptOn(a, r)'
    PROVE  PreviewInv'
  <1>1. /\ PreviewTypeOK /\ PreviewRowHolds
        /\ \A q \in Revisions : DeletionHolds(q) /\ FileHolds(q) /\ (fragment.revision < q => tries[q] = 0)
        /\ \A b \in Renderers : AttemptHolds(b)
    BY DEF PreviewInv
  <1>2. /\ UNCHANGED <<owner, fragment, assetJobs, videoJob, doubled>>
        /\ unsure => unsure'
        /\ \A b \in Renderers \ {a} : renders'[b] = renders[b]
        /\ renders'[a].at # "idle" => renders'[a].revision = r
        /\ \A q \in Revisions \ {r} : /\ assets'[q] = assets[q] /\ files'[q] = files[q]
                                      /\ tries'[q] = tries[q] /\ (q \in spilled <=> q \in spilled')
        /\ tries'[r] \in {0, tries[r]}
        /\ preview'.asset # preview.asset => \A q \in Revisions \ {r} : assets[q] # "ready"
    BY DEF StepOf
  <1>3. r \in 1..fragment.revision /\ AttemptOn(a, r)
    BY <1>1 DEF AttemptHolds, OnIt
  <1>4. \A q : MovedOn(q)' <=> MovedOn(q)
    BY <1>2 DEF MovedOn
  <1>5. \A b \in Renderers, q \in Revisions : b # a \/ q # r => (OnIt(b, q)' => OnIt(b, q))
    BY <1>2 DEF OnIt
  <1>6. \A b \in Renderers, q \in Revisions \ {r} : OnIt(b, q) => b # a
    BY DEF OnIt
  <1>7. ASSUME NEW q \in Revisions
        PROVE  DeletionHolds(q)' /\ FileHolds(q)' /\ (fragment'.revision < q => tries'[q] = 0)
    <2>1. CASE q = r
      <3>1. fragment'.revision < q => tries'[q] = 0
        BY <1>1, <1>2, <2>1
      <3> QED
        BY <2>1, <3>1
    <2>2. CASE q # r
      <3>1. DeletionHolds(q) /\ FileHolds(q) /\ (fragment.revision < q => tries[q] = 0)
        BY <1>1
      <3>2. /\ assets'[q] = assets[q] /\ files'[q] = files[q]
            /\ tries'[q] = tries[q] /\ (q \in spilled <=> q \in spilled')
        BY <1>2, <2>2
      <3>3. assets[q] = "ready" => preview'.asset = preview.asset
        BY <1>2, <2>2
      <3>4. DeletionHolds(q)'
        BY <1>2, <1>4, <3>1, <3>2, <3>3 DEF DeletionHolds
      <3>5. LooksAfter(q) => LooksAfter(q)'
        <4>1. ASSUME NEW b \in Renderers, OnIt(b, q), renders[b].at \in {"commit", "drop"}
              PROVE  OnIt(b, q)' /\ renders'[b].at \in {"commit", "drop"}
          <5>1. b # a
            BY <1>6, <2>2, <4>1
          <5> QED
            BY <1>2, <4>1, <5>1 DEF OnIt
        <4> QED
          BY <3>2, <4>1 DEF LooksAfter
      <3>6. FileHolds(q)'
        BY <1>2, <3>1, <3>2, <3>5 DEF FileHolds
      <3> QED
        BY <1>2, <3>1, <3>2, <3>4, <3>6
    <2> QED
      BY <2>1, <2>2
  <1>8. ASSUME NEW b \in Renderers PROVE AttemptHolds(b)'
    <2>1. renders'[b].at # "idle" => renders'[b].revision \in 1..fragment'.revision
      <3>1. renders[b].at # "idle" => renders[b].revision \in 1..fragment.revision
        BY <1>1 DEF AttemptHolds
      <3> QED
        BY <1>2, <1>3, <3>1
    <2>2. ASSUME NEW q \in Revisions, OnIt(b, q)' PROVE AttemptOn(b, q)'
      <3>1. CASE b = a
        BY <1>2, <2>2, <3>1 DEF OnIt
      <3>2. CASE b # a
        <4>1. OnIt(b, q) /\ AttemptOn(b, q) /\ renders'[b] = renders[b]
          BY <1>1, <1>2, <1>5, <2>2, <3>2 DEF AttemptHolds
        <4>2. tries[q] = 0 => tries'[q] = 0
          BY <1>2
        <4>3. CASE q = r
          <5>1. doubled
            BY <1>3, <3>2, <4>1, <4>3 DEF AttemptOn
          <5> QED
            BY <1>2, <4>1, <4>2, <5>1 DEF AttemptOn
        <4>4. CASE q # r
          <5>1. /\ assets'[q] = assets[q] /\ files'[q] = files[q]
            BY <1>2, <4>4
          <5>2. \A c \in Renderers : OnIt(c, q)' => OnIt(c, q)
            BY <1>5, <4>4
          <5>3. ~ doubled' => \A c \in Renderers \ {b} : ~ OnIt(c, q)'
            BY <1>2, <4>1, <5>2 DEF AttemptOn
          <5> QED
            BY <1>2, <1>4, <4>1, <4>2, <5>1, <5>3 DEF AttemptOn
        <4> QED
          BY <4>3, <4>4
      <3> QED
        BY <3>1, <3>2
    <2> QED
      BY <2>1, <2>2 DEF AttemptHolds
  <1> QED
    BY <1>7, <1>8 DEF PreviewInv

LEMMA AttemptFacts ==
    ASSUME PreviewInv, NEW a \in Renderers, renders[a].at # "idle", NEW r, r = renders[a].revision
    PROVE  /\ r \in Revisions /\ r \in Nat /\ r <= fragment.revision
           /\ OnIt(a, r) /\ AttemptOn(a, r) /\ DeletionHolds(r) /\ FileHolds(r)
           /\ PreviewTypeOK /\ PreviewRowHolds /\ NotTriedAgain
  <1>1. PreviewTypeOK /\ PreviewRowHolds /\ NotTriedAgain /\ AttemptHolds(a)
    BY DEF PreviewInv
  <1>2. fragment.revision \in Revisions /\ fragment.revision \in Nat /\ r \in 1..fragment.revision
    BY <1>1, RevisionNumbers DEF AttemptHolds
  <1>3. r \in Revisions /\ r \in Nat /\ r <= fragment.revision
    BY <1>2, RevisionsAssumption DEF Revisions
  <1>4. OnIt(a, r)
    BY DEF OnIt
  <1> QED
    BY <1>1, <1>3, <1>4 DEF AttemptHolds, PreviewInv

LEMMA RenderMoves ==
    ASSUME PreviewTypeOK, NEW a \in Renderers, NEW at \in RenderStages, RenderGoes(a, at)
    PROVE  /\ renders' \in [Renderers -> RenderState]
           /\ renders'[a].at = at /\ renders'[a].revision = renders[a].revision
           /\ renders'[a].last = renders[a].last
           /\ \A b \in Renderers \ {a} : renders'[b] = renders[b]
  <1>1. renders \in [Renderers -> RenderState] /\ renders' = [renders EXCEPT ![a].at = at]
    BY DEF PreviewTypeOK, RenderGoes
  <1>2. renders'[a] = [renders[a] EXCEPT !.at = at] /\ \A b \in Renderers \ {a} : renders'[b] = renders[b]
    BY <1>1
  <1>3. renders[a] \in RenderState
    BY <1>1
  <1>4. renders'[a] \in RenderState
    BY <1>2, <1>3 DEF RenderState
  <1> QED
    BY <1>1, <1>2, <1>3, <1>4 DEF RenderState

LEMMA RenderEnds ==
    ASSUME PreviewTypeOK, NEW a \in Renderers, Ends(a)
    PROVE  /\ renders' \in [Renderers -> RenderState]
           /\ renders'[a].at = "idle"
           /\ \A b \in Renderers \ {a} : renders'[b] = renders[b]
  <1>1. renders \in [Renderers -> RenderState] /\ renders' = [renders EXCEPT ![a] = NoRender]
    BY DEF PreviewTypeOK, Ends
  <1> QED
    BY <1>1, NoRenderIsIdle

LEMMA TriesServed ==
    ASSUME PreviewTypeOK, NEW r \in Revisions, Served(r)
    PROVE  /\ tries' \in [Revisions -> Nat] /\ tries'[r] = 0
           /\ \A q \in Revisions \ {r} : tries'[q] = tries[q]
  BY DEF PreviewTypeOK, Served

\* An attempt ends and leaves the row of the preview as it is.
LEMMA AttemptStops ==
    ASSUME PreviewInv, NEW a \in Renderers, NEW r \in Revisions, OnIt(a, r), Ends(a),
           UNCHANGED <<owner, fragment, preview, assets, assetJobs, videoJob, doubled, unsure>>,
           tries' \in [Revisions -> Nat], tries'[r] \in {0, tries[r]},
           files' \in [Revisions -> {"none", "empty", "whole"}], spilled' \subseteq Revisions,
           flaws' \in Nat,
           \A q \in Revisions \ {r} : /\ tries'[q] = tries[q] /\ files'[q] = files[q]
                                      /\ (q \in spilled <=> q \in spilled'),
           FileHolds(r)'
    PROVE  PreviewInv'
  <1>1. PreviewTypeOK /\ PreviewRowHolds /\ NotTriedAgain /\ DeletionHolds(r)
    BY DEF PreviewInv
  <1>2. /\ renders' \in [Renderers -> RenderState] /\ renders'[a].at = "idle"
        /\ \A b \in Renderers \ {a} : renders'[b] = renders[b]
    BY <1>1, RenderEnds
  <1>3. UNCHANGED <<owner, fragment, preview, assets, assetJobs, videoJob, doubled, unsure>>
    OBVIOUS
  <1>4. PreviewTypeOK'
    BY <1>1, <1>2, <1>3 DEF PreviewTypeOK
  <1>5. PreviewRowHolds'
    BY <1>1, <1>3 DEF PreviewRowHolds
  <1>6. NotTriedAgain'
    <2>1. \A b \in Renderers, q \in Revisions : OnIt(b, q)' => OnIt(b, q)
      BY <1>2 DEF OnIt
    <2>2. \A q \in Revisions : tries[q] = 0 => tries'[q] = 0
      OBVIOUS
    <2>3. preview.asset # 0 => preview.asset \in Revisions
      BY <1>1, RevisionNumbers
    <2>4. preview' = preview /\ doubled' = doubled
      BY <1>3
    <2>5. ASSUME preview.asset # 0, preview.status # "ready", ~ doubled
          PROVE  tries'[preview.asset] = 0 /\ \A b \in Renderers : ~ OnIt(b, preview.asset)'
      <3>1. tries[preview.asset] = 0 /\ \A b \in Renderers : ~ OnIt(b, preview.asset)
        BY <1>1, <2>5 DEF NotTriedAgain
      <3>2. PICK k \in Revisions : k = preview.asset
        BY <2>3, <2>5
      <3>3. tries'[k] = 0 /\ \A b \in Renderers : ~ OnIt(b, k)'
        BY <2>1, <2>2, <3>1, <3>2
      <3> QED
        BY <2>4, <3>2, <3>3 DEF OnIt
    <2> QED
      BY <2>4, <2>5 DEF NotTriedAgain, OnIt
  <1>7. DeletionHolds(r)'
    BY <1>1, <1>3 DEF DeletionHolds, MovedOn
  <1>8. StepOf(a, r) /\ ~ OnIt(a, r)'
    BY <1>2, <1>3 DEF StepOf, OnIt
  <1> QED
    BY <1>4, <1>5, <1>6, <1>7, <1>8, AttemptSteps

\* Until its attempt is about to commit, nothing depends on it for the file.
LEMMA FileLookedAfter ==
    ASSUME NEW a \in Renderers, NEW r \in Revisions, LooksAfter(r),
           renders[a].at \notin {"commit", "drop"},
           \A b \in Renderers \ {a} : renders'[b] = renders[b],
           files'[r] = files[r], r \in spilled => r \in spilled'
    PROVE  LooksAfter(r)'
  <1>1. CASE files[r] = "none" \/ r \in spilled
    BY <1>1 DEF LooksAfter
  <1>2. ASSUME NEW b \in Renderers, OnIt(b, r), renders[b].at \in {"commit", "drop"}
        PROVE  OnIt(b, r)' /\ renders'[b].at \in {"commit", "drop"}
    BY <1>2 DEF OnIt
  <1> QED
    BY <1>1, <1>2 DEF LooksAfter

\* While the attempt of r has not published, or has just found the file that is there.
LEMMA FileAsBefore ==
    ASSUME NEW a \in Renderers, NEW r \in Revisions, FileHolds(r),
           renders[a].at \notin {"commit", "drop"},
           \A b \in Renderers \ {a} : renders'[b] = renders[b],
           files'[r] = files[r], r \in spilled => r \in spilled',
           UNCHANGED <<owner, assets, assetJobs, videoJob, doubled>>
    PROVE  FileHolds(r)'
  <1>1. LooksAfter(r) => LooksAfter(r)'
    BY FileLookedAfter
  <1> QED
    BY <1>1 DEF FileHolds

LEMMA ReadRequestKeeps == ASSUME PreviewInv, NEW a \in Renderers, ReadRequest(a) PROVE PreviewInv'
  <1>1. PICK r : r = renders[a].revision
    OBVIOUS
  <1>2. renders[a].at = "read"
    BY DEF ReadRequest, RenderAt
  <1>3. /\ r \in Revisions /\ OnIt(a, r) /\ AttemptOn(a, r) /\ DeletionHolds(r) /\ FileHolds(r)
        /\ PreviewTypeOK /\ PreviewRowHolds /\ NotTriedAgain
    BY <1>1, <1>2, AttemptFacts
  <1>4. UNCHANGED <<owner, fragment, preview, assets, files, assetJobs, videoJob, flaws,
                    doubled, unsure, spilled>>
    BY DEF ReadRequest, History
  <1>5. CASE Wanted(r) /\ ~ (preview.revision = r /\ preview.status = "ready")
    <2>1. RenderGoes(a, "claim") /\ UNCHANGED tries
      BY <1>1, <1>5 DEF ReadRequest
    <2>2. /\ renders' \in [Renderers -> RenderState]
          /\ renders'[a].at = "claim" /\ renders'[a].revision = r
          /\ renders'[a].last = renders[a].last
          /\ \A b \in Renderers \ {a} : renders'[b] = renders[b]
      BY <1>1, <1>3, <2>1, RenderMoves DEF RenderStages
    <2>3. PreviewTypeOK' /\ PreviewRowHolds' /\ DeletionHolds(r)'
      BY <1>3, <1>4, <2>1, <2>2 DEF PreviewTypeOK, PreviewRowHolds, DeletionHolds, MovedOn
    <2>4. \A b \in Renderers, q \in Revisions : OnIt(b, q)' <=> OnIt(b, q)
      BY <1>1, <1>2, <2>2 DEF OnIt
    <2>5. NotTriedAgain'
      <3>1. preview.asset # 0 => preview.asset \in Revisions
        BY <1>3, RevisionNumbers
      <3> QED
        BY <1>3, <1>4, <2>1, <2>4, <3>1 DEF NotTriedAgain, OnIt
    <2>6. FileHolds(r)'
      BY <1>2, <1>3, <1>4, <2>2, FileAsBefore
    <2>7. assets[r] # "ready" \/ doubled
      <3>1. assets[r] = "ready" => preview.asset = r /\ preview.asset # 0
        BY <1>3, RevisionNumbers DEF DeletionHolds
      <3>2. preview.asset # 0 => preview.asset = preview.revision
        BY <1>3 DEF PreviewRowHolds
      <3>3. preview.asset = r /\ preview.asset # 0 /\ preview.status # "ready" => doubled
        BY <1>3 DEF NotTriedAgain
      <3> QED
        BY <1>5, <3>1, <3>2, <3>3
    <2>8. AttemptOn(a, r)'
      <3>1. ~ doubled' => \A b \in Renderers \ {a} : ~ OnIt(b, r)'
        BY <1>3, <1>4, <2>4 DEF AttemptOn
      <3> QED
        BY <1>3, <1>4, <2>1, <2>2, <2>7, <3>1 DEF AttemptOn
    <2>9. StepOf(a, r)
      BY <1>4, <2>1, <2>2 DEF StepOf
    <2> QED
      BY <1>3, <2>3, <2>5, <2>6, <2>8, <2>9, AttemptSteps
  <1>6. CASE ~ (Wanted(r) /\ ~ (preview.revision = r /\ preview.status = "ready"))
    <2>1. Ends(a) /\ Served(r)
      BY <1>1, <1>6 DEF ReadRequest
    <2>2. /\ tries' \in [Revisions -> Nat] /\ tries'[r] = 0
          /\ \A q \in Revisions \ {r} : tries'[q] = tries[q]
      BY <1>3, <2>1, TriesServed
    <2>3. \A b \in Renderers \ {a} : renders'[b] = renders[b]
      BY <1>3, <2>1, RenderEnds
    <2>4. FileHolds(r)'
      BY <1>2, <1>3, <1>4, <2>3, FileAsBefore
    <2>5. /\ files' \in [Revisions -> {"none", "empty", "whole"}] /\ spilled' \subseteq Revisions
          /\ flaws' \in Nat
      BY <1>3, <1>4 DEF PreviewTypeOK
    <2> QED
      BY <1>3, <1>4, <2>1, <2>2, <2>4, <2>5, AttemptStops
  <1> QED
    BY <1>5, <1>6

LEMMA ClaimKeeps == ASSUME PreviewInv, NEW a \in Renderers, Claim(a) PROVE PreviewInv'
  <1>1. PICK r : r = renders[a].revision
    OBVIOUS
  <1>2. renders[a].at = "claim"
    BY DEF Claim, RenderAt
  <1>3. /\ r \in Revisions /\ r \in Nat /\ OnIt(a, r) /\ AttemptOn(a, r) /\ DeletionHolds(r)
        /\ FileHolds(r) /\ PreviewTypeOK /\ PreviewRowHolds /\ NotTriedAgain
    BY <1>1, <1>2, AttemptFacts
  <1>4. UNCHANGED <<owner, fragment, assets, files, assetJobs, videoJob, flaws,
                    doubled, unsure, spilled>>
    BY DEF Claim, History
  <1>5. CASE preview.revision = r /\ preview.status \in {"pending", "failed"}
    <2>1. /\ preview' = [preview EXCEPT !.status = "pending"]
          /\ RenderGoes(a, "publish") /\ UNCHANGED tries
      BY <1>1, <1>5 DEF Claim
    <2>2. /\ renders' \in [Renderers -> RenderState]
          /\ renders'[a].at = "publish" /\ renders'[a].revision = r
          /\ renders'[a].last = renders[a].last
          /\ \A b \in Renderers \ {a} : renders'[b] = renders[b]
      BY <1>1, <1>3, <2>1, RenderMoves DEF RenderStages
    <2>3. /\ preview' \in [status : {"none", "pending", "ready", "failed"},
                           revision : 0..MaxRevisions, asset : 0..MaxRevisions]
          /\ preview'.status = "pending" /\ preview'.revision = preview.revision
          /\ preview'.asset = preview.asset /\ preview.status # "none"
      BY <1>3, <1>5, <2>1 DEF PreviewTypeOK
    <2>4. fragment.state # "gone" /\ r = fragment.timed
      BY <1>3, <1>5, <2>3, NoPreviewHasNoAsset DEF PreviewRowHolds
    <2>5. PreviewTypeOK' /\ DeletionHolds(r)'
      BY <1>3, <1>4, <2>1, <2>2, <2>3 DEF PreviewTypeOK, DeletionHolds, MovedOn
    <2>6. PreviewRowHolds'
      BY <1>3, <1>4, <2>3, <2>4 DEF PreviewRowHolds
    <2>7. \A b \in Renderers, q \in Revisions : OnIt(b, q)' <=> OnIt(b, q)
      BY <1>1, <1>2, <2>2 DEF OnIt
    <2>8. NotTriedAgain'
      <3>1. preview.asset # 0 => preview.asset \in Revisions
        BY <1>3, RevisionNumbers
      <3> QED
        BY <1>3, <1>4, <1>5, <2>1, <2>3, <2>7, <3>1 DEF NotTriedAgain, OnIt
    <2>9. FileHolds(r)'
      BY <1>2, <1>3, <1>4, <2>2, FileAsBefore
    <2>10. AttemptOn(a, r)'
      <3>1. ~ doubled' => \A b \in Renderers \ {a} : ~ OnIt(b, r)'
        BY <1>3, <1>4, <2>7 DEF AttemptOn
      <3>2. r <= fragment'.timed
        BY <1>3, <1>4, <2>4, RevisionNumbers
      <3> QED
        BY <1>2, <1>3, <1>4, <2>1, <2>2, <3>1, <3>2 DEF AttemptOn
    <2>11. StepOf(a, r)
      BY <1>4, <2>1, <2>2, <2>3 DEF StepOf
    <2> QED
      BY <1>3, <2>5, <2>6, <2>8, <2>9, <2>10, <2>11, AttemptSteps
  <1>6. CASE ~ (preview.revision = r /\ preview.status \in {"pending", "failed"})
    <2>1. Ends(a) /\ Served(r) /\ UNCHANGED preview
      BY <1>1, <1>6 DEF Claim
    <2>2. /\ tries' \in [Revisions -> Nat] /\ tries'[r] = 0
          /\ \A q \in Revisions \ {r} : tries'[q] = tries[q]
      BY <1>3, <2>1, TriesServed
    <2>3. \A b \in Renderers \ {a} : renders'[b] = renders[b]
      BY <1>3, <2>1, RenderEnds
    <2>4. FileHolds(r)'
      BY <1>2, <1>3, <1>4, <2>3, FileAsBefore
    <2>5. /\ files' \in [Revisions -> {"none", "empty", "whole"}] /\ spilled' \subseteq Revisions
          /\ flaws' \in Nat
      BY <1>3, <1>4 DEF PreviewTypeOK
    <2> QED
      BY <1>3, <1>4, <2>1, <2>2, <2>4, <2>5, AttemptStops
  <1> QED
    BY <1>5, <1>6

LEMMA PublishPreviewKeeps ==
    ASSUME PreviewInv, NEW a \in Renderers, PublishPreview(a) PROVE PreviewInv'
  <1>1. PICK r : r = renders[a].revision
    OBVIOUS
  <1>2. renders[a].at = "publish"
    BY DEF PublishPreview, RenderAt
  <1>3. /\ r \in Revisions /\ OnIt(a, r) /\ AttemptOn(a, r) /\ DeletionHolds(r)
        /\ FileHolds(r) /\ PreviewTypeOK /\ PreviewRowHolds /\ NotTriedAgain
    BY <1>1, <1>2, AttemptFacts
  <1>4. UNCHANGED <<owner, fragment, preview, assets, tries, assetJobs, videoJob, flaws,
                    doubled, unsure, spilled>>
    BY DEF PublishPreview, History
  <1>5. PICK at \in {"failed", "commit"} :
          /\ RenderGoes(a, at)
          /\ at = "failed" => files' = files
          /\ at = "commit" => files' = [files EXCEPT ![r] = "whole"]
    BY <1>1 DEF PublishPreview
  <1>6. /\ renders' \in [Renderers -> RenderState]
        /\ renders'[a].at = at /\ renders'[a].revision = r
        /\ renders'[a].last = renders[a].last
        /\ \A b \in Renderers \ {a} : renders'[b] = renders[b]
    BY <1>1, <1>3, <1>5, RenderMoves DEF RenderStages
  <1>7. /\ files' \in [Revisions -> {"none", "empty", "whole"}]
        /\ \A q \in Revisions \ {r} : files'[q] = files[q]
        /\ at = "failed" => files'[r] = files[r]
        /\ at = "commit" => files'[r] = "whole"
    BY <1>3, <1>5 DEF PreviewTypeOK
  <1>8. PreviewTypeOK' /\ PreviewRowHolds' /\ DeletionHolds(r)'
    BY <1>3, <1>4, <1>6, <1>7 DEF PreviewTypeOK, PreviewRowHolds, DeletionHolds, MovedOn
  <1>9. \A b \in Renderers, q \in Revisions : OnIt(b, q)' <=> OnIt(b, q)
    BY <1>1, <1>2, <1>6 DEF OnIt
  <1>10. NotTriedAgain'
    <2>1. preview.asset # 0 => preview.asset \in Revisions
      BY <1>3, RevisionNumbers
    <2> QED
      BY <1>3, <1>4, <1>9, <2>1 DEF NotTriedAgain, OnIt
  <1>11. FileHolds(r)'
    <2>1. CASE at = "failed"
      BY <1>2, <1>3, <1>4, <1>6, <1>7, <2>1, FileAsBefore
    <2>2. CASE at = "commit"
      <3>1. LooksAfter(r)'
        BY <1>6, <2>2 DEF LooksAfter, OnIt
      <3> QED
        BY <1>7, <2>2, <3>1 DEF FileHolds
    <2> QED
      BY <2>1, <2>2
  <1>12. AttemptOn(a, r)'
    <2>1. ~ doubled' => \A b \in Renderers \ {a} : ~ OnIt(b, r)'
      BY <1>3, <1>4, <1>9 DEF AttemptOn
    <2> QED
      BY <1>2, <1>3, <1>4, <1>6, <1>7, <2>1 DEF AttemptOn
  <1>13. StepOf(a, r)
    BY <1>4, <1>6, <1>7 DEF StepOf
  <1> QED
    BY <1>3, <1>8, <1>10, <1>11, <1>12, <1>13, AttemptSteps

\* What the commit finds under its locks: the request of this revision, and no deletion.
LEMMA CommitFinds ==
    ASSUME PreviewInv, NEW a \in Renderers, NEW r, r = renders[a].revision,
           renders[a].at = "commit", StillCurrent(r)
    PROVE  /\ owner = "live" /\ fragment.state = "live"
           /\ fragment.timed = r /\ preview.revision = r /\ ~ MovedOn(r)
           /\ assets[r] # "deleting" /\ assetJobs[r] = "none" /\ videoJob.at = "none"
  <1>1. /\ r \in Revisions /\ AttemptOn(a, r) /\ DeletionHolds(r) /\ PreviewTypeOK /\ PreviewRowHolds
    BY AttemptFacts
  <1>2. owner = "live" /\ fragment.state = "live" /\ fragment.revision = r
    BY DEF StillCurrent, Wanted
  <1>3. fragment.timed = r
    <2>1. r <= fragment.timed
      BY <1>1 DEF AttemptOn
    <2> QED
      BY <1>1, <1>2, <2>1, RevisionNumbers DEF PreviewRowHolds
  <1>4. ~ MovedOn(r)
    <2>1. fragment.revision \in Nat
      BY <1>1, RevisionNumbers
    <2> QED
      BY <1>2, <2>1 DEF MovedOn
  <1> QED
    BY <1>1, <1>2, <1>3, <1>4 DEF PreviewRowHolds, DeletionHolds

\* The asset goes in, whatever the attempt is told.
LEMMA AssetGoesIn ==
    ASSUME PreviewInv, NEW a \in Renderers, NEW r, r = renders[a].revision,
           renders[a].at = "commit", StillCurrent(r), assets[r] = "none",
           assets' = [assets EXCEPT ![r] = "ready"],
           preview' = [preview EXCEPT !.status = "ready", !.asset = r],
           UNCHANGED <<owner, fragment, files, assetJobs, videoJob, doubled>>,
           r \in spilled => r \in spilled'
    PROVE  /\ preview' \in [status : {"none", "pending", "ready", "failed"},
                            revision : 0..MaxRevisions, asset : 0..MaxRevisions]
           /\ assets' \in [Revisions -> {"none", "ready", "deleting"}]
           /\ assets'[r] = "ready" /\ \A q \in Revisions \ {r} : assets'[q] = assets[q]
           /\ \A q \in Revisions \ {r} : assets[q] # "ready"
           /\ PreviewRowHolds' /\ DeletionHolds(r)' /\ FileHolds(r)' /\ NotTriedAgain'
  <1>1. /\ r \in Revisions /\ AttemptOn(a, r) /\ DeletionHolds(r) /\ FileHolds(r)
        /\ PreviewTypeOK /\ PreviewRowHolds
    BY AttemptFacts
  <1>2. /\ owner = "live" /\ fragment.state = "live"
        /\ fragment.timed = r /\ preview.revision = r /\ ~ MovedOn(r)
        /\ assetJobs[r] = "none" /\ videoJob.at = "none"
    BY CommitFinds
  <1>3. /\ preview' \in [status : {"none", "pending", "ready", "failed"},
                         revision : 0..MaxRevisions, asset : 0..MaxRevisions]
        /\ preview'.status = "ready" /\ preview'.asset = r /\ preview'.revision = preview.revision
    <2>1. r \in 0..MaxRevisions
      BY <1>1, RevisionsAssumption DEF Revisions
    <2> QED
      BY <1>1, <2>1 DEF PreviewTypeOK
  <1>4. /\ assets' \in [Revisions -> {"none", "ready", "deleting"}]
        /\ assets'[r] = "ready" /\ \A q \in Revisions \ {r} : assets'[q] = assets[q]
    BY <1>1 DEF PreviewTypeOK
  <1>5. \A q \in Revisions \ {r} : assets[q] # "ready"
    <2>1. \A q \in Revisions : q # 0 /\ (assets[q] = "ready" => preview.asset = q)
      BY <1>1, RevisionNumbers DEF PreviewInv, DeletionHolds
    <2> QED
      BY <1>1, <1>2, <2>1 DEF PreviewRowHolds
  <1>6. PreviewRowHolds'
    BY <1>1, <1>2, <1>3, <1>4 DEF PreviewRowHolds
  <1>7. DeletionHolds(r)'
    BY <1>2, <1>3, <1>4 DEF DeletionHolds
  <1>8. FileHolds(r)'
    <2>1. files[r] = "whole" \/ doubled
      BY <1>1, <1>2 DEF AttemptOn
    <2> QED
      BY <1>1, <1>2, <1>4, <2>1 DEF FileHolds
  <1>9. NotTriedAgain'
    BY <1>3 DEF NotTriedAgain
  <1> QED
    BY <1>3, <1>4, <1>5, <1>6, <1>7, <1>8, <1>9

\* The attempt leaves the commit without an asset: the file is dropped, or is an asset already.
LEMMA CommitLeaves ==
    ASSUME PreviewInv, NEW a \in Renderers, NEW r, r = renders[a].revision,
           renders[a].at = "commit", NEW at \in {"drop", "failed"}, RenderGoes(a, at),
           UNCHANGED <<owner, fragment, preview, assets, files, tries, assetJobs, videoJob,
                       doubled, unsure>>,
           spilled' \subseteq Revisions, flaws' \in Nat,
           \A q \in Revisions \ {r} : q \in spilled <=> q \in spilled',
           r \in spilled => r \in spilled',
           at = "drop" \/ r \in spilled' \/ (StillCurrent(r) /\ assets[r] # "none")
    PROVE  PreviewInv'
  <1>1. /\ r \in Revisions /\ OnIt(a, r) /\ AttemptOn(a, r) /\ DeletionHolds(r)
        /\ FileHolds(r) /\ PreviewTypeOK /\ PreviewRowHolds /\ NotTriedAgain
    BY AttemptFacts
  <1>2. /\ renders' \in [Renderers -> RenderState]
        /\ renders'[a].at = at /\ renders'[a].revision = r
        /\ renders'[a].last = renders[a].last
        /\ \A b \in Renderers \ {a} : renders'[b] = renders[b]
    BY <1>1, RenderMoves DEF RenderStages
  <1>3. UNCHANGED <<owner, fragment, preview, assets, files, tries, assetJobs, videoJob,
                    doubled, unsure>>
    OBVIOUS
  <1>4. PreviewTypeOK' /\ PreviewRowHolds' /\ DeletionHolds(r)'
    BY <1>1, <1>2, <1>3 DEF PreviewTypeOK, PreviewRowHolds, DeletionHolds, MovedOn
  <1>5. \A b \in Renderers, q \in Revisions : OnIt(b, q)' <=> OnIt(b, q)
    BY <1>1, <1>2 DEF OnIt
  <1>6. NotTriedAgain'
    <2>1. preview.asset # 0 => preview.asset \in Revisions
      BY <1>1, RevisionNumbers
    <2> QED
      BY <1>1, <1>3, <1>5, <2>1 DEF NotTriedAgain, OnIt
  <1>7. FileHolds(r)'
    <2>1. CASE at = "drop" \/ r \in spilled'
      <3>1. LooksAfter(r)'
        BY <1>2, <2>1 DEF LooksAfter, OnIt
      <3> QED
        BY <1>1, <1>3, <3>1 DEF FileHolds
    <2>2. CASE StillCurrent(r) /\ assets[r] # "none"
      <3>1. assetJobs[r] = "none" /\ videoJob.at = "none"
        BY <2>2, CommitFinds
      <3> QED
        BY <1>1, <1>3, <2>2, <3>1 DEF FileHolds
    <2> QED
      BY <2>1, <2>2
  <1>8. AttemptOn(a, r)'
    <2>1. ~ doubled' => \A b \in Renderers \ {a} : ~ OnIt(b, r)'
      BY <1>1, <1>3, <1>5 DEF AttemptOn
    <2> QED
      BY <1>1, <1>2, <1>3, <2>1 DEF AttemptOn
  <1>9. StepOf(a, r)
    BY <1>2, <1>3 DEF StepOf
  <1> QED
    BY <1>1, <1>4, <1>6, <1>7, <1>8, <1>9, AttemptSteps

LEMMA CommitPreviewKeeps ==
    ASSUME PreviewInv, NEW a \in Renderers, CommitPreview(a) PROVE PreviewInv'
  <1>1. PICK r : r = renders[a].revision
    OBVIOUS
  <1>2. renders[a].at = "commit"
    BY DEF CommitPreview, RenderAt
  <1>3. /\ r \in Revisions /\ OnIt(a, r) /\ PreviewTypeOK
    BY <1>1, <1>2, AttemptFacts
  <1>4. /\ UNCHANGED <<owner, fragment, files, assetJobs, videoJob, flaws, doubled, unsure, spilled>>
        /\ spilled' \subseteq Revisions /\ flaws' \in Nat
    BY <1>3 DEF CommitPreview, History, PreviewTypeOK
  <1>5. CASE ~ StillCurrent(r)
    <2>1. RenderGoes(a, "drop") /\ UNCHANGED <<preview, assets, tries>>
      BY <1>1, <1>5 DEF CommitPreview
    <2> QED
      BY <1>1, <1>2, <1>4, <2>1, CommitLeaves
  <1>6. CASE StillCurrent(r) /\ assets[r] # "none"
    <2>1. RenderGoes(a, "failed") /\ UNCHANGED <<preview, assets, tries>>
      BY <1>1, <1>6 DEF CommitPreview
    <2> QED
      BY <1>1, <1>2, <1>4, <1>6, <2>1, CommitLeaves
  <1>7. CASE StillCurrent(r) /\ assets[r] = "none"
    <2>1. /\ assets' = [assets EXCEPT ![r] = "ready"]
          /\ preview' = [preview EXCEPT !.status = "ready", !.asset = r]
          /\ Ends(a) /\ Served(r)
      BY <1>1, <1>7 DEF CommitPreview
    <2>2. /\ preview' \in [status : {"none", "pending", "ready", "failed"},
                           revision : 0..MaxRevisions, asset : 0..MaxRevisions]
          /\ assets' \in [Revisions -> {"none", "ready", "deleting"}]
          /\ assets'[r] = "ready" /\ \A q \in Revisions \ {r} : assets'[q] = assets[q]
          /\ \A q \in Revisions \ {r} : assets[q] # "ready"
          /\ PreviewRowHolds' /\ DeletionHolds(r)' /\ FileHolds(r)' /\ NotTriedAgain'
      <3>1. UNCHANGED <<owner, fragment, files, assetJobs, videoJob, doubled>> /\ spilled' = spilled
        BY <1>4
      <3>2. StillCurrent(r) /\ assets[r] = "none"
        BY <1>7
      <3> QED
        BY <1>1, <1>2, <2>1, <3>1, <3>2, AssetGoesIn
    <2>3. /\ tries' \in [Revisions -> Nat] /\ tries'[r] = 0
          /\ \A q \in Revisions \ {r} : tries'[q] = tries[q]
      BY <1>3, <2>1, TriesServed
    <2>4. /\ renders' \in [Renderers -> RenderState] /\ renders'[a].at = "idle"
          /\ \A b \in Renderers \ {a} : renders'[b] = renders[b]
      BY <1>3, <2>1, RenderEnds
    <2>5. PreviewTypeOK'
      BY <1>3, <1>4, <2>2, <2>3, <2>4 DEF PreviewTypeOK
    <2>6. StepOf(a, r) /\ ~ OnIt(a, r)'
      BY <1>4, <2>2, <2>3, <2>4 DEF StepOf, OnIt
    <2> QED
      BY <1>3, <2>2, <2>5, <2>6, AttemptSteps
  <1> QED
    BY <1>5, <1>6, <1>7

LEMMA DropPreviewKeeps == ASSUME PreviewInv, NEW a \in Renderers, DropPreview(a) PROVE PreviewInv'
  <1>1. PICK r : r = renders[a].revision
    OBVIOUS
  <1>2. renders[a].at = "drop"
    BY DEF DropPreview, RenderAt
  <1>3. r \in Revisions /\ OnIt(a, r) /\ AttemptOn(a, r) /\ FileHolds(r) /\ PreviewTypeOK
    BY <1>1, <1>2, AttemptFacts
  <1>4. /\ UNCHANGED <<owner, fragment, preview, assets, assetJobs, videoJob, flaws,
                       doubled, unsure, spilled>>
        /\ files' = [files EXCEPT ![r] = "none"] /\ Ends(a) /\ Served(r)
    BY <1>1 DEF DropPreview, History
  <1>5. /\ tries' \in [Revisions -> Nat] /\ tries'[r] = 0
        /\ \A q \in Revisions \ {r} : tries'[q] = tries[q]
    BY <1>3, <1>4, TriesServed
  <1>6. /\ files' \in [Revisions -> {"none", "empty", "whole"}] /\ files'[r] = "none"
        /\ \A q \in Revisions \ {r} : files'[q] = files[q]
        /\ spilled' \subseteq Revisions /\ flaws' \in Nat
    BY <1>3, <1>4 DEF PreviewTypeOK
  <1>7. FileHolds(r)'
    <2>1. LooksAfter(r)'
      BY <1>6 DEF LooksAfter
    <2>2. assets[r] # "ready" \/ doubled
      BY <1>2, <1>3 DEF AttemptOn
    <2> QED
      BY <1>4, <1>6, <2>1, <2>2 DEF FileHolds
  <1> QED
    BY <1>3, <1>4, <1>5, <1>6, <1>7, AttemptStops

LEMMA RenderFailsKeeps == ASSUME PreviewInv, NEW a \in Renderers, RenderFails(a) PROVE PreviewInv'
  <1>1. PICK r : r = renders[a].revision
    OBVIOUS
  <1>2. renders[a].at \in {"read", "claim", "publish", "commit", "drop"}
    BY DEF RenderFails
  <1>3. /\ r \in Revisions /\ OnIt(a, r) /\ AttemptOn(a, r) /\ DeletionHolds(r)
        /\ FileHolds(r) /\ PreviewTypeOK /\ PreviewRowHolds /\ NotTriedAgain
    BY <1>1, <1>2, AttemptFacts
  <1>4. /\ UNCHANGED <<owner, fragment, files, tries, assetJobs, videoJob, doubled>>
        /\ spilled' = IF renders[a].at \in {"commit", "drop"} THEN spilled \cup {r} ELSE spilled
        /\ flaws' = flaws + 1
    BY <1>1 DEF RenderFails, RenderAt, Flaw
  <1>5. PICK at : /\ at = IF renders[a].at \in {"read", "claim"} THEN "gone" ELSE "failed"
                  /\ RenderGoes(a, at)
    BY DEF RenderFails
  <1>6. /\ spilled' \subseteq Revisions /\ flaws' \in Nat
        /\ \A q \in Revisions \ {r} : q \in spilled <=> q \in spilled'
        /\ r \in spilled => r \in spilled'
        /\ renders[a].at \in {"commit", "drop"} => r \in spilled'
    BY <1>3, <1>4 DEF PreviewTypeOK
  <1>7. /\ renders' \in [Renderers -> RenderState]
        /\ renders'[a].at = at /\ renders'[a].revision = r
        /\ renders'[a].last = renders[a].last
        /\ \A b \in Renderers \ {a} : renders'[b] = renders[b]
    BY <1>1, <1>3, <1>5, RenderMoves DEF RenderStages
  <1>8. \A b \in Renderers, q \in Revisions : OnIt(b, q)' <=> OnIt(b, q)
    BY <1>1, <1>2, <1>5, <1>7 DEF OnIt
  <1>9. ~ doubled' => \A b \in Renderers \ {a} : ~ OnIt(b, r)'
    BY <1>3, <1>4, <1>8 DEF AttemptOn
  <1>10. CASE UNCHANGED <<preview, assets, unsure>>
    <2>1. PreviewTypeOK' /\ PreviewRowHolds' /\ DeletionHolds(r)'
      BY <1>3, <1>4, <1>6, <1>7, <1>10 DEF PreviewTypeOK, PreviewRowHolds, DeletionHolds, MovedOn
    <2>2. NotTriedAgain'
      <3>1. preview.asset # 0 => preview.asset \in Revisions
        BY <1>3, RevisionNumbers
      <3> QED
        BY <1>3, <1>4, <1>8, <1>10, <3>1 DEF NotTriedAgain, OnIt
    <2>3. FileHolds(r)'
      <3>1. CASE renders[a].at \in {"commit", "drop"}
        <4>1. LooksAfter(r)'
          BY <1>6, <3>1 DEF LooksAfter
        <4> QED
          BY <1>3, <1>4, <1>6, <1>10, <4>1 DEF FileHolds
      <3>2. CASE renders[a].at \notin {"commit", "drop"}
        BY <1>3, <1>4, <1>6, <1>7, <1>10, <3>2, FileAsBefore
      <3> QED
        BY <3>1, <3>2
    <2>4. AttemptOn(a, r)'
      BY <1>2, <1>3, <1>4, <1>5, <1>7, <1>9, <1>10 DEF AttemptOn
    <2>5. StepOf(a, r)
      BY <1>4, <1>6, <1>7, <1>10 DEF StepOf
    <2> QED
      BY <1>3, <2>1, <2>2, <2>3, <2>4, <2>5, AttemptSteps
  <1>11. CASE /\ renders[a].at = "commit" /\ StillCurrent(r) /\ assets[r] = "none"
              /\ assets' = [assets EXCEPT ![r] = "ready"]
              /\ preview' = [preview EXCEPT !.status = "ready", !.asset = r]
              /\ unsure' = TRUE
    <2>1. /\ preview' \in [status : {"none", "pending", "ready", "failed"},
                           revision : 0..MaxRevisions, asset : 0..MaxRevisions]
          /\ assets' \in [Revisions -> {"none", "ready", "deleting"}]
          /\ assets'[r] = "ready" /\ \A q \in Revisions \ {r} : assets'[q] = assets[q]
          /\ \A q \in Revisions \ {r} : assets[q] # "ready"
          /\ PreviewRowHolds' /\ DeletionHolds(r)' /\ FileHolds(r)' /\ NotTriedAgain'
      BY <1>1, <1>4, <1>6, <1>11, AssetGoesIn
    <2>2. PreviewTypeOK'
      BY <1>3, <1>4, <1>6, <1>7, <1>11, <2>1 DEF PreviewTypeOK
    <2>3. AttemptOn(a, r)'
      BY <1>3, <1>4, <1>5, <1>7, <1>9, <1>11 DEF AttemptOn
    <2>4. StepOf(a, r)
      BY <1>4, <1>6, <1>7, <1>11, <2>1 DEF StepOf
    <2> QED
      BY <1>3, <2>1, <2>2, <2>3, <2>4, AttemptSteps
  <1> QED
    BY <1>1, <1>10, <1>11 DEF RenderFails, RenderAt

LEMMA MarkPreviewFailedKeeps ==
    ASSUME PreviewInv, NEW a \in Renderers, MarkPreviewFailed(a) PROVE PreviewInv'
  <1>1. PICK r : r = renders[a].revision
    OBVIOUS
  <1>2. renders[a].at \in {"failed", "gone"}
    BY DEF MarkPreviewFailed
  <1>3. /\ r \in Revisions /\ OnIt(a, r) /\ AttemptOn(a, r) /\ DeletionHolds(r)
        /\ FileHolds(r) /\ PreviewTypeOK /\ PreviewRowHolds /\ NotTriedAgain
    BY <1>1, <1>2, AttemptFacts
  <1>4. /\ UNCHANGED <<owner, fragment, assets, files, tries, assetJobs, videoJob, flaws,
                       doubled, unsure, spilled>>
        /\ Ends(a)
        /\ \/ preview' = preview
           \/ /\ preview' = [preview EXCEPT !.status = "failed"]
              /\ renders[a].at = "failed" /\ renders[a].last
              /\ preview.revision = r /\ fragment.revision = r /\ fragment.state = "live"
    BY <1>1 DEF MarkPreviewFailed, History, RenderAt
  <1>5. /\ renders' \in [Renderers -> RenderState] /\ renders'[a].at = "idle"
        /\ \A b \in Renderers \ {a} : renders'[b] = renders[b]
    BY <1>3, <1>4, RenderEnds
  <1>6. FileHolds(r)'
    BY <1>2, <1>3, <1>4, <1>5, FileAsBefore
  <1>7. CASE preview' = preview
    <2>1. /\ tries' \in [Revisions -> Nat] /\ files' \in [Revisions -> {"none", "empty", "whole"}]
          /\ spilled' \subseteq Revisions /\ flaws' \in Nat
      BY <1>3, <1>4 DEF PreviewTypeOK
    <2> QED
      BY <1>3, <1>4, <1>6, <1>7, <2>1, AttemptStops
  <1>8. CASE /\ preview' = [preview EXCEPT !.status = "failed"]
             /\ renders[a].at = "failed" /\ renders[a].last
             /\ preview.revision = r /\ fragment.revision = r /\ fragment.state = "live"
    <2>1. /\ preview' \in [status : {"none", "pending", "ready", "failed"},
                           revision : 0..MaxRevisions, asset : 0..MaxRevisions]
          /\ preview'.status = "failed" /\ preview'.revision = preview.revision
          /\ preview'.asset = preview.asset
      BY <1>3, <1>8 DEF PreviewTypeOK
    <2>2. preview.asset # 0 => preview.asset = r /\ assets[r] = "ready"
      BY <1>3, <1>8 DEF PreviewRowHolds
    <2>3. /\ assets[r] # "ready" \/ doubled \/ unsure
          /\ tries[r] = 0 /\ (~ doubled => \A b \in Renderers \ {a} : ~ OnIt(b, r))
      BY <1>3, <1>8 DEF AttemptOn
    <2>4. PreviewTypeOK' /\ DeletionHolds(r)'
      BY <1>3, <1>4, <1>5, <2>1 DEF PreviewTypeOK, DeletionHolds, MovedOn
    <2>5. PreviewRowHolds'
      BY <1>3, <1>4, <1>8, <2>1, <2>2, <2>3 DEF PreviewRowHolds
    <2>6. NotTriedAgain'
      <3>1. ~ doubled => \A b \in Renderers : ~ OnIt(b, r)'
        BY <1>5, <2>3 DEF OnIt
      <3>2. preview'.asset # 0 => preview'.asset = r
        BY <2>1, <2>2
      <3>3. tries'[r] = 0 /\ doubled' = doubled
        BY <1>4, <2>3
      <3> QED
        BY <3>1, <3>2, <3>3 DEF NotTriedAgain, OnIt
    <2>7. StepOf(a, r) /\ ~ OnIt(a, r)'
      BY <1>4, <1>5, <2>1 DEF StepOf, OnIt
    <2> QED
      BY <1>3, <1>6, <2>4, <2>5, <2>6, <2>7, AttemptSteps
  <1> QED
    BY <1>4, <1>7, <1>8

LEMMA RenderDiesKeeps == ASSUME PreviewInv, NEW a \in Renderers, RenderDies(a) PROVE PreviewInv'
  <1>1. PICK r : r = renders[a].revision
    OBVIOUS
  <1>2. renders[a].at # "idle"
    BY DEF RenderDies, RenderAt
  <1>3. r \in Revisions /\ OnIt(a, r) /\ AttemptOn(a, r) /\ FileHolds(r) /\ PreviewTypeOK
    BY <1>1, <1>2, AttemptFacts
  <1>4. /\ UNCHANGED <<owner, fragment, preview, assets, tries, assetJobs, videoJob, doubled, unsure>>
        /\ spilled' = IF renders[a].at \in {"publish", "commit", "drop"} THEN spilled \cup {r} ELSE spilled
        /\ flaws' = flaws + 1 /\ Ends(a)
    BY <1>1 DEF RenderDies, Flaw
  <1>5. \/ files' = files
        \/ /\ renders[a].at = "publish"
           /\ \E rest \in {"none", "empty"} : files' = [files EXCEPT ![r] = rest]
    BY <1>1 DEF RenderDies, RenderAt
  <1>6. /\ files' \in [Revisions -> {"none", "empty", "whole"}]
        /\ \A q \in Revisions \ {r} : files'[q] = files[q]
        /\ files'[r] = files[r] \/ renders[a].at = "publish"
        /\ spilled' \subseteq Revisions /\ flaws' \in Nat
        /\ \A q \in Revisions \ {r} : q \in spilled <=> q \in spilled'
        /\ r \in spilled => r \in spilled'
        /\ tries' \in [Revisions -> Nat]
    BY <1>3, <1>4, <1>5 DEF PreviewTypeOK
  <1>7. \A b \in Renderers \ {a} : renders'[b] = renders[b]
    BY <1>3, <1>4, RenderEnds
  <1>8. FileHolds(r)'
    <2>1. CASE renders[a].at \in {"publish", "commit", "drop"}
      <3>1. r \in spilled'
        BY <1>4, <2>1
      <3>2. LooksAfter(r)'
        BY <3>1 DEF LooksAfter
      <3>3. assets[r] # "ready" \/ doubled
        BY <1>3, <2>1 DEF AttemptOn
      <3> QED
        BY <1>4, <3>1, <3>2, <3>3 DEF FileHolds
    <2>2. CASE renders[a].at \notin {"publish", "commit", "drop"}
      BY <1>3, <1>4, <1>6, <1>7, <2>2, FileAsBefore
    <2> QED
      BY <2>1, <2>2
  <1> QED
    BY <1>3, <1>4, <1>6, <1>8, AttemptStops

LEMMA TakePreviewJobKeeps ==
    ASSUME PreviewInv, NEW a \in Renderers, NEW r \in Revisions, TakePreviewJob(a, r)
    PROVE  PreviewInv'
  <1>1. /\ PreviewTypeOK /\ PreviewRowHolds /\ NotTriedAgain
        /\ \A q \in Revisions : DeletionHolds(q) /\ FileHolds(q) /\ (fragment.revision < q => tries[q] = 0)
        /\ \A b \in Renderers : AttemptHolds(b)
    BY DEF PreviewInv
  <1>2. /\ renders[a].at = "idle" /\ tries[r] > 0
        /\ UNCHANGED <<owner, fragment, preview, assets, files, assetJobs, videoJob, unsure, spilled>>
        /\ tries' = [tries EXCEPT ![r] = tries[r] - 1]
        /\ \/ flaws' = flaws + 1 /\ doubled' = TRUE
           \/ /\ \A b \in Renderers : ~ OnIt(b, r)
              /\ flaws' = flaws /\ doubled' = doubled
    BY DEF TakePreviewJob, RenderAt, Flaw, OnIt
  <1>3. PICK last \in BOOLEAN : /\ last = (tries'[r] = 0)
                                /\ renders' = [renders EXCEPT ![a] = [at |-> "read", revision |-> r, last |-> last]]
    BY DEF TakePreviewJob
  <1>4. /\ tries \in [Revisions -> Nat] /\ r \in Nat /\ r # 0 /\ fragment.revision \in Nat
        /\ r \in 0..MaxRevisions
    BY <1>1, RevisionNumbers, RevisionsAssumption DEF PreviewTypeOK, Revisions
  <1>5. /\ tries' \in [Revisions -> Nat]
        /\ \A q \in Revisions \ {r} : tries'[q] = tries[q]
        /\ \A q \in Revisions : tries[q] = 0 => tries'[q] = 0
    BY <1>2, <1>4
  <1>6. r \in 1..fragment.revision
    BY <1>1, <1>2, <1>4
  <1>7. /\ renders' \in [Renderers -> RenderState]
        /\ renders'[a].at = "read" /\ renders'[a].revision = r /\ (renders'[a].last <=> tries'[r] = 0)
        /\ \A b \in Renderers \ {a} : renders'[b] = renders[b]
    <2>1. [at |-> "read", revision |-> r, last |-> last] \in RenderState
      BY <1>4 DEF RenderState, RenderStages
    <2> QED
      BY <1>1, <1>3, <2>1 DEF PreviewTypeOK
  <1>8. (doubled => doubled') /\ doubled' \in BOOLEAN /\ flaws' \in Nat
    <2>1. doubled \in BOOLEAN /\ flaws \in Nat
      BY <1>1 DEF PreviewTypeOK
    <2>2. flaws' \in Nat
      BY <1>2, <2>1
    <2>3. (doubled => doubled') /\ doubled' \in BOOLEAN
      BY <1>2, <2>1, Zenon
    <2> QED
      BY <2>2, <2>3
  <1>9. \A b \in Renderers, q \in Revisions : b # a \/ q # r => (OnIt(b, q)' => OnIt(b, q))
    BY <1>7 DEF OnIt
  <1>10. \A q \in Revisions : LooksAfter(q) => LooksAfter(q)'
    <2>1. ASSUME NEW q \in Revisions, NEW b \in Renderers, OnIt(b, q),
                 renders[b].at \in {"commit", "drop"}
          PROVE  OnIt(b, q)' /\ renders'[b].at \in {"commit", "drop"}
      BY <1>2, <1>7, <2>1 DEF OnIt
    <2> QED
      BY <1>2, <2>1 DEF LooksAfter
  <1>11. PreviewTypeOK'
    BY <1>1, <1>2, <1>5, <1>7, <1>8 DEF PreviewTypeOK
  <1>12. PreviewRowHolds'
    BY <1>1, <1>2, <1>8 DEF PreviewRowHolds
  <1>13. ASSUME NEW q \in Revisions
         PROVE  DeletionHolds(q)' /\ FileHolds(q)' /\ (fragment'.revision < q => tries'[q] = 0)
    <2>1. DeletionHolds(q)'
      BY <1>1, <1>2 DEF DeletionHolds, MovedOn
    <2>2. FileHolds(q)'
      BY <1>1, <1>2, <1>8, <1>10 DEF FileHolds
    <2> QED
      BY <1>1, <1>2, <1>5, <2>1, <2>2
  <1>14. NotTriedAgain'
    <2>1. SUFFICES ASSUME preview.asset # 0, preview.status # "ready", ~ doubled'
                   PROVE  tries'[preview.asset] = 0 /\ \A b \in Renderers : ~ OnIt(b, preview.asset)'
      BY <1>2 DEF NotTriedAgain, OnIt
    <2>2. tries[preview.asset] = 0 /\ \A b \in Renderers : ~ OnIt(b, preview.asset)
      BY <1>1, <1>8, <2>1 DEF NotTriedAgain
    <2>3. PICK q \in Revisions : q = preview.asset
      BY <1>1, <2>1, RevisionNumbers
    <2>4. q # r
      BY <1>2, <2>2, <2>3
    <2>5. tries'[q] = 0 /\ \A b \in Renderers : ~ OnIt(b, q)'
      BY <1>5, <1>9, <2>2, <2>3, <2>4
    <2> QED
      BY <1>2, <2>3, <2>5 DEF OnIt
  <1>15. ASSUME NEW b \in Renderers PROVE AttemptHolds(b)'
    <2>1. renders'[b].at # "idle" => renders'[b].revision \in 1..fragment'.revision
      BY <1>1, <1>2, <1>6, <1>7 DEF AttemptHolds
    <2>2. ASSUME NEW q \in Revisions, OnIt(b, q)' PROVE AttemptOn(b, q)'
      <3>1. CASE b = a
        <4>1. q = r
          BY <1>7, <2>2, <3>1 DEF OnIt
        <4>2. ~ doubled' => \A c \in Renderers \ {a} : ~ OnIt(c, r)'
          BY <1>2, <1>9
        <4> QED
          BY <1>7, <3>1, <4>1, <4>2 DEF AttemptOn
      <3>2. CASE b # a
        <4>1. OnIt(b, q) /\ AttemptOn(b, q) /\ renders'[b] = renders[b]
          BY <1>1, <1>7, <1>9, <2>2, <3>2 DEF AttemptHolds
        <4>2. ~ doubled' => \A c \in Renderers \ {b} : ~ OnIt(c, q)'
          <5>1. CASE q = r
            BY <1>2, <4>1, <5>1
          <5>2. CASE q # r
            BY <1>8, <1>9, <4>1, <5>2 DEF AttemptOn
          <5> QED
            BY <5>1, <5>2
        <4> QED
          BY <1>2, <1>5, <1>8, <4>1, <4>2 DEF AttemptOn, MovedOn
      <3> QED
        BY <3>1, <3>2
    <2> QED
      BY <2>1, <2>2 DEF AttemptHolds
  <1> QED
    BY <1>11, <1>12, <1>13, <1>14, <1>15 DEF PreviewInv

\* The jobs that delete: the attempts and the span stay, and none finds an asset it had not.
LEMMA DeletionSteps ==
    ASSUME PreviewInv,
           PreviewTypeOK', PreviewRowHolds',
           \A r \in Revisions : DeletionHolds(r)' /\ FileHolds(r)',
           fragment'.revision = fragment.revision, fragment'.timed = fragment.timed,
           \A r : MovedOn(r) => MovedOn(r)',
           owner # "live" => owner' # "live",
           preview' = preview \/ preview'.asset = 0,
           \A r \in Revisions : assets'[r] = "ready" => assets[r] = "ready",
           \A r \in Revisions : files'[r] = files[r] \/ MovedOn(r)' \/ owner' # "live",
           UNCHANGED <<tries, renders, doubled, unsure, spilled>>
    PROVE  PreviewInv'
  <1>1. /\ NotTriedAgain /\ \A r \in Revisions : fragment.revision < r => tries[r] = 0
        /\ \A a \in Renderers : AttemptHolds(a)
    BY DEF PreviewInv
  <1>2. UNCHANGED <<tries, renders, doubled, unsure, spilled>>
    OBVIOUS
  <1>3. NotTriedAgain'
    BY <1>1, <1>2 DEF NotTriedAgain, OnIt
  <1>4. ASSUME NEW a \in Renderers PROVE AttemptHolds(a)'
    <2>1. renders'[a].at # "idle" => renders'[a].revision \in 1..fragment'.revision
      BY <1>1, <1>2 DEF AttemptHolds
    <2>2. ASSUME NEW r \in Revisions, OnIt(a, r)' PROVE AttemptOn(a, r)'
      <3>1. AttemptOn(a, r)
        BY <1>1, <1>2, <2>2 DEF AttemptHolds, OnIt
      <3>2. ~ doubled' => \A b \in Renderers \ {a} : ~ OnIt(b, r)'
        BY <1>2, <3>1 DEF AttemptOn, OnIt
      <3> QED
        BY <1>2, <3>1, <3>2 DEF AttemptOn
    <2> QED
      BY <2>1, <2>2 DEF AttemptHolds
  <1> QED
    BY <1>1, <1>2, <1>3, <1>4 DEF PreviewInv

LEMMA AssetJobKeeps ==
    ASSUME PreviewInv, NEW r \in Revisions,
           DeleteAssetFile(r) \/ DeleteAssetRow(r) \/ AssetJobFails(r)
    PROVE  PreviewInv'
  <1>1. /\ PreviewTypeOK /\ PreviewRowHolds
        /\ \A q \in Revisions : DeletionHolds(q) /\ FileHolds(q)
    BY DEF PreviewInv
  <1>2. /\ UNCHANGED <<owner, fragment, preview, tries, renders, videoJob, doubled, unsure, spilled>>
        /\ flaws' \in {flaws, flaws + 1}
    BY DEF DeleteAssetFile, DeleteAssetRow, AssetJobFails, History, Flaw
  <1>3. flaws' \in Nat
    <2>1. flaws \in Nat
      BY <1>1 DEF PreviewTypeOK
    <2> QED
      BY <1>2, <2>1
  <1>4. /\ assets' \in [Revisions -> {"none", "ready", "deleting"}]
        /\ files' \in [Revisions -> {"none", "empty", "whole"}]
        /\ assetJobs' \in [Revisions -> {"none", "queued", "unlinked"}]
        /\ \A q \in Revisions \ {r} : /\ assets'[q] = assets[q] /\ files'[q] = files[q]
                                      /\ assetJobs'[q] = assetJobs[q]
        /\ \/ /\ assets[r] = "deleting" /\ assets'[r] = "deleting"
              /\ files'[r] = "none" /\ assetJobs'[r] = "unlinked"
           \/ assets'[r] = assets[r] /\ files'[r] = files[r] /\ assetJobs'[r] = "none"
           \/ /\ assetJobs[r] = "unlinked"
              /\ assets'[r] = "none" /\ files'[r] = files[r] /\ assetJobs'[r] = "none"
           \/ /\ assetJobs[r] = "unlinked"
              /\ assets'[r] = assets[r] /\ files'[r] = files[r] /\ assetJobs'[r] = "queued"
    <2>1. CASE DeleteAssetFile(r)
      <3>1. CASE assets[r] = "deleting"
        BY <1>1, <2>1, <3>1 DEF DeleteAssetFile, PreviewTypeOK
      <3>2. CASE assets[r] # "deleting"
        BY <1>1, <2>1, <3>2 DEF DeleteAssetFile, PreviewTypeOK
      <3> QED
        BY <3>1, <3>2
    <2>2. CASE DeleteAssetRow(r)
      BY <1>1, <2>2 DEF DeleteAssetRow, PreviewTypeOK
    <2>3. CASE AssetJobFails(r)
      BY <1>1, <2>3 DEF AssetJobFails, PreviewTypeOK
    <2> QED
      BY <2>1, <2>2, <2>3
  <1>5. PreviewTypeOK'
    BY <1>1, <1>2, <1>3, <1>4 DEF PreviewTypeOK
  <1>6. DeletionHolds(r) /\ FileHolds(r) /\ (assets'[r] = "ready" => assets[r] = "ready")
    BY <1>1, <1>4
  <1>7. PreviewRowHolds'
    <2>1. preview.asset # 0 => preview.asset \in Revisions /\ assets[preview.asset] = "ready"
      BY <1>1, RevisionNumbers DEF PreviewRowHolds
    <2>2. \A q \in Revisions : assets[q] = "ready" => assets'[q] = "ready"
      BY <1>4, <1>6 DEF DeletionHolds
    <2> QED
      BY <1>1, <1>2, <2>1, <2>2 DEF PreviewRowHolds
  <1>8. ASSUME NEW q \in Revisions PROVE DeletionHolds(q)' /\ FileHolds(q)'
    <2>1. DeletionHolds(q) /\ FileHolds(q) /\ (MovedOn(q)' <=> MovedOn(q))
      BY <1>1, <1>2 DEF MovedOn
    <2>2. LooksAfter(q) => LooksAfter(q)'
      BY <1>2, <1>4 DEF LooksAfter, OnIt
    <2>3. DeletionHolds(q)'
      BY <1>2, <1>4, <2>1 DEF DeletionHolds
    <2>4. FileHolds(q)'
      <3>1. CASE q # r
        BY <1>2, <1>4, <2>1, <2>2, <3>1 DEF FileHolds
      <3>2. CASE q = r /\ files'[r] = "none" /\ assets'[r] = "deleting"
        BY <3>2 DEF FileHolds, LooksAfter
      <3>3. CASE q = r /\ files'[r] = files[r] /\ assetJobs'[r] # "unlinked"
        BY <1>2, <1>4, <2>1, <2>2, <3>3 DEF FileHolds
      <3> QED
        BY <1>4, <3>1, <3>2, <3>3
    <2> QED
      BY <2>3, <2>4
  <1>9. /\ \A q : MovedOn(q) => MovedOn(q)'
        /\ \A q \in Revisions : assets'[q] = "ready" => assets[q] = "ready"
    BY <1>2, <1>4, <1>6 DEF MovedOn
  <1>10. \A q \in Revisions : files'[q] = files[q] \/ MovedOn(q)' \/ owner' # "live"
    BY <1>4, <1>6, <1>9 DEF DeletionHolds
  <1> QED
    BY <1>2, <1>5, <1>7, <1>8, <1>9, <1>10, DeletionSteps

LEMMA UnlinkListedKeeps == ASSUME PreviewInv, UnlinkListed PROVE PreviewInv'
  <1>1. /\ PreviewTypeOK /\ PreviewRowHolds
        /\ \A q \in Revisions : DeletionHolds(q) /\ FileHolds(q)
    BY DEF PreviewInv
  <1>2. PICK listed : /\ listed = IF fragment.state = "gone" THEN {} ELSE {r \in Revisions : assets[r] # "none"}
                      /\ videoJob' = [at |-> "unlinked", listed |-> listed]
                      /\ files' = [r \in Revisions |-> IF r \in listed THEN "none" ELSE files[r]]
    BY DEF UnlinkListed
  <1>3. /\ UNCHANGED <<owner, fragment, preview, assets, tries, renders, assetJobs, flaws,
                       doubled, unsure, spilled>>
        /\ videoJob.at = "queued" /\ owner # "live"
    BY <1>1 DEF UnlinkListed, History, PreviewRowHolds
  <1>4. listed \subseteq Revisions
    BY <1>2
  <1>5. /\ videoJob' \in [at : {"none", "queued", "unlinked", "done"}, listed : SUBSET Revisions]
        /\ videoJob'.at = "unlinked" /\ videoJob'.listed = listed
    BY <1>2, <1>4
  <1>6. /\ files' \in [Revisions -> {"none", "empty", "whole"}]
        /\ \A r \in Revisions : files'[r] = IF r \in listed THEN "none" ELSE files[r]
    BY <1>1, <1>2 DEF PreviewTypeOK
  <1>7. PreviewTypeOK'
    BY <1>1, <1>3, <1>5, <1>6 DEF PreviewTypeOK
  <1>8. PreviewRowHolds'
    BY <1>1, <1>3 DEF PreviewRowHolds
  <1>9. \A r \in Revisions : assets[r] = "ready" => r \in listed
    <2>1. CASE fragment.state = "gone"
      <3>1. preview.asset = 0
        BY <1>1, <2>1, NoPreviewHasNoAsset DEF PreviewRowHolds
      <3>2. \A r \in Revisions : r # 0 /\ (assets[r] = "ready" => preview.asset = r)
        BY <1>1, RevisionNumbers DEF DeletionHolds
      <3> QED
        BY <3>1, <3>2
    <2>2. CASE fragment.state # "gone"
      BY <1>2, <2>2
    <2> QED
      BY <2>1, <2>2
  <1>10. ASSUME NEW r \in Revisions PROVE DeletionHolds(r)' /\ FileHolds(r)'
    <2>1. DeletionHolds(r) /\ FileHolds(r) /\ (MovedOn(r)' <=> MovedOn(r))
      BY <1>1, <1>3 DEF MovedOn
    <2>2. DeletionHolds(r)'
      BY <1>3, <1>5, <1>9, <2>1 DEF DeletionHolds
    <2>3. (LooksAfter(r) => LooksAfter(r)') /\ (r \in listed => LooksAfter(r)')
      BY <1>3, <1>6 DEF LooksAfter, OnIt
    <2>4. FileHolds(r)'
      BY <1>3, <1>5, <1>6, <2>1, <2>3 DEF FileHolds
    <2> QED
      BY <2>2, <2>4
  <1>11. \A r : MovedOn(r) => MovedOn(r)'
    BY <1>3 DEF MovedOn
  <1> QED
    BY <1>3, <1>7, <1>8, <1>10, <1>11, DeletionSteps

LEMMA DeleteRowsKeeps == ASSUME PreviewInv, DeleteRows PROVE PreviewInv'
  <1>1. /\ PreviewTypeOK /\ PreviewRowHolds
        /\ \A q \in Revisions : DeletionHolds(q) /\ FileHolds(q)
    BY DEF PreviewInv
  <1>2. /\ UNCHANGED <<files, tries, renders, assetJobs, flaws, doubled, unsure, spilled>>
        /\ videoJob.at = "unlinked" /\ owner' = "gone"
        /\ videoJob' = [at |-> "done", listed |-> {}]
        /\ fragment' = [fragment EXCEPT !.state = "gone"] /\ preview' = NoPreview
        /\ assets' = [r \in Revisions |-> IF r \in videoJob.listed THEN "none" ELSE assets[r]]
    BY DEF DeleteRows, History
  <1>3. /\ fragment' \in [state : {"live", "deleted", "gone"}, revision : Revisions, timed : Revisions]
        /\ fragment'.revision = fragment.revision /\ fragment'.state = "gone"
        /\ fragment'.timed = fragment.timed
    BY <1>1, <1>2 DEF PreviewTypeOK
  <1>4. /\ assets' \in [Revisions -> {"none", "ready", "deleting"}]
        /\ \A r \in Revisions : assets'[r] = IF r \in videoJob.listed THEN "none" ELSE assets[r]
    BY <1>1, <1>2 DEF PreviewTypeOK
  <1>5. \A r \in Revisions : assets'[r] # "ready"
    BY <1>1, <1>2, <1>4 DEF DeletionHolds
  <1>6. /\ videoJob' \in [at : {"none", "queued", "unlinked", "done"}, listed : SUBSET Revisions]
        /\ videoJob'.at = "done"
    BY <1>2
  <1>7. PreviewTypeOK'
    BY <1>1, <1>2, <1>3, <1>4, <1>6, NoPreviewHasNoAsset DEF PreviewTypeOK
  <1>8. PreviewRowHolds'
    BY <1>1, <1>2, <1>3, NoPreviewHasNoAsset DEF PreviewRowHolds
  <1>9. \A r : MovedOn(r)'
    BY <1>3 DEF MovedOn
  <1>10. ASSUME NEW r \in Revisions PROVE DeletionHolds(r)' /\ FileHolds(r)'
    <2>1. DeletionHolds(r)'
      BY <1>1, <1>2, <1>5, <1>6, <1>9 DEF DeletionHolds
    <2>2. FileHolds(r) /\ (LooksAfter(r) => LooksAfter(r)')
      BY <1>1, <1>2 DEF LooksAfter, OnIt
    <2>3. FileHolds(r)'
      BY <1>2, <1>4, <1>5, <1>6, <2>2 DEF FileHolds
    <2> QED
      BY <2>1, <2>3
  <1> QED
    BY <1>2, <1>3, <1>5, <1>7, <1>8, <1>9, <1>10, NoPreviewHasNoAsset, DeletionSteps

LEMMA VideoJobFailsKeeps == ASSUME PreviewInv, VideoJobFails PROVE PreviewInv'
  <1>1. /\ PreviewTypeOK /\ PreviewRowHolds
        /\ \A q \in Revisions : DeletionHolds(q) /\ FileHolds(q)
    BY DEF PreviewInv
  <1>2. /\ UNCHANGED <<owner, fragment, preview, assets, files, tries, renders, assetJobs,
                       doubled, unsure, spilled>>
        /\ videoJob.at = "unlinked" /\ videoJob' = [at |-> "queued", listed |-> {}]
        /\ flaws' = flaws + 1
    BY DEF VideoJobFails, History, Flaw
  <1>3. /\ videoJob' \in [at : {"none", "queued", "unlinked", "done"}, listed : SUBSET Revisions]
        /\ videoJob'.at = "queued"
    BY <1>2
  <1>4. flaws' \in Nat
    <2>1. flaws \in Nat
      BY <1>1 DEF PreviewTypeOK
    <2> QED
      BY <1>2, <2>1
  <1>5. PreviewTypeOK'
    BY <1>1, <1>2, <1>3, <1>4 DEF PreviewTypeOK
  <1>6. PreviewRowHolds'
    BY <1>1, <1>2 DEF PreviewRowHolds
  <1>7. \A r : MovedOn(r)' <=> MovedOn(r)
    BY <1>2 DEF MovedOn
  <1>8. ASSUME NEW r \in Revisions PROVE DeletionHolds(r)' /\ FileHolds(r)'
    <2>1. DeletionHolds(r)'
      BY <1>1, <1>2, <1>3, <1>7 DEF DeletionHolds
    <2>2. FileHolds(r)'
      BY <1>1, <1>2, <1>3 DEF FileHolds, LooksAfter, OnIt
    <2> QED
      BY <2>1, <2>2
  <1> QED
    BY <1>2, <1>5, <1>6, <1>7, <1>8, DeletionSteps

LEMMA PreviewStep == ASSUME PreviewInv, [PreviewNext]_previewVars PROVE PreviewInv'
  <1>1. ASSUME NEW newSpan \in BOOLEAN, EditFragment(newSpan) PROVE PreviewInv'
    BY <1>1, EditFragmentKeeps
  <1>2. CASE SoftDelete \/ RequestDeletion
    BY <1>2, HidingKeeps
  <1>3. CASE UndoDelete
    BY <1>3, UndoDeleteKeeps
  <1>4. CASE PurgeFragment
    BY <1>4, PurgeFragmentKeeps
  <1>5. ASSUME NEW a \in Renderers, NEW r \in Revisions, TakePreviewJob(a, r) PROVE PreviewInv'
    BY <1>5, TakePreviewJobKeeps
  <1>6. ASSUME NEW a \in Renderers,
               \/ ReadRequest(a) \/ Claim(a) \/ PublishPreview(a) \/ CommitPreview(a) \/ DropPreview(a)
               \/ RenderFails(a) \/ MarkPreviewFailed(a) \/ RenderDies(a)
        PROVE  PreviewInv'
    BY <1>6, ReadRequestKeeps, ClaimKeeps, PublishPreviewKeeps, CommitPreviewKeeps, DropPreviewKeeps,
       RenderFailsKeeps, MarkPreviewFailedKeeps, RenderDiesKeeps
  <1>7. ASSUME NEW r \in Revisions, DeleteAssetFile(r) \/ DeleteAssetRow(r) \/ AssetJobFails(r)
        PROVE  PreviewInv'
    BY <1>7, AssetJobKeeps
  <1>8. CASE UnlinkListed \/ DeleteRows \/ VideoJobFails
    BY <1>8, UnlinkListedKeeps, DeleteRowsKeeps, VideoJobFailsKeeps
  <1>9. CASE UNCHANGED previewVars
    <2>1. UNCHANGED <<owner, fragment, preview, assets, files, tries, renders, assetJobs,
                      videoJob, doubled, unsure, spilled, flaws>>
      BY <1>9 DEF previewVars
    <2>2. /\ PreviewTypeOK /\ PreviewRowHolds
          /\ \A r \in Revisions : DeletionHolds(r) /\ FileHolds(r)
      BY DEF PreviewInv
    <2>3. PreviewTypeOK' /\ PreviewRowHolds'
      BY <2>1, <2>2 DEF PreviewTypeOK, PreviewRowHolds
    <2>4. \A r \in Revisions : DeletionHolds(r)' /\ FileHolds(r)'
      BY <2>1, <2>2 DEF DeletionHolds, FileHolds, LooksAfter, OnIt, MovedOn
    <2>5. \A r : MovedOn(r) => MovedOn(r)'
      BY <2>1 DEF MovedOn
    <2> QED
      BY <2>1, <2>3, <2>4, <2>5, DeletionSteps
  <1> QED
    BY <1>1, <1>2, <1>3, <1>4, <1>5, <1>6, <1>7, <1>8, <1>9 DEF PreviewNext

LEMMA PreviewsShownAreTrue == ASSUME PreviewInv PROVE PreviewsAreTrue
  <1>1. /\ PreviewTypeOK /\ PreviewRowHolds
        /\ \A r \in Revisions : DeletionHolds(r) /\ FileHolds(r)
    BY DEF PreviewInv
  <1>2. ShownIsTrue
    <2>1. SUFFICES ASSUME NEW r \in Revisions, Shown(r)
                   PROVE  (files[r] = "whole" \/ doubled) /\ r = fragment.timed
      BY DEF ShownIsTrue
    <2>2. /\ owner = "live" /\ fragment.state = "live"
          /\ preview.asset = r /\ assets[r] = "ready" /\ r # 0
      BY <1>1, <2>1, RevisionNumbers DEF Shown
    <2> QED
      BY <1>1, <2>2 DEF FileHolds, PreviewRowHolds
  <1>3. FilesHaveOwners
    BY <1>1 DEF FilesHaveOwners, FileHolds, LooksAfter, OnIt
  <1>4. MadeIsNotFailed
    BY <1>1 DEF MadeIsNotFailed, PreviewRowHolds
  <1> QED
    BY <1>2, <1>3, <1>4 DEF PreviewsAreTrue

\* The row, the assets, the files and the jobs of a preview stay together, however many
\* attempts generate-preview.ts runs and whatever fails in them.
THEOREM PreviewInvariant == PreviewSpec => []PreviewInv
  <1>1. PreviewInit => PreviewInv
    BY PreviewInitial
  <1>2. PreviewInv /\ [PreviewNext]_previewVars => PreviewInv'
    BY PreviewStep
  <1> QED
    BY <1>1, <1>2, PTL DEF PreviewSpec

\* A preview that is shown has its file and is of the span the fragment has, a file always
\* has a row or an attempt that cleans up after it, and one that was made is not marked
\* failed, but where two attempts of one job overlapped or a commit was answered with an
\* error (generate-preview.ts, asset-deletion.ts, delete-asset.ts).
THEOREM PreviewsStayTrue == PreviewSpec => []PreviewsAreTrue
  <1>1. PreviewInv => PreviewsAreTrue
    BY PreviewsShownAreTrue
  <1> QED
    BY <1>1, PreviewInvariant, PTL
----------------------------------------------------------------------------
(* The replay, for any archive, any size of batch and any failures.         *)

ReplayPoints ==
    {"bounds", "begin", "read", "publish", "record", "complete", "failed", "over"}

Command == [at : ReplayPoints, last : Nat, next : Nat, batch : Seq(Nat)]

ReplayTypeOK ==
    /\ given \in Nat
    /\ pending \subseteq Nat \ {0} /\ archived \subseteq Nat \ {0} /\ owed \subseteq archived
    /\ replay \in Command
    /\ runRow \in RunRow \cup {NotRecorded}
    /\ copied \in Seq(Nat)

Ascending(seq) == \A n, k \in DOMAIN seq : n < k => seq[n] < seq[k]

\* Whatever was archived in time and lies below `limit` has been copied.
Covered(limit) == \A p \in owed : p < limit => p \in Range(copied)

\* The batch goes on from `next`, in order, and skips nothing.
Continues(batch, next) ==
    /\ batch # <<>> /\ Ascending(batch)
    /\ \A n \in DOMAIN batch : next <= batch[n]
    /\ \A p \in owed : \A n \in DOMAIN batch : next <= p /\ p <= batch[n] => p \in Range(batch)

Copying == replay.at \in {"read", "publish", "record", "complete"}

CommandHolds ==
    /\ replay.at = "bounds" => owed = {}
    /\ replay.at \in {"bounds", "begin"} => copied = <<>> /\ runRow = NotRecorded
    /\ replay.at = "begin" => replay.next > 0 /\ \A p \in owed : replay.next <= p
    /\ replay.at = "begin" \/ Copying => \A p \in owed : p <= replay.last
    /\ Copying => /\ replay.next > 0 /\ Covered(replay.next) /\ runRow # NotRecorded
                  /\ \A n \in DOMAIN copied : copied[n] < replay.next
    /\ replay.at = "publish" => Continues(replay.batch, replay.next)
    /\ replay.at = "complete" => owed \subseteq Range(copied)

RunRowHolds ==
    runRow # NotRecorded =>
        /\ Covered(runRow.through + 1)
        /\ runRow.status = "completed" => owed \subseteq Range(copied)

ReplayInv == ReplayTypeOK /\ Ascending(copied) /\ CommandHolds /\ RunRowHolds

LEMMA CopiedGrows ==
    ASSUME NEW seq \in Seq(Nat), NEW p \in Nat
    PROVE  /\ Append(seq, p) \in Seq(Nat)
           /\ Range(seq) \subseteq Range(Append(seq, p)) /\ p \in Range(Append(seq, p))
           /\ Ascending(seq) /\ (\A n \in DOMAIN seq : seq[n] < p) =>
                /\ Ascending(Append(seq, p))
                /\ \A n \in DOMAIN Append(seq, p) : Append(seq, p)[n] < p + 1
  <1> DEFINE longer == Append(seq, p)
  <1>1. longer \in Seq(Nat) /\ DOMAIN seq = 1..Len(seq) /\ DOMAIN longer = 1..(Len(seq) + 1)
        /\ Len(seq) \in Nat /\ longer[Len(seq) + 1] = p
        /\ \A n \in 1..Len(seq) : longer[n] = seq[n] /\ seq[n] \in Nat
    OBVIOUS
  <1> HIDE DEF longer
  <1>2. Range(seq) \subseteq Range(longer)
    BY <1>1 DEF Range
  <1>3. p \in Range(longer)
    BY <1>1 DEF Range
  <1>4. ASSUME Ascending(seq), \A n \in DOMAIN seq : seq[n] < p
        PROVE  Ascending(longer) /\ \A n \in DOMAIN longer : longer[n] < p + 1
    <2>1. \A n \in DOMAIN longer : n = Len(seq) + 1 \/ (n \in 1..Len(seq) /\ longer[n] < p)
      BY <1>1, <1>4
    <2>2. \A n \in DOMAIN longer : longer[n] < p + 1
      BY <1>1, <2>1
    <2>3. \A n, k \in 1..Len(seq) : n < k => longer[n] < longer[k]
      BY <1>1, <1>4 DEF Ascending
    <2>4. \A n, k \in DOMAIN longer : n < k => n \in 1..Len(seq)
      BY <1>1
    <2>5. ASSUME NEW n \in DOMAIN longer, NEW k \in DOMAIN longer, n < k
          PROVE  longer[n] < longer[k]
      <3>1. n \in 1..Len(seq) /\ longer[n] < p
        BY <2>4, <2>5, <1>1, <1>4
      <3>2. k \in 1..Len(seq) \/ longer[k] = p
        BY <1>1, <2>1
      <3> QED
        BY <2>3, <2>5, <3>1, <3>2
    <2> QED
      BY <2>2, <2>5 DEF Ascending
  <1> QED
    BY <1>1, <1>2, <1>3, <1>4 DEF longer

\* What a read with ORDER BY and LIMIT returns.
LEMMA FirstRows ==
    ASSUME NEW found \in SUBSET Nat, NEW batch \in FirstOf(found)
    PROVE  /\ batch \in Seq(Nat) /\ Ascending(batch) /\ Range(batch) \subseteq found
           /\ \A p \in found : \A n \in DOMAIN batch : p <= batch[n] => p \in Range(batch)
           /\ batch = <<>> => found = {}
  <1>1. PICK size \in 0..ReplayBatch : batch \in [1..size -> found]
    BY DEF FirstOf
  <1>2. Ascending(batch)
    BY DEF FirstOf, Ascending
  <1>3. \A p \in found \ Range(batch) :
           Len(batch) = ReplayBatch /\ \A n \in DOMAIN batch : batch[n] < p
    BY DEF FirstOf
  <1>4. size \in Nat /\ batch \in [1..size -> Nat]
    <2>1. size \in Nat
      BY ReplayBatchAssumption
    <2>2. \A n \in 1..size : batch[n] \in Nat
      BY <1>1
    <2> QED
      BY <1>1, <2>1, <2>2
  <1>5. batch \in Seq(Nat)
    BY <1>4
  <1>6. Range(batch) \subseteq found
    BY <1>1 DEF Range
  <1>7. ASSUME NEW p \in found, NEW n \in DOMAIN batch, p <= batch[n], p \notin Range(batch)
        PROVE  FALSE
    <2>1. batch[n] < p
      BY <1>3, <1>7
    <2>2. batch[n] \in Nat /\ p \in Nat
      BY <1>4
    <2> QED
      BY <1>7, <2>1, <2>2
  <1>8. batch = <<>> => found = {}
    <2> SUFFICES ASSUME batch = <<>>, NEW p \in found
                 PROVE  FALSE
      OBVIOUS
    <2>1. Len(batch) = 0
      OBVIOUS
    <2>2. DOMAIN batch = {}
      BY <2>1, <1>5
    <2>3. p \notin Range(batch)
      BY <2>2 DEF Range
    <2> QED
      BY <2>1, <2>3, <1>3, ReplayBatchAssumption
  <1> QED
    BY <1>2, <1>5, <1>6, <1>7, <1>8

LEMMA RowIsARecord ==
    ASSUME ReplayTypeOK, runRow # NotRecorded
    PROVE  runRow \in RunRow
  BY DEF ReplayTypeOK

\* What stays true of the row and of the command when only the archive grows.
LEMMA ArchiveGrows ==
    ASSUME ReplayInv, given' \in Nat, pending' \subseteq Nat \ {0}, archived' \subseteq Nat \ {0},
           archived \subseteq archived',
           UNCHANGED <<replay, runRow, copied, owed>>
    PROVE  ReplayInv'
  BY DEF ReplayInv, ReplayTypeOK, CommandHolds, RunRowHolds, Covered, Continues, Copying, Ascending

LEMMA AppendsKeep ==
    ASSUME ReplayInv,
           GivePosition \/ \E p \in pending : AppendCommits(p) \/ AppendRollsBack(p)
    PROVE  ReplayInv'
  <1>1. given \in Nat /\ pending \subseteq Nat \ {0} /\ archived \subseteq Nat \ {0}
    BY DEF ReplayInv, ReplayTypeOK
  <1>2. CASE GivePosition
    <2>1. given' = given + 1 /\ pending' = pending \cup {given + 1} /\ archived' = archived
          /\ UNCHANGED <<replay, runRow, copied, owed>>
      BY <1>2 DEF GivePosition
    <2>2. given + 1 \in Nat \ {0}
      BY <1>1
    <2> QED
      BY <1>1, <2>1, <2>2, ArchiveGrows
  <1>3. CASE \E p \in pending : AppendCommits(p) \/ AppendRollsBack(p)
    <2>1. given' = given /\ pending' \subseteq pending
          /\ archived \subseteq archived' /\ archived' \subseteq archived \cup pending
          /\ UNCHANGED <<replay, runRow, copied, owed>>
      BY <1>3 DEF AppendCommits, AppendRollsBack
    <2>2. given' \in Nat /\ pending' \subseteq Nat \ {0} /\ archived' \subseteq Nat \ {0}
      BY <1>1, <2>1
    <2> QED
      BY <2>1, <2>2, ArchiveGrows
  <1> QED
    BY <1>2, <1>3

\* A run that copies no more is judged by its row alone.
LEMMA RunEnds ==
    ASSUME ReplayInv, NEW at \in {"failed", "over"}, replay' = [replay EXCEPT !.at = at],
           UNCHANGED <<given, pending, archived, owed>>,
           runRow' \in RunRow \cup {NotRecorded}, copied' \in Seq(Nat), Ascending(copied'), RunRowHolds'
    PROVE  ReplayInv'
  <1>1. replay \in Command
    BY DEF ReplayInv, ReplayTypeOK
  <1>2. replay' \in Command /\ replay'.at = at
    BY <1>1 DEF Command, ReplayPoints
  <1>3. ReplayTypeOK'
    BY <1>2 DEF ReplayInv, ReplayTypeOK
  <1>4. CommandHolds'
    BY <1>2 DEF CommandHolds, Copying
  <1> QED
    BY <1>3, <1>4 DEF ReplayInv, Ascending

LEMMA RowStays ==
    ASSUME ReplayInv, UNCHANGED <<runRow, owed>>, Range(copied) \subseteq Range(copied')
    PROVE  RunRowHolds'
  BY DEF ReplayInv, RunRowHolds, Covered

LEMMA ReadBoundsKeeps ==
    ASSUME ReplayInv, ReadBounds
    PROVE  ReplayInv'
  <1>1. replay \in Command /\ replay.at = "bounds" /\ copied = <<>> /\ runRow = NotRecorded
    BY DEF ReplayInv, ReplayTypeOK, CommandHolds, ReadBounds, ReplayAt
  <1>2. owed' = archived /\ UNCHANGED <<given, pending, archived, runRow, copied>>
    BY DEF ReadBounds, Archive
  <1>3. archived \subseteq Nat \ {0}
    BY DEF ReplayInv, ReplayTypeOK
  <1>4. RunRowHolds'
    BY <1>1, <1>2 DEF RunRowHolds
  <1>5. CASE archived = {} /\ replay' = [replay EXCEPT !.at = "over"]
    <2>1. replay' \in Command /\ replay'.at = "over"
      BY <1>1, <1>5 DEF Command, ReplayPoints
    <2>2. ReplayTypeOK'
      BY <1>2, <1>3, <2>1 DEF ReplayInv, ReplayTypeOK
    <2>3. CommandHolds'
      BY <2>1 DEF CommandHolds, Copying
    <2> QED
      BY <1>2, <1>4, <2>2, <2>3 DEF ReplayInv, Ascending
  <1>6. ASSUME NEW first \in archived, NEW last \in archived,
               \A p \in archived : first <= p /\ p <= last,
               replay' = [replay EXCEPT !.at = "begin", !.last = last, !.next = first]
        PROVE  ReplayInv'
    <2>1. first \in Nat \ {0} /\ last \in Nat
      BY <1>3
    <2>2. replay' \in Command /\ replay'.at = "begin" /\ replay'.last = last /\ replay'.next = first
      BY <1>1, <1>6, <2>1 DEF Command, ReplayPoints
    <2>3. ReplayTypeOK'
      BY <1>2, <1>3, <2>2 DEF ReplayInv, ReplayTypeOK
    <2>4. first > 0
      BY <2>1
    <2>5. CommandHolds'
      BY <1>1, <1>2, <1>6, <2>2, <2>4 DEF CommandHolds, Copying
    <2> QED
      BY <1>2, <1>4, <2>3, <2>5 DEF ReplayInv, Ascending
  <1> QED
    BY <1>5, <1>6 DEF ReadBounds

LEMMA BeginKeeps ==
    ASSUME ReplayInv, BeginRun
    PROVE  ReplayInv'
  <1>1. replay \in Command /\ replay.at = "begin" /\ copied = <<>> /\ replay.next > 0
        /\ \A p \in owed : replay.next <= p /\ p <= replay.last
    BY DEF ReplayInv, ReplayTypeOK, CommandHolds, BeginRun, ReplayAt
  <1>2. replay' = [replay EXCEPT !.at = "read"]
        /\ UNCHANGED <<given, pending, archived, copied, owed>>
    BY DEF BeginRun, Archive
  <1>3. owed \subseteq Nat \ {0}
    BY DEF ReplayInv, ReplayTypeOK
  <1>4. runRow' \in RunRow /\ runRow'.through = 0 /\ runRow'.status = "running"
    BY DEF BeginRun, RunRow
  <1>5. replay' \in Command /\ replay'.at = "read" /\ replay'.next = replay.next
        /\ replay'.last = replay.last
    BY <1>1, <1>2 DEF Command, ReplayPoints
  <1>6. ReplayTypeOK'
    BY <1>2, <1>4, <1>5 DEF ReplayInv, ReplayTypeOK
  <1>7. RunRowHolds'
    BY <1>2, <1>3, <1>4 DEF RunRowHolds, Covered
  <1>8. runRow' # NotRecorded
    BY <1>4, NotRecordedAssumption
  <1>9. replay.next \in Nat
    BY <1>1 DEF Command
  <1>10. \A n \in DOMAIN copied' : FALSE
    BY <1>1, <1>2
  <1>11. Covered(replay.next)'
    BY <1>1, <1>2, <1>3, <1>5, <1>9 DEF Covered
  <1>12. CommandHolds'
    BY <1>1, <1>2, <1>5, <1>8, <1>10, <1>11 DEF CommandHolds, Copying
  <1> QED
    BY <1>2, <1>6, <1>7, <1>12 DEF ReplayInv, Ascending

LEMMA ReadKeeps ==
    ASSUME ReplayInv, ReadBatch
    PROVE  ReplayInv'
  <1> DEFINE found == {p \in archived : Between(p, replay.next, replay.last)}
  <1>1. PICK batch \in FirstOf(found) :
           replay' = [replay EXCEPT !.at = IF batch = <<>> THEN "complete" ELSE "publish",
                                    !.batch = batch]
    BY DEF ReadBatch
  <1>2. replay \in Command /\ replay.at = "read" /\ archived \subseteq Nat \ {0}
        /\ owed \subseteq archived /\ UNCHANGED <<given, pending, archived, runRow, copied, owed>>
    BY DEF ReplayInv, ReplayTypeOK, ReadBatch, ReplayAt, Archive
  <1>3. Covered(replay.next) /\ replay.next > 0 /\ runRow # NotRecorded
        /\ (\A n \in DOMAIN copied : copied[n] < replay.next)
        /\ (\A p \in owed : p <= replay.last)
    BY <1>2 DEF ReplayInv, CommandHolds, Copying
  <1>4. found \in SUBSET Nat
    BY <1>2
  <1>5. /\ batch \in Seq(Nat) /\ Ascending(batch) /\ Range(batch) \subseteq found
        /\ \A p \in found : \A n \in DOMAIN batch : p <= batch[n] => p \in Range(batch)
        /\ batch = <<>> => found = {}
    BY <1>1, <1>4, FirstRows
  <1>6. \A p \in found : replay.next <= p
    BY DEF Between
  <1>7. replay' \in Command /\ replay'.next = replay.next /\ replay'.last = replay.last
        /\ replay'.batch = batch
        /\ (batch = <<>> => replay'.at = "complete") /\ (batch # <<>> => replay'.at = "publish")
    BY <1>1, <1>2, <1>5 DEF Command, ReplayPoints
  <1>8. ReplayTypeOK'
    BY <1>2, <1>7 DEF ReplayInv, ReplayTypeOK
  <1>9. RunRowHolds'
    BY <1>2, RowStays
  <1> QED
    <2>1. CASE batch = <<>>
      <3>1. \A p \in owed : p < replay.next
        <4> SUFFICES ASSUME NEW p \in owed
                     PROVE  p < replay.next
          OBVIOUS
        <4>1. p \in archived /\ p <= replay.last /\ p \notin found
          BY <1>2, <1>3, <1>5, <2>1
        <4>2. p \in Nat /\ replay.next \in Nat
          BY <1>2 DEF Command
        <4> QED
          BY <4>1, <4>2 DEF Between
      <3>2. owed \subseteq Range(copied)
        BY <1>3, <3>1 DEF Covered
      <3>3. CommandHolds'
        BY <1>2, <1>3, <1>7, <2>1, <3>2 DEF CommandHolds, Copying, Covered
      <3> QED
        BY <1>2, <1>8, <1>9, <3>3 DEF ReplayInv, Ascending
    <2>2. CASE batch # <<>>
      <3>1. \A p \in owed : replay.next <= p => p \in found
        BY <1>2, <1>3 DEF Between
      <3>2. \A n \in DOMAIN batch : replay.next <= batch[n]
        BY <1>5, <1>6 DEF Range
      <3>3. Continues(batch, replay.next)
        BY <1>5, <2>2, <3>1, <3>2 DEF Continues
      <3>4. Continues(replay.batch, replay.next)'
        BY <1>2, <1>7, <3>3 DEF Continues, Ascending
      <3>5. CommandHolds'
        BY <1>2, <1>3, <1>7, <2>2, <3>4 DEF CommandHolds, Copying, Covered
      <3> QED
        BY <1>2, <1>8, <1>9, <3>5 DEF ReplayInv, Ascending
    <2> QED
      BY <2>1, <2>2

LEMMA PublishKeeps ==
    ASSUME ReplayInv, PublishArchived
    PROVE  ReplayInv'
  <1> DEFINE batch == replay.batch
             p == Head(batch)
  <1>1. replay \in Command /\ replay.at = "publish" /\ owed \subseteq Nat \ {0}
        /\ copied \in Seq(Nat) /\ Ascending(copied) /\ owed \subseteq archived
    BY DEF ReplayInv, ReplayTypeOK, PublishArchived, ReplayAt
  <1>2. UNCHANGED <<given, pending, archived, runRow, owed>> /\ copied' = Append(copied, p)
    BY DEF PublishArchived, Archive
  <1>3. Covered(replay.next) /\ replay.next > 0 /\ runRow # NotRecorded
        /\ (\A n \in DOMAIN copied : copied[n] < replay.next)
        /\ (\A q \in owed : q <= replay.last) /\ Continues(batch, replay.next)
    BY <1>1 DEF ReplayInv, CommandHolds, Copying
  <1>4. batch \in Seq(Nat) /\ batch # <<>> /\ replay.next \in Nat
    BY <1>1, <1>3 DEF Command, Continues
  <1>5. DOMAIN batch = 1..Len(batch) /\ Len(batch) \in Nat /\ Len(batch) > 0
        /\ 1 \in DOMAIN batch /\ p = batch[1] /\ p \in Nat
    BY <1>4
  <1>6. Tail(batch) \in Seq(Nat) /\ DOMAIN Tail(batch) = 1..(Len(batch) - 1)
        /\ (\A n \in 1..(Len(batch) - 1) : Tail(batch)[n] = batch[n + 1])
        /\ (Len(batch) # 1 => Tail(batch) # <<>>)
    <2>1. Tail(batch) \in Seq(Nat) /\ Len(Tail(batch)) = Len(batch) - 1
          /\ (\A n \in 1..(Len(batch) - 1) : Tail(batch)[n] = batch[n + 1])
      BY <1>4, <1>5
    <2>2. DOMAIN Tail(batch) = 1..Len(Tail(batch))
      BY <2>1
    <2>3. Len(<<>>) = 0
      OBVIOUS
    <2>4. Tail(batch) = <<>> => Len(batch) = 1
      <3> SUFFICES ASSUME Tail(batch) = <<>>
                   PROVE  Len(batch) = 1
        OBVIOUS
      <3>1. Len(batch) - 1 = 0
        BY <2>1, <2>3
      <3> QED
        BY <1>5, <3>1
    <2> QED
      BY <2>1, <2>2, <2>4
  <1>7. replay.next <= p
    BY <1>3, <1>5 DEF Continues
  <1>8. \A n \in DOMAIN copied : copied[n] \in Nat /\ copied[n] < p
    BY <1>1, <1>3, <1>4, <1>5, <1>7
  <1>9. /\ copied' \in Seq(Nat) /\ Range(copied) \subseteq Range(copied') /\ p \in Range(copied')
        /\ Ascending(copied') /\ \A n \in DOMAIN copied' : copied'[n] < p + 1
    <2>1. Ascending(copied) /\ (\A n \in DOMAIN copied : copied[n] < p) =>
             Ascending(Append(copied, p))
             /\ \A n \in DOMAIN Append(copied, p) : Append(copied, p)[n] < p + 1
      BY <1>1, <1>5, CopiedGrows
    <2>2. /\ Append(copied, p) \in Seq(Nat) /\ Range(copied) \subseteq Range(Append(copied, p))
          /\ p \in Range(Append(copied, p))
      BY <1>1, <1>5, CopiedGrows
    <2>3. Ascending(Append(copied, p))
          /\ \A n \in DOMAIN Append(copied, p) : Append(copied, p)[n] < p + 1
      BY <1>1, <1>8, <2>1
    <2> QED
      BY <1>2, <2>2, <2>3, Zenon DEF Ascending
  <1>10. replay' = [at |-> IF Len(batch) = 1 THEN "record" ELSE "publish",
                    last |-> replay.last, next |-> p + 1, batch |-> Tail(batch)]
    BY DEF PublishArchived
  <1>11. replay.last \in Nat
    BY <1>1 DEF Command
  <1>12. replay' \in Command /\ replay'.next = p + 1 /\ replay'.last = replay.last
         /\ replay'.batch = Tail(batch) /\ replay'.at \in {"record", "publish"}
         /\ (replay'.at = "publish" => Len(batch) # 1)
    BY <1>5, <1>6, <1>10, <1>11 DEF Command, ReplayPoints
  <1> HIDE DEF batch, p
  <1>13. \A q \in owed : q < p + 1 => q \in Range(copied')
    <2> SUFFICES ASSUME NEW q \in owed, q < p + 1
                 PROVE  q \in Range(copied')
      OBVIOUS
    <2>1. q \in Nat /\ q <= p
      BY <1>1, <1>5
    <2>2. CASE q < replay.next
      BY <1>3, <1>9, <2>2 DEF Covered
    <2>3. CASE replay.next <= q
      <3>1. q \in Range(batch)
        BY <1>3, <1>5, <2>1, <2>3 DEF Continues
      <3>2. PICK n \in DOMAIN batch : q = batch[n]
        BY <3>1 DEF Range
      <3>3. 1 < n => p < q
        BY <1>3, <1>5, <3>2 DEF Continues, Ascending
      <3>4. n = 1
        BY <1>5, <2>1, <3>2, <3>3
      <3> QED
        BY <1>5, <1>9, <3>2, <3>4
    <2> QED
      BY <1>4, <2>1, <2>2, <2>3
  <1>14. ASSUME Len(batch) # 1
         PROVE  Continues(Tail(batch), p + 1)
    <2> DEFINE rest == Tail(batch)
    <2>1. \A n \in DOMAIN rest : n \in Nat /\ n + 1 \in DOMAIN batch /\ 1 < n + 1
                                 /\ rest[n] = batch[n + 1] /\ batch[n + 1] \in Nat
      BY <1>4, <1>5, <1>6
    <2>2. rest # <<>>
      BY <1>6, <1>14
    <2> HIDE DEF rest
    <2>3. \A n, k \in DOMAIN batch : n < k => batch[n] < batch[k]
      BY <1>3 DEF Continues, Ascending
    <2>4. Ascending(rest)
      <3> SUFFICES ASSUME NEW n \in DOMAIN rest, NEW k \in DOMAIN rest, n < k
                   PROVE  rest[n] < rest[k]
        BY DEF Ascending
      <3>1. n + 1 < k + 1
        BY <2>1
      <3> QED
        BY <2>1, <2>3, <3>1
    <2>5. \A n \in DOMAIN rest : p < rest[n] /\ p + 1 <= rest[n]
      <3> SUFFICES ASSUME NEW n \in DOMAIN rest
                   PROVE  p < rest[n] /\ p + 1 <= rest[n]
        OBVIOUS
      <3>1. p < rest[n]
        BY <1>5, <2>1, <2>3
      <3>2. rest[n] \in Nat
        BY <2>1
      <3> QED
        BY <1>5, <3>1, <3>2
    <2>6. ASSUME NEW q \in owed, NEW n \in DOMAIN rest, p + 1 <= q, q <= rest[n]
          PROVE  q \in Range(rest)
      <3>1. q \in Nat /\ replay.next <= q
        BY <1>1, <1>4, <1>5, <1>7, <2>6
      <3>2. q \in Range(batch)
        BY <1>3, <2>1, <2>6, <3>1 DEF Continues
      <3>3. PICK k \in DOMAIN batch : q = batch[k]
        BY <3>2 DEF Range
      <3>4. k # 1
        BY <1>5, <2>6, <3>1, <3>3
      <3>5. k - 1 \in DOMAIN rest /\ (k - 1) + 1 = k
        BY <1>5, <1>6, <3>4 DEF rest
      <3>6. rest[k - 1] = q
        BY <2>1, <3>3, <3>5
      <3> QED
        BY <3>5, <3>6 DEF Range
    <2>7. Continues(rest, p + 1)
      BY <2>2, <2>4, <2>5, <2>6 DEF Continues
    <2> QED
      BY <2>7 DEF rest
  <1>15. ReplayTypeOK'
    BY <1>2, <1>9, <1>12 DEF ReplayInv, ReplayTypeOK
  <1>16. RunRowHolds'
    BY <1>2, <1>9, RowStays
  <1>17. Covered(replay.next)'
    BY <1>2, <1>12, <1>13 DEF Covered
  <1>18. replay'.at = "publish" => Continues(replay.batch, replay.next)'
    BY <1>2, <1>12, <1>14 DEF Continues, Ascending
  <1>19. p + 1 > 0
    BY <1>5
  <1>20. \A n \in DOMAIN copied' : copied'[n] < replay'.next
    BY <1>9, <1>12
  <1>21. CommandHolds'
    BY <1>2, <1>3, <1>12, <1>17, <1>18, <1>19, <1>20 DEF CommandHolds, Copying
  <1> QED
    BY <1>9, <1>15, <1>16, <1>21 DEF ReplayInv

LEMMA RecordKeeps ==
    ASSUME ReplayInv, RecordProgress
    PROVE  ReplayInv'
  <1>1. replay \in Command /\ replay.at = "record" /\ runRow \in RunRow \cup {NotRecorded}
    BY DEF ReplayInv, ReplayTypeOK, RecordProgress, ReplayAt
  <1>2. replay' = [replay EXCEPT !.at = "read"]
        /\ UNCHANGED <<given, pending, archived, copied, owed>>
    BY DEF RecordProgress, Archive
  <1>3. Covered(replay.next) /\ replay.next > 0 /\ runRow # NotRecorded
        /\ (\A n \in DOMAIN copied : copied[n] < replay.next)
        /\ (\A q \in owed : q <= replay.last)
    BY <1>1 DEF ReplayInv, CommandHolds, Copying
  <1>4. runRow \in RunRow /\ replay.next \in Nat /\ replay.next - 1 \in Nat
        /\ (replay.next - 1) + 1 = replay.next
    BY <1>1, <1>3 DEF Command
  <1>5. runRow' \in RunRow /\ runRow'.through = replay.next - 1 /\ runRow'.status = runRow.status
    BY <1>4 DEF RecordProgress, RunRow
  <1>6. replay' \in Command /\ replay'.at = "read" /\ replay'.next = replay.next
        /\ replay'.last = replay.last
    BY <1>1, <1>2 DEF Command, ReplayPoints
  <1>7. runRow' # NotRecorded
    BY <1>5, NotRecordedAssumption
  <1>8. ReplayTypeOK'
    BY <1>2, <1>5, <1>6 DEF ReplayInv, ReplayTypeOK
  <1>9. RunRowHolds'
    BY <1>2, <1>3, <1>4, <1>5 DEF ReplayInv, RunRowHolds, Covered
  <1>10. CommandHolds'
    BY <1>2, <1>3, <1>6, <1>7 DEF CommandHolds, Copying, Covered
  <1> QED
    BY <1>2, <1>8, <1>9, <1>10 DEF ReplayInv, Ascending

LEMMA CompleteKeeps ==
    ASSUME ReplayInv, CompleteRun
    PROVE  ReplayInv'
  <1>1. runRow \in RunRow /\ owed \subseteq Range(copied) /\ copied \in Seq(Nat)
        /\ Ascending(copied)
    BY DEF ReplayInv, ReplayTypeOK, CommandHolds, Copying, CompleteRun, ReplayAt
  <1>2. replay' = [replay EXCEPT !.at = "over"]
        /\ UNCHANGED <<given, pending, archived, copied, owed>>
    BY DEF CompleteRun, Archive
  <1>3. runRow' \in RunRow
    BY <1>1 DEF CompleteRun, RunRow
  <1>4. Ascending(copied')
    BY <1>1, <1>2 DEF Ascending
  <1>5. RunRowHolds'
    BY <1>1, <1>2 DEF RunRowHolds, Covered
  <1> QED
    BY <1>1, <1>2, <1>3, <1>4, <1>5, RunEnds

LEMMA ThrowKeeps ==
    ASSUME ReplayInv, ReplayThrows
    PROVE  ReplayInv'
  <1>1. replay \in Command /\ runRow \in RunRow \cup {NotRecorded} /\ copied \in Seq(Nat)
        /\ Ascending(copied) /\ RunRowHolds /\ CommandHolds /\ owed \subseteq Nat \ {0}
    BY DEF ReplayInv, ReplayTypeOK
  <1>2. replay' = [replay EXCEPT !.at = "failed"] /\ UNCHANGED <<given, pending, archived, owed>>
    BY DEF ReplayThrows, Archive
  <1>3. CASE UNCHANGED <<runRow, copied>>
    <2>1. Ascending(copied') /\ RunRowHolds'
      BY <1>1, <1>2, <1>3 DEF Ascending, RunRowHolds, Covered
    <2> QED
      BY <1>1, <1>2, <1>3, <2>1, RunEnds
  <1>4. CASE runRow' = [status |-> "running", through |-> 0] /\ UNCHANGED copied
    <2>1. runRow' \in RunRow /\ runRow'.through = 0 /\ runRow'.status = "running"
      BY <1>4 DEF RunRow
    <2>2. Ascending(copied') /\ RunRowHolds'
      BY <1>1, <1>2, <1>4, <2>1 DEF Ascending, RunRowHolds, Covered
    <2> QED
      BY <1>1, <1>2, <1>4, <2>1, <2>2, RunEnds
  <1>5. CASE ReplayAt("publish") /\ copied' = Append(copied, Head(replay.batch)) /\ UNCHANGED runRow
    <2>1. replay.at = "publish"
      BY <1>5 DEF ReplayAt
    <2>2. /\ \A n \in DOMAIN copied : copied[n] < replay.next
          /\ Continues(replay.batch, replay.next)
      BY <1>1, <2>1 DEF CommandHolds, Copying
    <2>3. replay.batch \in Seq(Nat) /\ replay.batch # <<>> /\ replay.next \in Nat
      BY <1>1, <2>2 DEF Command, Continues
    <2>4. Head(replay.batch) \in Nat /\ 1 \in DOMAIN replay.batch
          /\ Head(replay.batch) = replay.batch[1]
      BY <2>3
    <2>5. replay.next <= Head(replay.batch)
      BY <2>2, <2>4 DEF Continues
    <2>6. \A n \in DOMAIN copied : copied[n] < Head(replay.batch)
      <3> SUFFICES ASSUME NEW n \in DOMAIN copied
                   PROVE  copied[n] < Head(replay.batch)
        OBVIOUS
      <3>1. copied[n] \in Nat /\ copied[n] < replay.next
        BY <1>1, <2>2
      <3> QED
        BY <2>3, <2>4, <2>5, <3>1
    <2>7. copied' \in Seq(Nat) /\ Range(copied) \subseteq Range(copied') /\ Ascending(copied')
      <3>1. /\ Append(copied, Head(replay.batch)) \in Seq(Nat)
            /\ Range(copied) \subseteq Range(Append(copied, Head(replay.batch)))
            /\ Ascending(Append(copied, Head(replay.batch)))
        BY <1>1, <2>4, <2>6, CopiedGrows
      <3> QED
        BY <1>5, <3>1, Zenon DEF Ascending
    <2>8. RunRowHolds'
      BY <1>2, <1>5, <2>7, RowStays
    <2> QED
      BY <1>1, <1>2, <1>5, <2>7, <2>8, RunEnds
  <1>6. CASE /\ ReplayAt("record") /\ runRow' = [runRow EXCEPT !.through = replay.next - 1]
             /\ UNCHANGED copied
    <2>1. replay.at = "record"
      BY <1>6 DEF ReplayAt
    <2>2. Covered(replay.next) /\ replay.next > 0 /\ runRow \in RunRow /\ replay.next \in Nat
      BY <1>1, <2>1 DEF CommandHolds, Copying, Command
    <2>3. replay.next - 1 \in Nat /\ (replay.next - 1) + 1 = replay.next
      BY <2>2
    <2>4. runRow' \in RunRow /\ runRow'.through = replay.next - 1 /\ runRow'.status = runRow.status
      BY <1>6, <2>2, <2>3 DEF RunRow
    <2>5. runRow # NotRecorded
      BY <2>2, NotRecordedAssumption
    <2>6. Ascending(copied') /\ RunRowHolds'
      BY <1>1, <1>2, <1>6, <2>2, <2>3, <2>4, <2>5 DEF Ascending, RunRowHolds, Covered
    <2> QED
      BY <1>1, <1>2, <1>6, <2>4, <2>6, RunEnds
  <1>7. CASE /\ ReplayAt("complete") /\ runRow' = [runRow EXCEPT !.status = "completed"]
             /\ UNCHANGED copied
    <2>1. replay.at = "complete"
      BY <1>7 DEF ReplayAt
    <2>2. runRow \in RunRow /\ owed \subseteq Range(copied)
      BY <1>1, <2>1 DEF CommandHolds, Copying
    <2>3. runRow' \in RunRow
      BY <1>7, <2>2 DEF RunRow
    <2>4. Ascending(copied') /\ RunRowHolds'
      BY <1>1, <1>2, <1>7, <2>2 DEF Ascending, RunRowHolds, Covered
    <2> QED
      BY <1>1, <1>2, <1>7, <2>3, <2>4, RunEnds
  <1> QED
    BY <1>3, <1>4, <1>5, <1>6, <1>7 DEF ReplayThrows

LEMMA FailureKeeps ==
    ASSUME ReplayInv, RecordRunFailure \/ ReplayDies
    PROVE  ReplayInv'
  <1>1. runRow \in RunRow \cup {NotRecorded} /\ copied \in Seq(Nat) /\ Ascending(copied) /\ RunRowHolds
    BY DEF ReplayInv, ReplayTypeOK
  <1>2. replay' = [replay EXCEPT !.at = "over"]
        /\ UNCHANGED <<given, pending, archived, copied, owed>>
    BY DEF RecordRunFailure, ReplayDies, Archive
  <1>3. Ascending(copied')
    BY <1>1, <1>2 DEF Ascending
  <1>4. CASE UNCHANGED runRow
    <2>1. RunRowHolds'
      BY <1>1, <1>2, <1>4 DEF RunRowHolds, Covered
    <2> QED
      BY <1>1, <1>2, <1>3, <1>4, <2>1, RunEnds
  <1>5. CASE runRow # NotRecorded /\ runRow' = [runRow EXCEPT !.status = "failed"]
    <2>1. runRow' \in RunRow /\ runRow'.through = runRow.through /\ runRow'.status = "failed"
      BY <1>1, <1>5 DEF RunRow
    <2>2. RunRowHolds'
      BY <1>1, <1>2, <1>5, <2>1 DEF RunRowHolds, Covered
    <2> QED
      BY <1>1, <1>2, <1>3, <2>1, <2>2, RunEnds
  <1> QED
    BY <1>4, <1>5 DEF RecordRunFailure, ReplayDies

LEMMA ReplayStarts == ReplayInit => ReplayInv
  <1> SUFFICES ASSUME ReplayInit
               PROVE  ReplayInv
    OBVIOUS
  <1>1. copied = <<>> /\ replay.at = "bounds" /\ runRow = NotRecorded /\ owed = {}
        /\ given = 0 /\ pending = {} /\ archived = {}
    BY DEF ReplayInit
  <1>2. replay \in Command
    <2>1. replay = [at |-> "bounds", last |-> 0, next |-> 0, batch |-> <<>>]
      BY DEF ReplayInit
    <2> QED
      BY <2>1 DEF Command, ReplayPoints
  <1>3. ReplayTypeOK
    BY <1>1, <1>2 DEF ReplayTypeOK
  <1>4. \A n \in DOMAIN copied : FALSE
    BY <1>1
  <1> QED
    BY <1>1, <1>3, <1>4 DEF ReplayInv, CommandHolds, RunRowHolds, Copying, Ascending

\* What is owed below the cursor has been copied, in order, and the batch that was read goes on
\* where the copies end without a gap (replay-command.ts).
THEOREM ReplayInvariant == ReplaySpec => []ReplayInv
  <1>1. ReplayInit => ReplayInv
    BY ReplayStarts
  <1>2. ReplayInv /\ [ReplayNext]_replayVars => ReplayInv'
    <2> SUFFICES ASSUME ReplayInv, [ReplayNext]_replayVars
                 PROVE  ReplayInv'
      OBVIOUS
    <2>1. CASE UNCHANGED replayVars
      BY <2>1 DEF replayVars, ReplayInv, ReplayTypeOK, CommandHolds, RunRowHolds, Covered, Continues,
                  Copying, Ascending
    <2> QED
      BY <2>1, AppendsKeep, ReadBoundsKeeps, BeginKeeps, ReadKeeps, PublishKeeps, RecordKeeps,
         CompleteKeeps, ThrowKeeps, FailureKeeps
      DEF ReplayNext
  <1> QED
    BY <1>1, <1>2, PTL DEF ReplaySpec

\* A completed run has copied all that was archived when it began, once and in order, and the
\* progress any run recorded is true, for any archive and any batch (replay-command.ts).
THEOREM ReplayIsTrue == ReplaySpec => []ReplayIsComplete
  <1>1. ReplayInv => ReplayIsComplete
    <2> SUFFICES ASSUME ReplayInv
                 PROVE  ReplayIsComplete
      OBVIOUS
    <2>1. Ascending(copied) /\ RunRowHolds /\ owed \subseteq Nat
      BY DEF ReplayInv, ReplayTypeOK
    <2>2. ASSUME runRow # NotRecorded, runRow.status # "completed",
                 NEW p \in owed, p <= runRow.through
          PROVE  p \in Range(copied)
      <3>1. runRow \in RunRow
        BY <2>2 DEF ReplayInv, ReplayTypeOK
      <3>2. runRow.through \in Nat
        BY <3>1 DEF RunRow
      <3>3. p < runRow.through + 1
        BY <2>1, <2>2, <3>2
      <3> QED
        BY <2>1, <2>2, <3>3 DEF RunRowHolds, Covered
    <2>3. runRow # NotRecorded /\ runRow.status = "completed" => owed \subseteq Range(copied)
      BY <2>1 DEF RunRowHolds
    <2> QED
      BY <2>1, <2>2, <2>3 DEF ReplayIsComplete, Ascending
  <1> QED
    BY <1>1, ReplayInvariant, PTL

----------------------------------------------------------------------------
(* The sweep that looks for three spans at once, for any spans.            *)

\* A non-empty set of natural numbers has a least member.
LEMMA LeastNumber ==
    ASSUME NEW N \in SUBSET Nat, N # {}
    PROVE  \E x \in N : \A y \in N : x <= y
  <1>1. PICK x \in N : \A y \in N : ~ (<<y, x>> \in OpToRel(<, Nat))
    BY WFMin, NatLessThanWellFounded
  <1>2. \A y \in N : ~ (y < x)
    BY <1>1 DEF OpToRel
  <1>3. \A y \in N : y \in Nat /\ x \in Nat
    BY <1>1
  <1>4. \A y \in N : x <= y
    BY <1>2, <1>3
  <1> QED
    BY <1>4

StrictOrder(S, order) ==
    /\ \A x \in S : <<x, x>> \notin order
    /\ \A x, y, z \in S : <<x, y>> \in order /\ <<y, z>> \in order => <<x, z>> \in order
    /\ \A x, y \in S : x # y => <<x, y>> \in order \/ <<y, x>> \in order

\* Sorting lists every member, each before those it precedes.
LEMMA Sorted ==
    ASSUME NEW S, IsFiniteSet(S), NEW order, StrictOrder(S, order)
    PROVE  /\ Cardinality(S) \in Nat
           /\ InOrder(S, order) \in [1..Cardinality(S) -> S]
           /\ \A x \in S : \E n \in 1..Cardinality(S) : InOrder(S, order)[n] = x
           /\ \A m, n \in 1..Cardinality(S) : m < n => <<InOrder(S, order)[m], InOrder(S, order)[n]>> \in order
  <1> DEFINE C == Cardinality(S)
             Below(x) == {y \in S : <<y, x>> \in order}
             place == [x \in S |-> 1 + Cardinality(Below(x))]
  <1>1. C \in Nat /\ IsFiniteSet(1..C) /\ Cardinality(1..C) = C
    BY FS_CardinalityType, FS_Interval
  <1>2. \A x \in S : /\ IsFiniteSet(Below(x)) /\ Cardinality(Below(x)) \in Nat
                     /\ Cardinality(Below(x)) <= C - 1
    <2> SUFFICES ASSUME NEW x \in S
                 PROVE  /\ IsFiniteSet(Below(x)) /\ Cardinality(Below(x)) \in Nat
                        /\ Cardinality(Below(x)) <= C - 1
      OBVIOUS
    <2>1. Below(x) \in SUBSET (S \ {x})
      BY DEF StrictOrder
    <2>2. IsFiniteSet(S \ {x}) /\ Cardinality(S \ {x}) = C - 1
      BY FS_RemoveElement
    <2> HIDE DEF Below
    <2>3. IsFiniteSet(Below(x)) /\ Cardinality(Below(x)) <= Cardinality(S \ {x})
      BY <2>1, <2>2, FS_Subset
    <2> QED
      BY <2>2, <2>3, FS_CardinalityType
  <1>3. \A x, y \in S : <<x, y>> \in order => Cardinality(Below(x)) < Cardinality(Below(y))
    <2> SUFFICES ASSUME NEW x \in S, NEW y \in S, <<x, y>> \in order
                 PROVE  Cardinality(Below(x)) < Cardinality(Below(y))
      OBVIOUS
    <2>1. Below(x) \in SUBSET Below(y) /\ x \in Below(y) /\ x \notin Below(x)
      BY DEF StrictOrder
    <2> HIDE DEF Below
    <2>2. /\ Cardinality(Below(x)) <= Cardinality(Below(y))
          /\ Cardinality(Below(y)) = Cardinality(Below(x)) => Below(y) = Below(x)
      BY <1>2, <2>1, FS_Subset
    <2> QED
      BY <1>2, <2>1, <2>2
  <1>4. place \in [S -> 1..C] /\ \A x \in S : place[x] = 1 + Cardinality(Below(x))
    <2> HIDE DEF Below
    <2> QED
      BY <1>1, <1>2
  <1> HIDE DEF Below
  <1>5. InOrder(S, order) = [n \in 1..C |-> CHOOSE x \in S : place[x] = n]
    BY DEF InOrder, Below
  <1> HIDE DEF place, C
  <1>6. \A x, y \in S : <<x, y>> \in order => place[x] < place[y]
    BY <1>2, <1>3, <1>4
  <1>7. \A x, y \in S : place[x] = place[y] => x = y
    <2> SUFFICES ASSUME NEW x \in S, NEW y \in S, place[x] = place[y], x # y
                 PROVE  FALSE
      OBVIOUS
    <2>1. <<x, y>> \in order \/ <<y, x>> \in order
      BY DEF StrictOrder
    <2>2. place[x] \in Int /\ place[y] \in Int
      BY <1>1, <1>4
    <2> QED
      BY <1>6, <2>1, <2>2
  <1>8. place \in Surjection(S, 1..C)
    <2>1. place \in Injection(S, 1..C)
      BY <1>4, <1>7 DEF Injection, IsInjective
    <2> QED
      BY <1>1, <2>1, FS_Injection DEF C
  <1>9. \A n \in 1..C : InOrder(S, order)[n] \in S /\ place[InOrder(S, order)[n]] = n
    <2> SUFFICES ASSUME NEW n \in 1..C
                 PROVE  InOrder(S, order)[n] \in S /\ place[InOrder(S, order)[n]] = n
      OBVIOUS
    <2>1. \E x \in S : place[x] = n
      BY <1>8 DEF Surjection
    <2> QED
      BY <1>5, <2>1
  <1>10. \A x \in S : InOrder(S, order)[place[x]] = x /\ place[x] \in 1..C
    BY <1>4, <1>7, <1>9
  <1>11. \A m, n \in 1..C : m < n => <<InOrder(S, order)[m], InOrder(S, order)[n]>> \in order
    <2> SUFFICES ASSUME NEW m \in 1..C, NEW n \in 1..C, m < n,
                        <<InOrder(S, order)[m], InOrder(S, order)[n]>> \notin order
                 PROVE  FALSE
      OBVIOUS
    <2>1. /\ InOrder(S, order)[m] \in S /\ place[InOrder(S, order)[m]] = m
          /\ InOrder(S, order)[n] \in S /\ place[InOrder(S, order)[n]] = n
      BY <1>9
    <2>2. <<InOrder(S, order)[n], InOrder(S, order)[m]>> \in order
      BY <1>1, <2>1 DEF StrictOrder
    <2> QED
      BY <1>1, <1>6, <2>1, <2>2
  <1> QED
    BY <1>1, <1>5, <1>9, <1>10, <1>11 DEF C

\* A running sum over the sorted boundaries; what the recursive function of Active comes to.
SumsDeltas(spans, f) ==
    /\ DOMAIN f = 0..Cardinality(Boundaries(spans)) /\ f[0] = 0
    /\ \A n \in 1..Cardinality(Boundaries(spans)) : f[n] = f[n - 1] + SortedBoundaries(spans)[n].delta

LEMMA ActiveRuns ==
    ASSUME NEW spans, Cardinality(Boundaries(spans)) \in Nat,
           NEW g \in [0..Cardinality(Boundaries(spans)) -> Int], SumsDeltas(spans, g)
    PROVE  SumsDeltas(spans, Active(spans))
  <1> SUFFICES ASSUME NEW f, f = Active(spans), NEW N \in Nat, N = Cardinality(Boundaries(spans)),
                      g \in [0..N -> Int], g[0] = 0,
                      \A n \in 1..N : g[n] = g[n - 1] + SortedBoundaries(spans)[n].delta
               PROVE  /\ DOMAIN f = 0..N /\ f[0] = 0
                      /\ \A n \in 1..N : f[n] = f[n - 1] + SortedBoundaries(spans)[n].delta
    BY DEF SumsDeltas
  <1>1. f = CHOOSE h : h = [n \in 0..N |-> IF n = 0 THEN 0 ELSE h[n - 1] + SortedBoundaries(spans)[n].delta]
    BY DEF Active
  <1>2. g = [n \in 0..N |-> IF n = 0 THEN 0 ELSE g[n - 1] + SortedBoundaries(spans)[n].delta]
    OBVIOUS
  <1>3. f = [n \in 0..N |-> IF n = 0 THEN 0 ELSE f[n - 1] + SortedBoundaries(spans)[n].delta]
    BY <1>1, <1>2
  <1> QED
    BY <1>3

SpansHold(spans) ==
    /\ IsFiniteSet(DOMAIN spans) /\ DOMAIN spans \subseteq Int
    /\ \A i \in DOMAIN spans : spans[i].start \in Int /\ spans[i].end \in Int

LEMMA BoundariesFinite ==
    ASSUME NEW spans, SpansHold(spans)
    PROVE  IsFiniteSet(Boundaries(spans))
  <1> DEFINE D == DOMAIN spans
             f == [p \in D \X {-1, 1} |-> [span |-> p[1], delta |-> p[2]]]
  <1>1. IsFiniteSet({-1, 1})
    <2>1. PICK low \in Int : low = -1
      OBVIOUS
    <2>2. IsFiniteSet(low..1)
      BY FS_Interval
    <2>3. {-1, 1} \in SUBSET (low..1)
      BY <2>1
    <2> QED
      BY <2>2, <2>3, FS_Subset
  <1>2. IsFiniteSet(D \X {-1, 1})
    BY <1>1, FS_Product DEF SpansHold
  <1>3. f \in Surjection(D \X {-1, 1}, Boundaries(spans))
    <2>1. \A p \in D \X {-1, 1} : f[p] \in Boundaries(spans)
      BY DEF Boundaries
    <2>2. ASSUME NEW b \in Boundaries(spans) PROVE \E p \in D \X {-1, 1} : f[p] = b
      <3>1. <<b.span, b.delta>> \in D \X {-1, 1} /\ b = [span |-> b.span, delta |-> b.delta]
        BY DEF Boundaries
      <3> QED
        BY <3>1
    <2>3. f \in [D \X {-1, 1} -> Boundaries(spans)]
      BY <2>1
    <2> HIDE DEF f
    <2> QED
      BY <2>2, <2>3 DEF Surjection
  <1> QED
    BY <1>2, <1>3, FS_Surjection

LEMMA BoundariesSorted ==
    ASSUME NEW spans, SpansHold(spans), NEW N, N = Cardinality(Boundaries(spans)),
           NEW events, events = SortedBoundaries(spans)
    PROVE  /\ N \in Nat /\ events \in [1..N -> Boundaries(spans)]
           /\ \A b \in Boundaries(spans) : \E n \in 1..N : events[n] = b
           /\ \A m, n \in 1..N : m < n => Before(spans, events[m], events[n])
  <1> DEFINE S == Boundaries(spans)
             order == {pair \in S \X S : Before(spans, pair[1], pair[2])}
  <1>1. \A b \in S : b.span \in Int /\ b.delta \in {-1, 1} /\ TimeOf(spans, b) \in Int
    BY DEF Boundaries, SpansHold, TimeOf
  <1>2. \A b, c \in S : b.span = c.span /\ b.delta = c.delta => b = c
    BY DEF Boundaries
  <1> HIDE DEF S
  <1>3. \A b, c \in S : <<b, c>> \in order <=> Before(spans, b, c)
    OBVIOUS
  <1>4. \A b \in S : ~ Before(spans, b, b)
    BY <1>1 DEF Before
  <1>5. \A b, c, d \in S : Before(spans, b, c) /\ Before(spans, c, d) => Before(spans, b, d)
    BY <1>1 DEF Before
  <1>6. \A b, c \in S : b # c => Before(spans, b, c) \/ Before(spans, c, b)
    BY <1>1, <1>2 DEF Before
  <1>7. StrictOrder(S, order)
    <2> HIDE DEF order
    <2> QED
      BY <1>3, <1>4, <1>5, <1>6 DEF StrictOrder
  <1>8. events = InOrder(S, order)
    BY DEF SortedBoundaries, S
  <1>9. IsFiniteSet(S) /\ N = Cardinality(S)
    BY BoundariesFinite DEF S
  <1>10. /\ N \in Nat /\ events \in [1..N -> S]
         /\ \A b \in S : \E n \in 1..N : events[n] = b
         /\ \A m, n \in 1..N : m < n => <<events[m], events[n]>> \in order
    <2> HIDE DEF order
    <2> QED
      BY <1>7, <1>8, <1>9, Sorted
  <1> QED
    BY <1>10 DEF S

\* The spans of which the first n boundaries hold the start (delta 1) or the end (-1).
Reached(spans, n, delta) ==
    {i \in DOMAIN spans : \E k \in 1..n : SortedBoundaries(spans)[k] = [span |-> i, delta |-> delta]}

LEMMA ReachedNext ==
    ASSUME NEW spans, SpansHold(spans), NEW n \in 1..Cardinality(Boundaries(spans)),
           NEW delta \in {-1, 1}, NEW b, b = SortedBoundaries(spans)[n]
    PROVE  /\ Cardinality(Boundaries(spans)) \in Nat
           /\ IsFiniteSet(Reached(spans, n, delta)) /\ Cardinality(Reached(spans, n, delta)) \in Nat
           /\ Cardinality(Reached(spans, n, delta)) =
                Cardinality(Reached(spans, n - 1, delta)) + IF b.delta = delta THEN 1 ELSE 0
  <1> DEFINE events == SortedBoundaries(spans)
             N == Cardinality(Boundaries(spans))
  <1>1. /\ N \in Nat /\ events \in [1..N -> Boundaries(spans)]
        /\ \A m \in 1..N : m < n => Before(spans, events[m], b)
    BY BoundariesSorted
  <1>2. b \in Boundaries(spans) /\ b.span \in DOMAIN spans
    BY <1>1 DEF Boundaries
  <1>3. b = [span |-> b.span, delta |-> b.delta]
    BY <1>2 DEF Boundaries
  <1>4. \A i \in DOMAIN spans : [span |-> i, delta |-> delta] = b <=> i = b.span /\ delta = b.delta
    BY <1>3
  <1>5. 1..n = (1..(n - 1)) \cup {n} /\ n \in Nat
    BY <1>1
  <1>6. Reached(spans, n, delta) = Reached(spans, n - 1, delta) \cup (IF b.delta = delta THEN {b.span} ELSE {})
    BY <1>2, <1>4, <1>5 DEF Reached
  <1>7. b.delta = delta => b.span \notin Reached(spans, n - 1, delta)
    <2> SUFFICES ASSUME b.delta = delta, NEW k \in 1..(n - 1), events[k] = [span |-> b.span, delta |-> delta]
                 PROVE  FALSE
      BY DEF Reached
    <2>1. events[k] = b /\ k \in 1..N /\ k < n
      BY <1>1, <1>3, <1>5
    <2>2. Before(spans, b, b)
      BY <1>1, <2>1
    <2>3. b.span \in Int /\ TimeOf(spans, b) \in Int /\ b.delta \in {-1, 1}
      BY <1>2 DEF Boundaries, SpansHold, TimeOf
    <2> QED
      BY <2>2, <2>3 DEF Before
  <1>8. Reached(spans, n - 1, delta) \in SUBSET DOMAIN spans
    BY DEF Reached
  <1>9. IsFiniteSet(Reached(spans, n - 1, delta)) /\ Cardinality(Reached(spans, n - 1, delta)) \in Nat
    BY <1>8, FS_Subset, FS_CardinalityType DEF SpansHold
  <1> HIDE DEF N, events
  <1>10. CASE b.delta = delta
    <2>1. Reached(spans, n, delta) = Reached(spans, n - 1, delta) \cup {b.span}
      BY <1>6, <1>10
    <2> QED
      BY <1>1, <1>7, <1>9, <1>10, <2>1, FS_AddElement, FS_CardinalityType DEF N
  <1>11. CASE b.delta # delta
    <2>1. Reached(spans, n, delta) = Reached(spans, n - 1, delta)
      BY <1>6, <1>11
    <2> QED
      BY <1>1, <1>9, <1>11, <2>1 DEF N
  <1> QED
    BY <1>10, <1>11

LEMMA ReachedNone ==
    ASSUME NEW spans, NEW delta
    PROVE  Reached(spans, 0, delta) = {} /\ Cardinality(Reached(spans, 0, delta)) = 0
  <1>1. Reached(spans, 0, delta) = {}
    BY DEF Reached
  <1> QED
    BY <1>1, FS_EmptySet

\* What is active after n boundaries is the starts less the ends among them.
LEMMA ActiveCounts ==
    ASSUME NEW spans, SpansHold(spans), NEW N, N = Cardinality(Boundaries(spans)),
           NEW playing, playing = Active(spans)
    PROVE  /\ N \in Nat /\ DOMAIN playing = 0..N
           /\ \A n \in 0..N : playing[n] = Cardinality(Reached(spans, n, 1)) - Cardinality(Reached(spans, n, -1))
           /\ \A n \in 0..N : playing[n] \in Int
           /\ \A n \in 1..N : playing[n] = playing[n - 1] + SortedBoundaries(spans)[n].delta
  <1> DEFINE events == SortedBoundaries(spans)
             g == [n \in 0..N |-> Cardinality(Reached(spans, n, 1)) - Cardinality(Reached(spans, n, -1))]
  <1>1. N \in Nat /\ events \in [1..N -> Boundaries(spans)]
    BY BoundariesSorted
  <1>2. g[0] = 0
    BY <1>1, ReachedNone
  <1>3. ASSUME NEW n \in 1..N
        PROVE  /\ Cardinality(Reached(spans, n, 1)) \in Nat /\ Cardinality(Reached(spans, n, -1)) \in Nat
               /\ g[n] = g[n - 1] + events[n].delta
    <2>1. events[n].delta \in {-1, 1}
      BY <1>1 DEF Boundaries
    <2>2. /\ Cardinality(Reached(spans, n, 1)) \in Nat
          /\ Cardinality(Reached(spans, n, 1)) =
               Cardinality(Reached(spans, n - 1, 1)) + IF events[n].delta = 1 THEN 1 ELSE 0
      BY ReachedNext
    <2>3. /\ Cardinality(Reached(spans, n, -1)) \in Nat
          /\ Cardinality(Reached(spans, n, -1)) =
               Cardinality(Reached(spans, n - 1, -1)) + IF events[n].delta = -1 THEN 1 ELSE 0
      BY ReachedNext
    <2>4. n \in 0..N /\ n - 1 \in 0..N
      BY <1>1
    <2>5. /\ g[n] = Cardinality(Reached(spans, n, 1)) - Cardinality(Reached(spans, n, -1))
          /\ g[n - 1] = Cardinality(Reached(spans, n - 1, 1)) - Cardinality(Reached(spans, n - 1, -1))
      BY <2>4
    <2>6. Cardinality(Reached(spans, n - 1, 1)) \in Nat /\ Cardinality(Reached(spans, n - 1, -1)) \in Nat
      <3>1. CASE n = 1
        BY <3>1, ReachedNone
      <3>2. CASE n # 1
        <4>1. n - 1 \in 1..Cardinality(Boundaries(spans))
          BY <1>1, <3>2
        <4> QED
          BY <4>1, ReachedNext
      <3> QED
        BY <3>1, <3>2
    <2> HIDE DEF g, events
    <2> QED
      BY <2>1, <2>2, <2>3, <2>5, <2>6
  <1>4. g \in [0..N -> Int]
    <2> SUFFICES ASSUME NEW n \in 0..N
                 PROVE  Cardinality(Reached(spans, n, 1)) - Cardinality(Reached(spans, n, -1)) \in Int
      OBVIOUS
    <2>1. CASE n = 0
      BY <2>1, ReachedNone
    <2>2. CASE n # 0
      <3>1. n \in 1..N
        BY <1>1, <2>2
      <3>2. Cardinality(Reached(spans, n, 1)) \in Nat /\ Cardinality(Reached(spans, n, -1)) \in Nat
        BY <1>3, <3>1
      <3> QED
        BY <3>2
    <2> QED
      BY <2>1, <2>2
  <1>5. \A n \in 0..N : g[n] = Cardinality(Reached(spans, n, 1)) - Cardinality(Reached(spans, n, -1))
    OBVIOUS
  <1> HIDE DEF g
  <1>6. /\ DOMAIN playing = 0..N /\ playing[0] = 0
        /\ \A n \in 1..N : playing[n] = playing[n - 1] + events[n].delta
    <2>1. \A n \in 1..N : g[n] = g[n - 1] + SortedBoundaries(spans)[n].delta
      BY <1>3
    <2> QED
      <3>1. SumsDeltas(spans, g)
        BY <1>2, <1>4, <2>1 DEF SumsDeltas
      <3>2. SumsDeltas(spans, playing)
        BY <1>1, <1>4, <3>1, ActiveRuns
      <3> QED
        BY <3>2 DEF SumsDeltas
  <1>7. \A n \in 0..N : playing[n] = g[n]
    <2> DEFINE Bad == {n \in 0..N : playing[n] # g[n]}
    <2> SUFFICES ASSUME Bad # {} PROVE FALSE
      OBVIOUS
    <2>1. Bad \in SUBSET Nat
      BY <1>1
    <2>2. PICK n \in Bad : \A m \in Bad : n <= m
      BY <2>1, LeastNumber
    <2>3. n \in 1..N /\ n - 1 \in 0..N /\ n - 1 < n
      BY <1>1, <1>2, <1>6, <2>2
    <2>4. playing[n - 1] = g[n - 1]
      BY <2>2, <2>3
    <2> QED
      BY <1>3, <1>6, <2>2, <2>3, <2>4
  <1> QED
    BY <1>1, <1>4, <1>5, <1>6, <1>7

\* The spans that cover an instant.
CoverAt(spans, time) == {i \in DOMAIN spans : spans[i].start <= time /\ time < spans[i].end}
\* The spans of which a boundary is not later than an instant.
By(spans, time, delta) == {i \in DOMAIN spans : TimeOf(spans, [span |-> i, delta |-> delta]) <= time}

LEMMA CoverCounts ==
    ASSUME NEW spans, SpansHold(spans), \A i \in DOMAIN spans : spans[i].start < spans[i].end,
           NEW time \in Int
    PROVE  /\ IsFiniteSet(By(spans, time, 1)) /\ IsFiniteSet(By(spans, time, -1))
           /\ Cardinality(By(spans, time, 1)) \in Nat /\ Cardinality(By(spans, time, -1)) \in Nat
           /\ Cardinality(CoverAt(spans, time)) = Cardinality(By(spans, time, 1)) - Cardinality(By(spans, time, -1))
  <1>1. By(spans, time, 1) \in SUBSET DOMAIN spans /\ By(spans, time, -1) \in SUBSET DOMAIN spans
    BY DEF By
  <1>2. /\ IsFiniteSet(By(spans, time, 1)) /\ IsFiniteSet(By(spans, time, -1))
        /\ Cardinality(By(spans, time, 1)) \in Nat /\ Cardinality(By(spans, time, -1)) \in Nat
    BY <1>1, FS_Subset, FS_CardinalityType DEF SpansHold
  <1>3. /\ By(spans, time, 1) = {i \in DOMAIN spans : spans[i].start <= time}
        /\ By(spans, time, -1) = {i \in DOMAIN spans : spans[i].end <= time}
    BY DEF By, TimeOf
  <1>4. \A i \in DOMAIN spans : spans[i].start \in Int /\ spans[i].end \in Int
    BY DEF SpansHold
  <1>5. By(spans, time, -1) \subseteq By(spans, time, 1)
    BY <1>3, <1>4
  <1>6. CoverAt(spans, time) = By(spans, time, 1) \ By(spans, time, -1)
    BY <1>3, <1>4 DEF CoverAt
  <1>7. By(spans, time, 1) \cap By(spans, time, -1) = By(spans, time, -1)
    BY <1>5
  <1> QED
    BY <1>2, <1>6, <1>7, FS_Difference

\* If three spans cover an instant, they are active after the last boundary not later.
LEMMA CoveredIsFound ==
    ASSUME NEW spans, SpansHold(spans), \A i \in DOMAIN spans : spans[i].start < spans[i].end,
           NEW time \in Int, Cardinality(CoverAt(spans, time)) > 2
    PROVE  SweepFindsThree(spans)
  <1> DEFINE N == Cardinality(Boundaries(spans))
             events == SortedBoundaries(spans)
             Past == {n \in 1..N : TimeOf(spans, events[n]) <= time}
  <1>1. /\ N \in Nat /\ events \in [1..N -> Boundaries(spans)]
        /\ \A b \in Boundaries(spans) : \E n \in 1..N : events[n] = b
        /\ \A m, n \in 1..N : m < n => Before(spans, events[m], events[n])
    BY BoundariesSorted
  <1>2. PICK playing : playing = Active(spans)
    OBVIOUS
  <1>3. /\ DOMAIN playing = 0..N
        /\ \A n \in 0..N : playing[n] = Cardinality(Reached(spans, n, 1)) - Cardinality(Reached(spans, n, -1))
    BY <1>2, ActiveCounts
  <1>4. /\ Cardinality(By(spans, time, 1)) \in Nat /\ Cardinality(By(spans, time, -1)) \in Nat
        /\ Cardinality(CoverAt(spans, time)) = Cardinality(By(spans, time, 1)) - Cardinality(By(spans, time, -1))
    BY CoverCounts
  <1>5. \A b \in Boundaries(spans) : TimeOf(spans, b) \in Int
    BY DEF Boundaries, SpansHold, TimeOf
  <1>6. \A b, c \in Boundaries(spans) : Before(spans, b, c) => TimeOf(spans, b) <= TimeOf(spans, c)
    BY <1>5 DEF Before
  <1> HIDE DEF events, N
  <1>7. Past # {}
    <2>1. PICK i \in CoverAt(spans, time) : TRUE
      <3>1. CoverAt(spans, time) # {}
        BY <1>4, FS_EmptySet
      <3> QED
        BY <3>1
    <2>2. [span |-> i, delta |-> 1] \in Boundaries(spans) /\ TimeOf(spans, [span |-> i, delta |-> 1]) <= time
      BY <2>1 DEF CoverAt, Boundaries, TimeOf
    <2> QED
      BY <1>1, <2>2
  <1>8. PICK n \in Past : \A m \in Past : m <= n
    <2> DEFINE From == {N - m : m \in Past}
    <2>1. From \in SUBSET Nat /\ From # {}
      BY <1>1, <1>7
    <2>2. PICK x \in From : \A y \in From : x <= y
      BY <2>1, LeastNumber
    <2>3. PICK n \in Past : x = N - n
      BY <2>2
    <2>4. \A m \in Past : N - n <= N - m
      BY <2>2, <2>3
    <2>5. \A m \in Past : m \in Int
      OBVIOUS
    <2> QED
      BY <1>1, <2>3, <2>4, <2>5
  <1>9. n \in 1..N /\ TimeOf(spans, events[n]) <= time
    BY <1>8
  <1>10. ASSUME NEW delta \in {-1, 1} PROVE Reached(spans, n, delta) = By(spans, time, delta)
    <2>1. ASSUME NEW i \in Reached(spans, n, delta) PROVE i \in By(spans, time, delta)
      <3>1. PICK k \in 1..n : events[k] = [span |-> i, delta |-> delta] /\ i \in DOMAIN spans
        BY <2>1 DEF Reached, events
      <3>2. k \in 1..N /\ n \in 1..N /\ (k = n \/ k < n)
        BY <1>1, <1>9, <3>1
      <3>3. events[k] \in Boundaries(spans) /\ events[n] \in Boundaries(spans)
        BY <1>1, <3>2
      <3>4. TimeOf(spans, events[k]) <= TimeOf(spans, events[n])
        BY <1>1, <1>5, <1>6, <3>2, <3>3
      <3>5. TimeOf(spans, events[k]) <= time
        BY <1>5, <1>9, <3>3, <3>4
      <3> QED
        BY <3>1, <3>5 DEF By
    <2>2. ASSUME NEW i \in By(spans, time, delta) PROVE i \in Reached(spans, n, delta)
      <3>1. /\ i \in DOMAIN spans /\ [span |-> i, delta |-> delta] \in Boundaries(spans)
            /\ TimeOf(spans, [span |-> i, delta |-> delta]) <= time
        BY <2>2 DEF By, Boundaries
      <3>2. PICK k \in 1..N : events[k] = [span |-> i, delta |-> delta]
        BY <1>1, <3>1
      <3>3. k \in Past
        BY <3>1, <3>2
      <3>4. k \in 1..n
        BY <1>1, <1>8, <1>9, <3>3
      <3> QED
        BY <3>1, <3>2, <3>4 DEF Reached, events
    <2> QED
      BY <2>1, <2>2
  <1>11. playing[n] > 2 /\ n \in DOMAIN playing
    <2>1. n \in 0..N
      BY <1>1, <1>9
    <2> QED
      BY <1>3, <1>4, <1>10, <2>1
  <1> QED
    BY <1>2, <1>11 DEF SweepFindsThree

\* The first boundary after which three are active is a start, when all three are.
LEMMA FoundIsCovered ==
    ASSUME NEW spans, SpansHold(spans), \A i \in DOMAIN spans : spans[i].start < spans[i].end,
           SweepFindsThree(spans)
    PROVE  \E i \in DOMAIN spans : Cardinality(CoverAt(spans, spans[i].start)) > 2
  <1> DEFINE N == Cardinality(Boundaries(spans))
             events == SortedBoundaries(spans)
  <1>1. /\ N \in Nat /\ events \in [1..N -> Boundaries(spans)]
        /\ \A b \in Boundaries(spans) : \E n \in 1..N : events[n] = b
        /\ \A m, n \in 1..N : m < n => Before(spans, events[m], events[n])
    BY BoundariesSorted
  <1>2. PICK playing : playing = Active(spans)
    OBVIOUS
  <1>3. /\ DOMAIN playing = 0..N
        /\ \A n \in 0..N : playing[n] = Cardinality(Reached(spans, n, 1)) - Cardinality(Reached(spans, n, -1))
        /\ \A n \in 0..N : playing[n] \in Int
        /\ \A n \in 1..N : playing[n] = playing[n - 1] + events[n].delta
    BY <1>2, ActiveCounts
  <1> DEFINE Found == {n \in 0..N : playing[n] > 2}
  <1>4. PICK n \in Found : \A m \in Found : n <= m
    <2>1. Found \in SUBSET Nat
      BY <1>1
    <2>2. Found # {}
      BY <1>2, <1>3 DEF SweepFindsThree
    <2> HIDE DEF Found
    <2> QED
      BY <2>1, <2>2, LeastNumber
  <1>5. n \in 0..N /\ playing[n] > 2 /\ \A m \in 0..N : m < n => ~(playing[m] > 2)
    <2>1. \A m \in 0..N : m \in Int
      BY <1>1
    <2> QED
      BY <1>4, <2>1
  <1>6. n \in 1..N
    <2>1. playing[0] = 0
      <3>1. 0 \in 0..N
        BY <1>1
      <3> QED
        BY <1>3, <3>1, ReachedNone
    <2> QED
      BY <1>1, <1>5, <2>1
  <1>7. events[n] \in Boundaries(spans) /\ events[n].delta = 1
    <2>1. n - 1 \in 0..N /\ n - 1 < n
      BY <1>1, <1>6
    <2>2. playing[n] = playing[n - 1] + events[n].delta /\ ~(playing[n - 1] > 2) /\ playing[n - 1] \in Int
      BY <1>3, <1>5, <1>6, <2>1
    <2>3. events[n] \in Boundaries(spans)
      BY <1>1, <1>6
    <2>4. events[n].delta \in {-1, 1}
      BY <2>3 DEF Boundaries
    <2> QED
      BY <1>5, <2>2, <2>3, <2>4
  <1>8. PICK i \in DOMAIN spans : events[n] = [span |-> i, delta |-> 1]
    BY <1>7 DEF Boundaries
  <1> DEFINE time == spans[i].start
  <1>9. time \in Int /\ TimeOf(spans, events[n]) = time
    BY <1>8 DEF SpansHold, TimeOf
  <1>10. \A b \in Boundaries(spans) : TimeOf(spans, b) \in Int /\ b.delta \in {-1, 1}
    BY DEF Boundaries, SpansHold, TimeOf
  <1> HIDE DEF time, events, N
  <1>11. Reached(spans, n, 1) \subseteq By(spans, time, 1)
    <2> SUFFICES ASSUME NEW j \in Reached(spans, n, 1) PROVE j \in By(spans, time, 1)
      OBVIOUS
    <2>1. PICK k \in 1..n : events[k] = [span |-> j, delta |-> 1] /\ j \in DOMAIN spans
      BY DEF Reached, events
    <2>2. k \in 1..N /\ (k = n \/ k < n)
      BY <1>1, <1>6, <2>1
    <2>3. events[k] \in Boundaries(spans)
      BY <1>1, <2>2
    <2>4. k = n \/ Before(spans, events[k], events[n])
      BY <1>1, <1>6, <2>2
    <2>5. TimeOf(spans, events[k]) <= time
      BY <1>7, <1>9, <1>10, <2>3, <2>4 DEF Before
    <2> QED
      BY <2>1, <2>5 DEF By
  <1>12. By(spans, time, -1) \subseteq Reached(spans, n, -1)
    <2> SUFFICES ASSUME NEW j \in By(spans, time, -1) PROVE j \in Reached(spans, n, -1)
      OBVIOUS
    <2>1. /\ j \in DOMAIN spans /\ [span |-> j, delta |-> -1] \in Boundaries(spans)
          /\ TimeOf(spans, [span |-> j, delta |-> -1]) <= time
      BY DEF By, Boundaries
    <2>2. PICK k \in 1..N : events[k] = [span |-> j, delta |-> -1]
      BY <1>1, <2>1
    <2>3. ~ Before(spans, events[n], events[k])
      BY <1>7, <1>9, <1>10, <2>1, <2>2 DEF Before
    <2>4. ~ (n < k)
      BY <1>1, <1>6, <2>3
    <2>5. k \in 1..n
      BY <1>1, <1>6, <2>2, <2>4
    <2> QED
      BY <2>1, <2>2, <2>5 DEF Reached, events
  <1>13. /\ IsFiniteSet(By(spans, time, 1)) /\ IsFiniteSet(By(spans, time, -1))
         /\ Cardinality(By(spans, time, 1)) \in Nat /\ Cardinality(By(spans, time, -1)) \in Nat
         /\ Cardinality(CoverAt(spans, time)) = Cardinality(By(spans, time, 1)) - Cardinality(By(spans, time, -1))
    BY <1>9, CoverCounts
  <1>14. IsFiniteSet(Reached(spans, n, 1)) /\ IsFiniteSet(Reached(spans, n, -1))
    <2>1. Reached(spans, n, 1) \in SUBSET DOMAIN spans /\ Reached(spans, n, -1) \in SUBSET DOMAIN spans
      BY DEF Reached
    <2> QED
      BY <2>1, FS_Subset DEF SpansHold
  <1>15. /\ Cardinality(Reached(spans, n, 1)) <= Cardinality(By(spans, time, 1))
         /\ Cardinality(By(spans, time, -1)) <= Cardinality(Reached(spans, n, -1))
         /\ Cardinality(Reached(spans, n, 1)) \in Nat /\ Cardinality(Reached(spans, n, -1)) \in Nat
    BY <1>11, <1>12, <1>13, <1>14, FS_Subset, FS_CardinalityType
  <1>16. Cardinality(CoverAt(spans, time)) > 2
    BY <1>3, <1>5, <1>13, <1>15
  <1> QED
    BY <1>16 DEF time

----------------------------------------------------------------------------
(* The rule on the times of fragments.                                     *)

TimingTypes == fragments \in Seq([id : Ids, startUs : Times, endUs : Times])

LEMMA TimingStep == TimingTypes /\ [Next]_fragments => TimingTypes'
  <1> SUFFICES ASSUME TimingTypes, [Next]_fragments PROVE TimingTypes'
    OBVIOUS
  <1>1. ASSUME NEW id \in Ids, NEW startUs \in Times, NEW endUs \in Times, Add(id, startUs, endUs)
        PROVE  TimingTypes'
    BY <1>1 DEF Add, TimingTypes
  <1>2. CASE UNCHANGED fragments
    BY <1>2 DEF TimingTypes
  <1> QED
    BY <1>1, <1>2 DEF Next

LEMMA TimingIsTheRule == TimingTypes => AcceptsExactlyTheRule
  <1> SUFFICES ASSUME TimingTypes PROVE AcceptsExactlyTheRule
    OBVIOUS
  <1> DEFINE Distinct == \A n, k \in DOMAIN fragments : fragments[n].id = fragments[k].id => n = k
             Inside == \A n \in DOMAIN fragments :
                         /\ 0 <= fragments[n].startUs
                         /\ fragments[n].startUs < fragments[n].endUs
                         /\ Duration = Unknown \/ fragments[n].endUs <= Duration
             Few == \A time \in Times : Cardinality(PlayingAt(time)) <= 2
  <1>1. /\ Len(fragments) \in Nat /\ DOMAIN fragments = 1..Len(fragments)
        /\ \A n \in DOMAIN fragments : /\ fragments[n].startUs \in Times /\ fragments[n].endUs \in Times
                                       /\ fragments[n].startUs \in Int /\ fragments[n].endUs \in Int
    <2>1. Len(fragments) \in Nat /\ DOMAIN fragments = 1..Len(fragments)
      BY DEF TimingTypes
    <2>2. \A n \in DOMAIN fragments : fragments[n] \in [id : Ids, startUs : Times, endUs : Times]
      <3>1. PICK R : R = [id : Ids, startUs : Times, endUs : Times]
        OBVIOUS
      <3>2. fragments \in Seq(R)
        BY <3>1 DEF TimingTypes
      <3>3. \A n \in DOMAIN fragments : fragments[n] \in R
        BY <3>2
      <3> QED
        BY <3>1, <3>3
    <2>3. \A time \in Times : time \in Int
      BY TimingAssumption
    <2> QED
      BY <2>1, <2>2, <2>3
  <1>2. PICK spans : spans = Spans(fragments)
    OBVIOUS
  <1>3. /\ DOMAIN spans = DOMAIN fragments
        /\ \A n \in DOMAIN fragments : spans[n].start = fragments[n].startUs /\ spans[n].end = fragments[n].endUs
    BY <1>2 DEF Spans
  <1>4. SpansHold(spans)
    <2>1. IsFiniteSet(1..Len(fragments)) /\ 1..Len(fragments) \subseteq Int
      BY <1>1, FS_Interval
    <2> QED
      BY <1>1, <1>3, <2>1 DEF SpansHold
  <1>5. \A time : PlayingAt(time) = CoverAt(spans, time)
    BY <1>3 DEF PlayingAt, CoverAt
  <1>6. (\A n \in DOMAIN fragments : ~ InvalidAt(fragments, n)) <=> Distinct /\ Inside
    <2>1. ASSUME \A n \in DOMAIN fragments : ~ InvalidAt(fragments, n) PROVE Distinct
      <3> SUFFICES ASSUME NEW n \in DOMAIN fragments, NEW k \in DOMAIN fragments,
                          fragments[n].id = fragments[k].id, n # k
                   PROVE  FALSE
        OBVIOUS
      <3>1. n \in 1..(k - 1) \/ k \in 1..(n - 1)
        BY <1>1
      <3> QED
        BY <2>1, <3>1 DEF InvalidAt
    <2>2. ASSUME \A n \in DOMAIN fragments : ~ InvalidAt(fragments, n) PROVE Inside
      <3> SUFFICES ASSUME NEW n \in DOMAIN fragments
                   PROVE  /\ 0 <= fragments[n].startUs
                          /\ fragments[n].startUs < fragments[n].endUs
                          /\ Duration = Unknown \/ fragments[n].endUs <= Duration
        OBVIOUS
      <3>1. /\ ~(fragments[n].startUs < 0) /\ ~(fragments[n].endUs <= fragments[n].startUs)
            /\ ~(Duration # Unknown /\ fragments[n].endUs > Duration)
        BY <2>2 DEF InvalidAt
      <3>2. Duration = Unknown \/ Duration \in Int
        BY TimingAssumption
      <3> QED
        BY <1>1, <3>1, <3>2
    <2>3. ASSUME Distinct, Inside, NEW n \in DOMAIN fragments PROVE ~ InvalidAt(fragments, n)
      <3>1. \A k \in 1..(n - 1) : fragments[k].id # fragments[n].id
        <4>1. \A k \in 1..(n - 1) : k \in DOMAIN fragments /\ k # n
          BY <1>1
        <4> QED
          BY <2>3, <4>1
      <3>2. /\ ~(fragments[n].startUs < 0) /\ ~(fragments[n].endUs <= fragments[n].startUs)
            /\ ~(Duration # Unknown /\ fragments[n].endUs > Duration)
        <4>1. Duration = Unknown \/ Duration \in Int
          BY TimingAssumption
        <4> QED
          BY <1>1, <2>3, <4>1
      <3> QED
        BY <3>1, <3>2 DEF InvalidAt
    <2> QED
      BY <2>1, <2>2, <2>3
  <1>7. ASSUME Inside PROVE ~ SweepFindsThree(spans) <=> Few
    <2>1. \A i \in DOMAIN spans : spans[i].start < spans[i].end
      BY <1>3, <1>7
    <2>2. ASSUME SweepFindsThree(spans) PROVE ~ Few
      <3>1. PICK i \in DOMAIN spans : Cardinality(CoverAt(spans, spans[i].start)) > 2
        BY <1>4, <2>1, <2>2, FoundIsCovered
      <3>2. spans[i].start \in Times /\ ~(Cardinality(PlayingAt(spans[i].start)) <= 2)
        <4>1. spans[i].start \in Times /\ spans[i].start \in Int
          BY <1>1, <1>3
        <4>2. Cardinality(CoverAt(spans, spans[i].start)) \in Nat
          <5>1. CoverAt(spans, spans[i].start) \in SUBSET DOMAIN spans
            BY DEF CoverAt
          <5> QED
            BY <1>4, <5>1, FS_Subset, FS_CardinalityType DEF SpansHold
        <4> QED
          BY <1>5, <3>1, <4>1, <4>2
      <3> QED
        BY <3>2
    <2>3. ASSUME ~ Few PROVE SweepFindsThree(spans)
      <3>1. PICK time \in Times : ~(Cardinality(PlayingAt(time)) <= 2)
        BY <2>3
      <3>2. time \in Int
        BY TimingAssumption
      <3>3. CoverAt(spans, time) \in SUBSET DOMAIN spans
        BY DEF CoverAt
      <3>4. Cardinality(CoverAt(spans, time)) \in Nat
        BY <1>4, <3>3, FS_Subset, FS_CardinalityType DEF SpansHold
      <3>5. Cardinality(CoverAt(spans, time)) > 2
        BY <1>5, <3>1, <3>4
      <3> QED
        BY <1>4, <2>1, <3>2, <3>5, CoveredIsFound
    <2> QED
      BY <2>2, <2>3
  <1>8. ValidateFragmentSet(fragments) <=>
          (\A n \in DOMAIN fragments : ~ InvalidAt(fragments, n)) /\ ~ SweepFindsThree(spans)
    BY <1>2 DEF ValidateFragmentSet
  <1>9. ValidateFragmentSet(fragments) <=> Distinct /\ Inside /\ Few
    BY <1>6, <1>7, <1>8
  <1> QED
    BY <1>9 DEF AcceptsExactlyTheRule

\* The server accepts a list of fragments exactly when they are distinct, lie inside the
\* video, have a positive length and at no instant three of them play, for lists of any
\* length and any times (the checks and the sweep of validateFragmentSet).
THEOREM SweepIsTheRule == Spec => []AcceptsExactlyTheRule
  <1>1. Init => TimingTypes
    BY DEF Init, TimingTypes
  <1> QED
    BY <1>1, TimingStep, TimingIsTheRule, PTL DEF Spec

----------------------------------------------------------------------------
(* The segments of the editor.                                             *)

Segment == {s \in [id : SegmentIds, start : 0..TimelineLength, end : 0..TimelineLength] : s.start < s.end}

\* A list of segments of which no two have an id in common.
Listing(list) ==
    list \in Seq(Segment) /\ \A m, n \in DOMAIN list : list[m].id = list[n].id => m = n

LEMMA SegmentFields ==
    ASSUME NEW s \in Segment
    PROVE  /\ s.id \in SegmentIds /\ s.id \in Int /\ s.start \in Int /\ s.end \in Int
           /\ 0 <= s.start /\ s.start < s.end /\ s.end <= TimelineLength /\ s.start \in Instants
  <1>1. s \in [id : SegmentIds, start : 0..TimelineLength, end : 0..TimelineLength] /\ s.start < s.end
    BY DEF Segment
  <1>2. s.id \in SegmentIds /\ s.start \in 0..TimelineLength /\ s.end \in 0..TimelineLength
    BY <1>1
  <1>3. TimelineLength \in Nat /\ s.id \in Int
    BY <1>2, EditsAssumption
  <1> QED
    BY <1>1, <1>2, <1>3 DEF Instants

LEMMA ListingSpans ==
    ASSUME NEW list \in Seq(Segment)
    PROVE  /\ Len(list) \in Nat /\ DOMAIN list = 1..Len(list) /\ \A n \in DOMAIN list : list[n] \in Segment
           /\ SpansHold(list) /\ \A n \in DOMAIN list : list[n].start < list[n].end
           /\ \A time : CoverAt(list, time) = {n \in DOMAIN list : Covers(list[n], time)}
           /\ IsFiniteSet(DOMAIN list) /\ Cardinality(DOMAIN list) = Len(list)
           /\ \A time : IsFiniteSet(CoverAt(list, time)) /\ Cardinality(CoverAt(list, time)) \in Nat
  <1>1. Len(list) \in Nat /\ DOMAIN list = 1..Len(list) /\ \A n \in DOMAIN list : list[n] \in Segment
    OBVIOUS
  <1>2. IsFiniteSet(DOMAIN list) /\ Cardinality(DOMAIN list) = Len(list)
    BY <1>1, FS_Interval
  <1>3. \A n \in DOMAIN list : list[n].start \in Int /\ list[n].end \in Int /\ list[n].start < list[n].end
    BY <1>1, SegmentFields
  <1>4. SpansHold(list)
    BY <1>1, <1>2, <1>3 DEF SpansHold
  <1>5. \A time : CoverAt(list, time) = {n \in DOMAIN list : Covers(list[n], time)}
    BY DEF CoverAt, Covers
  <1>6. \A time : CoverAt(list, time) \in SUBSET DOMAIN list
    BY DEF CoverAt
  <1>7. \A time : IsFiniteSet(CoverAt(list, time)) /\ Cardinality(CoverAt(list, time)) \in Nat
    BY <1>2, <1>6, FS_Subset, FS_CardinalityType
  <1> QED
    BY <1>1, <1>2, <1>3, <1>4, <1>5, <1>7

LEMMA ThreeOf ==
    ASSUME NEW S, IsFiniteSet(S), NEW a \in S, NEW b \in S, NEW c \in S, a # b, a # c, b # c
    PROVE  Cardinality(S) > 2
  <1>1. PICK A : A = {a} /\ IsFiniteSet(A) /\ Cardinality(A) = 1 /\ b \notin A
    BY FS_Singleton
  <1>2. IsFiniteSet({a} \cup {b}) /\ Cardinality({a} \cup {b}) = 2
    <2>1. /\ IsFiniteSet(A \cup {b})
          /\ Cardinality(A \cup {b}) = IF b \in A THEN Cardinality(A) ELSE Cardinality(A) + 1
      BY <1>1, FS_AddElement
    <2> QED
      BY <1>1, <2>1
  <1>3. IsFiniteSet(({a} \cup {b}) \cup {c}) /\ Cardinality(({a} \cup {b}) \cup {c}) = 3
    <2>1. c \notin {a} \cup {b}
      OBVIOUS
    <2> QED
      BY <1>2, <2>1, FS_AddElement
  <1>4. Cardinality(({a} \cup {b}) \cup {c}) <= Cardinality(S)
    <2>1. ({a} \cup {b}) \cup {c} \in SUBSET S
      OBVIOUS
    <2> QED
      BY <2>1, FS_Subset
  <1> QED
    BY <1>3, <1>4, FS_CardinalityType

\* An order of the segments of a list by their starts.
InStartOrder(list, order) ==
    /\ Len(list) \in Nat /\ order \in [1..Len(list) -> DOMAIN list]
    /\ \A i \in DOMAIN list : \E n \in 1..Len(list) : order[n] = i
    /\ \A m, n \in 1..Len(list) : m < n =>
         order[m] # order[n] /\ list[order[m]].start <= list[order[n]].start

LEMMA StartsSorted ==
    ASSUME NEW list, Listing(list)
    PROVE  InStartOrder(list, SortedByStart(list))
  <1> SUFFICES ASSUME NEW order, order = SortedByStart(list), NEW N, N = Len(list)
               PROVE  /\ N \in Nat /\ order \in [1..N -> DOMAIN list]
                      /\ \A i \in DOMAIN list : \E n \in 1..N : order[n] = i
                      /\ \A m, n \in 1..N : m < n =>
                           order[m] # order[n] /\ list[order[m]].start <= list[order[n]].start
    BY DEF InStartOrder
  <1> DEFINE D == DOMAIN list
             pairs == {pair \in D \X D : ByStart(list[pair[1]], list[pair[2]])}
  <1>1. /\ N \in Nat /\ D = 1..N /\ IsFiniteSet(D) /\ Cardinality(D) = N
        /\ \A n \in D : list[n].id \in Int /\ list[n].start \in Int /\ list[n].end \in Int
        /\ \A m, n \in D : list[m].id = list[n].id => m = n
    <2>1. list \in Seq(Segment) /\ \A m, n \in D : list[m].id = list[n].id => m = n
      BY DEF Listing
    <2> QED
      BY <2>1, ListingSpans, SegmentFields
  <1> HIDE DEF D
  <1>2. \A m, n \in D : <<m, n>> \in pairs <=> ByStart(list[m], list[n])
    OBVIOUS
  <1> HIDE DEF pairs
  <1>3. \A m \in D : ~ ByStart(list[m], list[m])
    BY <1>1 DEF ByStart
  <1>4. \A k, m, n \in D : ByStart(list[k], list[m]) /\ ByStart(list[m], list[n]) => ByStart(list[k], list[n])
    BY <1>1 DEF ByStart
  <1>5. \A m, n \in D : m # n => ByStart(list[m], list[n]) \/ ByStart(list[n], list[m])
    <2> SUFFICES ASSUME NEW m \in D, NEW n \in D, m # n
                 PROVE  ByStart(list[m], list[n]) \/ ByStart(list[n], list[m])
      OBVIOUS
    <2>1. list[m].id # list[n].id
      BY <1>1
    <2> QED
      BY <1>1, <2>1 DEF ByStart
  <1>6. StrictOrder(D, pairs)
    BY <1>2, <1>3, <1>4, <1>5 DEF StrictOrder
  <1>7. order = InOrder(D, pairs)
    BY DEF SortedByStart, D, pairs
  <1>8. /\ order \in [1..N -> D] /\ \A i \in D : \E n \in 1..N : order[n] = i
        /\ \A m, n \in 1..N : m < n => <<order[m], order[n]>> \in pairs
    BY <1>1, <1>6, <1>7, Sorted
  <1>9. ASSUME NEW m \in 1..N, NEW n \in 1..N, m < n
        PROVE  order[m] # order[n] /\ list[order[m]].start <= list[order[n]].start
    <2>1. order[m] \in D /\ order[n] \in D /\ ByStart(list[order[m]], list[order[n]])
      BY <1>2, <1>8, <1>9
    <2> QED
      BY <1>1, <1>3, <2>1 DEF ByStart
  <1> QED
    BY <1>1, <1>8, <1>9 DEF D

Unplaced == [ok |-> TRUE, ends |-> <<-1, -1>>, rows |-> <<>>]

\* What the recursive function of Layouts comes to.
LayoutRuns(list, layout) ==
    /\ layout[0] = Unplaced
    /\ \A n \in 1..Len(list) : layout[n] = Placed(layout[n - 1], list[SortedByStart(list)[n]])

LEMMA LayoutsRun ==
    ASSUME NEW list, Len(list) \in Nat
    PROVE  LayoutRuns(list, Layouts(list))
  <1> SUFFICES ASSUME NEW N \in Nat, N = Len(list), NEW layout, layout = Layouts(list),
                      NEW order, order = SortedByStart(list)
               PROVE  /\ layout[0] = Unplaced
                      /\ \A n \in 1..N : layout[n] = Placed(layout[n - 1], list[order[n]])
    BY DEF LayoutRuns
  <1> DEFINE Runs(M, g) ==
               g = [n \in 0..M |-> IF n = 0 THEN Unplaced ELSE Placed(g[n - 1], list[order[n]])]
             Bad == {M \in 0..N : ~ \E g : Runs(M, g)}
  <1>1. Bad = {}
    <2> SUFFICES ASSUME Bad # {} PROVE FALSE
      OBVIOUS
    <2>1. PICK M \in Bad : \A m \in Bad : M <= m
      <3>1. Bad \in SUBSET Nat
        OBVIOUS
      <3> HIDE DEF Bad
      <3> QED
        BY <3>1, LeastNumber
    <2>2. CASE M = 0
      <3> DEFINE g == [n \in 0..0 |-> Unplaced]
      <3>1. \A n \in 0..0 : n = 0
        OBVIOUS
      <3>2. g = [n \in 0..0 |-> IF n = 0 THEN Unplaced ELSE Placed(g[n - 1], list[order[n]])]
        BY <3>1
      <3>3. Runs(M, g)
        BY <2>2, <3>2
      <3> QED
        BY <2>1, <3>3
    <2>3. CASE M # 0
      <3>1. M \in Nat /\ M - 1 \in 0..N /\ M - 1 < M
        BY <2>1, <2>3
      <3>2. M - 1 \notin Bad
        BY <2>1, <3>1
      <3>3. PICK g : Runs(M - 1, g)
        BY <3>1, <3>2
      <3> DEFINE h == [n \in 0..M |-> IF n = M THEN Placed(g[M - 1], list[order[M]]) ELSE g[n]]
      <3>4. \A n \in 0..(M - 1) : g[n] = IF n = 0 THEN Unplaced ELSE Placed(g[n - 1], list[order[n]])
        BY <3>1, <3>3
      <3>5. /\ \A n \in 0..(M - 1) : h[n] = g[n]
            /\ h[M] = Placed(g[M - 1], list[order[M]])
        BY <3>1
      <3>6. DOMAIN h = 0..M /\ h = [n \in 0..M |-> h[n]]
        OBVIOUS
      <3> HIDE DEF h
      <3>7. ASSUME NEW n \in 0..M PROVE h[n] = IF n = 0 THEN Unplaced ELSE Placed(h[n - 1], list[order[n]])
        <4>1. CASE n = M
          <5>1. h[M - 1] = g[M - 1]
            BY <3>1, <3>5
          <5> QED
            BY <2>3, <3>5, <4>1, <5>1
        <4>2. CASE n = 0
          BY <2>3, <3>1, <3>4, <3>5, <4>2
        <4>3. CASE n # M /\ n # 0
          <5>1. n \in 0..(M - 1) /\ n - 1 \in 0..(M - 1)
            BY <3>1, <4>3
          <5> QED
            BY <3>4, <3>5, <4>3, <5>1
        <4> QED
          BY <4>1, <4>2, <4>3
      <3>8. Runs(M, h)
        BY <3>6, <3>7
      <3> QED
        BY <2>1, <3>8
    <2> QED
      BY <2>2, <2>3
  <1>2. \E g : Runs(N, g)
    <2>1. N \in 0..N
      OBVIOUS
    <2> QED
      BY <1>1, <2>1
  <1>3. layout = CHOOSE g : Runs(N, g)
    BY DEF Layouts, Unplaced
  <1>4. Runs(N, layout)
    BY <1>2, <1>3
  <1> QED
    BY <1>4

LayoutType == [ok : BOOLEAN, ends : [1..2 -> Int], rows : Seq([row : 1..2, segment : Segment])]

\* One segment is placed: in a row that is free by its start, unless neither is.
PlacedIn(layout, s, next) ==
    /\ next \in LayoutType
    /\ next.ok =>
         /\ layout.ok
         /\ \E r \in 1..2 :
              /\ layout.ends[r] <= s.start
              /\ next.ends = [layout.ends EXCEPT ![r] = s.end]
              /\ next.rows = Append(layout.rows, [row |-> r, segment |-> s])
    /\ ~ next.ok /\ layout.ok => \A r \in 1..2 : layout.ends[r] > s.start

LEMMA PlacedFacts ==
    ASSUME NEW layout \in LayoutType, NEW s \in Segment
    PROVE  PlacedIn(layout, s, Placed(layout, s))
  <1> SUFFICES ASSUME layout \in [ok : BOOLEAN, ends : [1..2 -> Int], rows : Seq([row : 1..2, segment : Segment])],
                      s.start \in Int, s.end \in Int, NEW next, next = Placed(layout, s)
               PROVE
                 /\ next \in [ok : BOOLEAN, ends : [1..2 -> Int], rows : Seq([row : 1..2, segment : Segment])]
                 /\ next.ok =>
                      /\ layout.ok
                      /\ \E r \in 1..2 :
                           /\ layout.ends[r] <= s.start
                           /\ next.ends = [layout.ends EXCEPT ![r] = s.end]
                           /\ next.rows = Append(layout.rows, [row |-> r, segment |-> s])
                 /\ ~ next.ok /\ layout.ok => \A r \in 1..2 : layout.ends[r] > s.start
    BY SegmentFields DEF LayoutType, PlacedIn
  <1> DEFINE free == {k \in {1, 2} : layout.ends[k] <= s.start}
             r == IF 1 \in free THEN 1 ELSE 2
             stopped == [layout EXCEPT !.ok = FALSE]
             placed == [ok |-> TRUE, ends |-> [layout.ends EXCEPT ![r] = s.end],
                        rows |-> Append(layout.rows, [row |-> r, segment |-> s])]
  <1>1. next = IF ~ layout.ok \/ free = {} THEN stopped ELSE placed
    BY DEF Placed
  <1>2. /\ layout.ok \in BOOLEAN /\ layout.ends \in [1..2 -> Int]
        /\ layout.rows \in Seq([row : 1..2, segment : Segment])
    OBVIOUS
  <1>3. CASE ~ layout.ok \/ free = {}
    <2>1. next = stopped
      BY <1>1, <1>3
    <2>2. next \in [ok : BOOLEAN, ends : [1..2 -> Int], rows : Seq([row : 1..2, segment : Segment])] /\ next.ok = FALSE
      BY <2>1
    <2>3. layout.ok => \A k \in 1..2 : layout.ends[k] > s.start
      <3> SUFFICES ASSUME layout.ok, NEW k \in 1..2 PROVE layout.ends[k] > s.start
        OBVIOUS
      <3>1. k \in {1, 2} /\ k \notin free
        BY <1>3
      <3>2. layout.ends[k] \in Int
        BY <1>2
      <3> QED
        BY <3>1, <3>2
    <2> QED
      BY <2>2, <2>3
  <1>4. CASE layout.ok /\ free # {}
    <2>1. next = placed
      BY <1>1, <1>4
    <2>2. PICK q \in 1..2 : q = r /\ layout.ends[q] <= s.start
      <3>1. r \in 1..2 /\ layout.ends[r] <= s.start
        BY <1>4
      <3> QED
        BY <3>1
    <2>3. next = [ok |-> TRUE, ends |-> [layout.ends EXCEPT ![q] = s.end],
                  rows |-> Append(layout.rows, [row |-> q, segment |-> s])]
      BY <2>1, <2>2
    <2> HIDE DEF r, free, placed, stopped
    <2>4. [row |-> q, segment |-> s] \in [row : 1..2, segment : Segment]
      BY <2>2
    <2>5. Append(layout.rows, [row |-> q, segment |-> s]) \in Seq([row : 1..2, segment : Segment])
      BY <1>2, <2>4, AppendProperties
    <2>6. [layout.ends EXCEPT ![q] = s.end] \in [1..2 -> Int]
      BY <1>2
    <2>7. PICK ends : ends = [layout.ends EXCEPT ![q] = s.end]
      OBVIOUS
    <2>8. PICK rows : rows = Append(layout.rows, [row |-> q, segment |-> s])
      OBVIOUS
    <2>9. next = [ok |-> TRUE, ends |-> ends, rows |-> rows]
      BY <2>3, <2>7, <2>8
    <2>10. /\ ends \in [1..2 -> Int] /\ rows \in Seq([row : 1..2, segment : Segment])
      BY <2>5, <2>6, <2>7, <2>8
    <2>11. /\ next \in [ok : BOOLEAN, ends : [1..2 -> Int], rows : Seq([row : 1..2, segment : Segment])]
           /\ next.ok = TRUE /\ next.ends = ends /\ next.rows = rows
      BY <2>9, <2>10
    <2>12. \E k \in 1..2 : /\ layout.ends[k] <= s.start
                           /\ next.ends = [layout.ends EXCEPT ![k] = s.end]
                           /\ next.rows = Append(layout.rows, [row |-> k, segment |-> s])
      BY <2>2, <2>7, <2>8, <2>11
    <2> QED
      BY <1>4, <2>11, <2>12
  <1> QED
    BY <1>2, <1>3, <1>4

\* What the first n segments in order of start make of the two rows.
RowsFit(list, n, layout) ==
    LET order == SortedByStart(list)
    IN  /\ Len(layout.rows) = n
        /\ \A k \in 1..n : /\ layout.rows[k].segment = list[order[k]]
                           /\ layout.rows[k].row \in 1..2
                           /\ list[order[k]].end <= layout.ends[layout.rows[k].row]
        /\ \A r \in 1..2 : \/ layout.ends[r] = -1
                           \/ \E k \in 1..n : layout.rows[k].row = r /\ list[order[k]].end = layout.ends[r]
        /\ \A j, k \in 1..n : j < k /\ layout.rows[j].row = layout.rows[k].row =>
             list[order[j]].end <= list[order[k]].start

LayoutHolds(list, n, layout) ==
    /\ layout \in LayoutType
    /\ layout.ok => RowsFit(list, n, layout)
    /\ ~ layout.ok => \E time \in Instants : Depth(list, time) > 2

LEMMA LayoutStep ==
    ASSUME NEW list, Listing(list), NEW order, order = SortedByStart(list),
           NEW n \in 1..Len(list), NEW layout, LayoutHolds(list, n - 1, layout),
           NEW next, next = Placed(layout, list[order[n]])
    PROVE  LayoutHolds(list, n, next)
  <1> DEFINE s == list[order[n]]
             N == Len(list)
  <1>1. /\ N \in Nat /\ order \in [1..N -> DOMAIN list] /\ n \in Nat
        /\ \A i, k \in 1..N : i < k => order[i] # order[k] /\ list[order[i]].start <= list[order[k]].start
    <2>1. InStartOrder(list, order)
      BY StartsSorted
    <2> QED
      BY <2>1 DEF InStartOrder
  <1>2. \A k \in 1..N : list[order[k]] \in Segment
    BY <1>1, ListingSpans DEF Listing
  <1>3. /\ s \in Segment /\ s.start \in Int /\ s.end \in Int
        /\ 0 <= s.start /\ s.start < s.end /\ s.start \in Instants
    BY <1>2, SegmentFields
  <1>4. layout \in LayoutType
    BY DEF LayoutHolds
  <1>5. /\ next \in LayoutType
        /\ next.ok =>
             /\ layout.ok
             /\ \E r \in 1..2 :
                  /\ layout.ends[r] <= s.start
                  /\ next.ends = [layout.ends EXCEPT ![r] = s.end]
                  /\ next.rows = Append(layout.rows, [row |-> r, segment |-> s])
        /\ ~ next.ok /\ layout.ok => \A r \in 1..2 : layout.ends[r] > s.start
    <2>2. PICK t \in Segment : t = s /\ t.start \in Int /\ t.end \in Int
      BY <1>3
    <2>3. next = Placed(layout, t)
      BY <2>2
    <2> HIDE DEF s
    <2>4. PlacedIn(layout, t, next)
      BY <1>4, <2>2, <2>3, PlacedFacts
    <2> QED
      BY <2>2, <2>4 DEF PlacedIn
  <1>6. \A k \in 1..(n - 1) : k \in 1..N /\ k < n /\ k \in Nat
    BY <1>1
  <1>7. \A k \in 1..N : list[order[k]].start \in Int /\ list[order[k]].end \in Int
    BY <1>2, SegmentFields
  <1> HIDE DEF N
  <1>8. ASSUME next.ok PROVE RowsFit(list, n, next)
    <2>1. PICK r \in 1..2 : /\ layout.ends[r] <= s.start
                            /\ next.ends = [layout.ends EXCEPT ![r] = s.end]
                            /\ next.rows = Append(layout.rows, [row |-> r, segment |-> s])
      BY <1>5, <1>8
    <2>2. RowsFit(list, n - 1, layout)
      BY <1>5, <1>8 DEF LayoutHolds
    <2>3. PICK L : L = layout.rows
      OBVIOUS
    <2>4. /\ Len(L) = n - 1 /\ L \in Seq([row : 1..2, segment : Segment]) /\ layout.ends \in [1..2 -> Int]
          /\ \A k \in 1..(n - 1) : /\ L[k].segment = list[order[k]] /\ L[k].row \in 1..2
                                   /\ list[order[k]].end <= layout.ends[L[k].row]
          /\ \A q \in 1..2 : \/ layout.ends[q] = -1
                             \/ \E k \in 1..(n - 1) : L[k].row = q /\ list[order[k]].end = layout.ends[q]
          /\ \A j, k \in 1..(n - 1) : j < k /\ L[j].row = L[k].row =>
               list[order[j]].end <= list[order[k]].start
      BY <1>4, <2>2, <2>3 DEF RowsFit, LayoutType
    <2>5. PICK new \in [row : 1..2, segment : Segment] : new = [row |-> r, segment |-> s]
      BY <1>3
    <2>6. new.row = r /\ new.segment = s
      BY <2>5
    <2>7. /\ Len(next.rows) = n /\ next.rows[n] = new
          /\ \A k \in 1..(n - 1) : next.rows[k] = L[k]
      BY <1>1, <2>1, <2>3, <2>4, <2>5, AppendProperties
    <2>8. /\ next.ends[r] = s.end /\ \A q \in 1..2 : q # r => next.ends[q] = layout.ends[q]
      BY <2>1, <2>4
    <2>9. \A k \in 1..n : k \in 1..(n - 1) \/ k = n
      BY <1>1
    <2> HIDE DEF s
    <2>10. ASSUME NEW k \in 1..(n - 1) PROVE list[order[k]].end <= next.ends[L[k].row]
      <3>1. L[k].row \in 1..2 /\ list[order[k]].end <= layout.ends[L[k].row] /\ list[order[k]].end \in Int
        BY <1>6, <1>7, <2>4
      <3>2. CASE L[k].row = r
        <4>1. layout.ends[r] \in Int /\ layout.ends[r] <= s.start
          BY <2>1, <2>4
        <4>2. list[order[k]].end <= layout.ends[r]
          BY <3>1, <3>2
        <4>3. list[order[k]].end <= s.end
          BY <1>3, <3>1, <4>1, <4>2
        <4> QED
          BY <2>8, <3>2, <4>3
      <3>3. CASE L[k].row # r
        BY <2>8, <3>1, <3>3
      <3> QED
        BY <3>2, <3>3
    <2>11. \A k \in 1..n : /\ next.rows[k].segment = list[order[k]] /\ next.rows[k].row \in 1..2
                           /\ list[order[k]].end <= next.ends[next.rows[k].row]
      <3> SUFFICES ASSUME NEW k \in 1..n
                   PROVE  /\ next.rows[k].segment = list[order[k]] /\ next.rows[k].row \in 1..2
                          /\ list[order[k]].end <= next.ends[next.rows[k].row]
        OBVIOUS
      <3>1. CASE k = n
        BY <1>3, <2>6, <2>7, <2>8, <3>1 DEF s
      <3>2. CASE k # n
        <4>1. k \in 1..(n - 1) /\ next.rows[k] = L[k]
          BY <2>7, <2>9, <3>2
        <4>2. L[k].segment = list[order[k]] /\ L[k].row \in 1..2
          BY <2>4, <4>1
        <4> QED
          BY <2>10, <4>1, <4>2
      <3> QED
        BY <3>1, <3>2
    <2>12. ASSUME NEW q \in 1..2
           PROVE  \/ next.ends[q] = -1
                  \/ \E k \in 1..n : next.rows[k].row = q /\ list[order[k]].end = next.ends[q]
      <3>1. CASE q = r
        <4>1. next.rows[n].row = q /\ list[order[n]].end = next.ends[q] /\ n \in 1..n
          BY <1>1, <2>6, <2>7, <2>8, <3>1 DEF s
        <4> QED
          BY <4>1
      <3>2. CASE q # r
        <4>1. CASE layout.ends[q] = -1
          BY <2>8, <3>2, <4>1
        <4>2. ASSUME NEW k \in 1..(n - 1), L[k].row = q, list[order[k]].end = layout.ends[q]
              PROVE  \E j \in 1..n : next.rows[j].row = q /\ list[order[j]].end = next.ends[q]
          <5>1. k \in 1..n
            BY <1>1
          <5> QED
            BY <2>7, <2>8, <3>2, <4>2, <5>1
        <4> QED
          BY <2>4, <4>1, <4>2
      <3> QED
        BY <3>1, <3>2
    <2>13. ASSUME NEW j \in 1..n, NEW k \in 1..n, j < k, next.rows[j].row = next.rows[k].row
           PROVE  list[order[j]].end <= list[order[k]].start
      <3>1. j \in 1..(n - 1)
        BY <1>1, <2>13
      <3>2. CASE k = n
        <4>1. L[j].row = r
          BY <2>6, <2>7, <2>13, <3>1, <3>2
        <4>2. list[order[j]].end <= layout.ends[r] /\ layout.ends[r] \in Int
          BY <2>4, <3>1, <4>1
        <4>3. list[order[j]].end \in Int
          BY <1>6, <1>7, <3>1
        <4> QED
          BY <1>3, <2>1, <3>2, <4>2, <4>3 DEF s
      <3>3. CASE k # n
        <4>1. k \in 1..(n - 1) /\ next.rows[k] = L[k] /\ next.rows[j] = L[j]
          BY <2>7, <2>9, <3>1, <3>3
        <4> QED
          BY <2>4, <2>13, <3>1, <4>1
      <3> QED
        BY <3>2, <3>3
    <2>14. Len(next.rows) = n
      BY <2>7
    <2> QED
      BY <2>11, <2>12, <2>13, <2>14 DEF RowsFit
  <1>9. ASSUME ~ next.ok PROVE \E time \in Instants : Depth(list, time) > 2
    <2>1. CASE ~ layout.ok
      BY <2>1 DEF LayoutHolds
    <2>2. CASE layout.ok
      <3>1. RowsFit(list, n - 1, layout) /\ \A r \in 1..2 : layout.ends[r] > s.start
        BY <1>5, <1>9, <2>2 DEF LayoutHolds
      <3>2. ASSUME NEW r \in 1..2
            PROVE  \E k \in 1..(n - 1) : layout.rows[k].row = r /\ list[order[k]].end > s.start
        <4>1. layout.ends[r] > s.start /\ layout.ends[r] # -1
          BY <1>3, <3>1
        <4> QED
          BY <3>1, <4>1 DEF RowsFit
      <3>3. PICK j \in 1..(n - 1) : layout.rows[j].row = 1 /\ list[order[j]].end > s.start
        BY <3>2
      <3>4. PICK k \in 1..(n - 1) : layout.rows[k].row = 2 /\ list[order[k]].end > s.start
        BY <3>2
      <3>5. j # k
        BY <3>3, <3>4
      <3>6. /\ order[j] \in DOMAIN list /\ order[k] \in DOMAIN list /\ order[n] \in DOMAIN list
            /\ order[j] # order[n] /\ order[k] # order[n] /\ order[j] # order[k]
            /\ list[order[j]].start <= s.start /\ list[order[k]].start <= s.start
        <4>1. j \in 1..N /\ k \in 1..N /\ n \in 1..N /\ j < n /\ k < n /\ (j < k \/ k < j)
          BY <1>1, <1>6, <3>5 DEF N
        <4> QED
          BY <1>1, <4>1
      <3>7. order[j] \in CoverAt(list, s.start) /\ order[k] \in CoverAt(list, s.start)
            /\ order[n] \in CoverAt(list, s.start)
        BY <1>3, <3>3, <3>4, <3>6 DEF CoverAt
      <3>8. IsFiniteSet(CoverAt(list, s.start)) /\ Depth(list, s.start) = Cardinality(CoverAt(list, s.start))
        BY ListingSpans DEF Listing, Depth
      <3>9. Depth(list, s.start) > 2
        BY <3>6, <3>7, <3>8, ThreeOf
      <3> QED
        BY <1>3, <3>9
    <2> QED
      BY <2>1, <2>2
  <1> QED
    BY <1>5, <1>8, <1>9 DEF LayoutHolds

LEMMA LayoutAlways ==
    ASSUME NEW list, Listing(list), NEW n \in 0..Len(list)
    PROVE  LayoutHolds(list, n, Layouts(list)[n])
  <1>1. PICK N \in Nat : N = Len(list)
    BY DEF Listing
  <1>2. PICK order : order = SortedByStart(list)
    OBVIOUS
  <1>3. PICK layout : layout = Layouts(list)
    OBVIOUS
  <1>4. /\ layout[0] = Unplaced
        /\ \A m \in 1..N : layout[m] = Placed(layout[m - 1], list[order[m]])
    <2>1. LayoutRuns(list, layout)
      BY <1>1, <1>3, LayoutsRun
    <2> QED
      BY <1>1, <1>2, <2>1 DEF LayoutRuns
  <1>5. LayoutHolds(list, 0, layout[0])
    <2>1. PICK low \in Int : low = -1
      OBVIOUS
    <2>2. <<low, low>> \in [1..2 -> Int]
      OBVIOUS
    <2>3. <<>> \in Seq([row : 1..2, segment : Segment]) /\ Len(<<>>) = 0
      OBVIOUS
    <2>4. PICK ends \in [1..2 -> Int] : ends = <<low, low>>
      BY <2>2
    <2>5. \A r \in 1..2 : ends[r] = -1
      BY <2>1, <2>4
    <2>6. layout[0] = [ok |-> TRUE, ends |-> ends, rows |-> <<>>]
      BY <1>4, <2>1, <2>4 DEF Unplaced
    <2>7. layout[0] \in LayoutType /\ layout[0].ok = TRUE /\ layout[0].rows = <<>> /\ layout[0].ends = ends
      BY <2>3, <2>6 DEF LayoutType
    <2>8. RowsFit(list, 0, layout[0])
      BY <2>3, <2>5, <2>7 DEF RowsFit
    <2> QED
      BY <2>7, <2>8 DEF LayoutHolds
  <1> DEFINE Bad == {m \in 0..N : ~ LayoutHolds(list, m, layout[m])}
  <1>6. Bad = {}
    <2> SUFFICES ASSUME Bad # {} PROVE FALSE
      OBVIOUS
    <2>1. PICK m \in Bad : \A k \in Bad : m <= k
      <3>1. Bad \in SUBSET Nat
        OBVIOUS
      <3> QED
        BY <3>1, LeastNumber
    <2>2. m \in 1..N /\ m - 1 \in 0..N /\ m - 1 < m
      BY <1>5, <2>1
    <2>3. LayoutHolds(list, m - 1, layout[m - 1])
      BY <2>1, <2>2
    <2>4. LayoutHolds(list, m, layout[m])
      BY <1>1, <1>2, <1>4, <2>2, <2>3, LayoutStep
    <2> QED
      BY <2>1, <2>4
  <1> QED
    BY <1>1, <1>3, <1>6

\* The greedy layout finds two rows exactly when no three segments overlap, and in a row
\* it finds none of them overlap.
LEMMA LayoutIsRight ==
    ASSUME NEW list, Listing(list), NEW layout, layout = AssignSegmentRows(list)
    PROVE  /\ layout.ok <=> AtMostTwoDeep(list)
           /\ layout.ok =>
                /\ Len(layout.rows) = Len(list)
                /\ \A n, k \in DOMAIN layout.rows, time \in Instants :
                     n # k /\ layout.rows[n].row = layout.rows[k].row =>
                       ~ (Covers(layout.rows[n].segment, time) /\ Covers(layout.rows[k].segment, time))
  <1>1. PICK N \in Nat : N = Len(list)
    BY DEF Listing
  <1>2. PICK order : order = SortedByStart(list)
    OBVIOUS
  <1>3. /\ N \in Nat /\ order \in [1..N -> DOMAIN list]
        /\ \A i \in DOMAIN list : \E n \in 1..N : order[n] = i
        /\ \A m, n \in 1..N : m < n =>
             order[m] # order[n] /\ list[order[m]].start <= list[order[n]].start
    <2>1. InStartOrder(list, SortedByStart(list))
      BY StartsSorted
    <2> QED
      BY <1>1, <1>2, <2>1 DEF InStartOrder
  <1>4. /\ \A n \in DOMAIN list : list[n] \in Segment
        /\ \A time : CoverAt(list, time) = {n \in DOMAIN list : Covers(list[n], time)}
        /\ \A time : IsFiniteSet(CoverAt(list, time)) /\ Cardinality(CoverAt(list, time)) \in Nat
    BY ListingSpans DEF Listing
  <1>5. \A time : Depth(list, time) = Cardinality(CoverAt(list, time)) /\ Depth(list, time) \in Nat
    BY <1>4 DEF Depth
  <1>6. \A k \in 1..N : list[order[k]].start \in Int /\ list[order[k]].end \in Int
    BY <1>3, <1>4, SegmentFields
  <1>7. LayoutHolds(list, N, layout)
    <2>1. N \in 0..Len(list) /\ layout = Layouts(list)[N]
      BY <1>1 DEF AssignSegmentRows
    <2> QED
      BY <2>1, LayoutAlways
  <1>8. ASSUME layout.ok
        PROVE  /\ Len(layout.rows) = N /\ DOMAIN layout.rows = 1..N
               /\ \A k \in 1..N : layout.rows[k].segment = list[order[k]] /\ layout.rows[k].row \in 1..2
               /\ \A j, k \in 1..N : j < k /\ layout.rows[j].row = layout.rows[k].row =>
                    list[order[j]].end <= list[order[k]].start
    <2>1. layout \in LayoutType /\ RowsFit(list, N, layout)
      BY <1>7, <1>8 DEF LayoutHolds
    <2>2. layout.rows \in Seq([row : 1..2, segment : Segment])
      BY <2>1 DEF LayoutType
    <2>3. DOMAIN layout.rows = 1..Len(layout.rows)
      BY <2>2
    <2> QED
      BY <1>2, <2>1, <2>3 DEF RowsFit
  <1>9. ASSUME layout.ok, NEW time \in Int, NEW j \in 1..N, NEW k \in 1..N, j # k,
               layout.rows[j].row = layout.rows[k].row,
               Covers(list[order[j]], time), Covers(list[order[k]], time)
        PROVE  FALSE
    <2>1. j < k \/ k < j
      BY <1>9
    <2>2. \/ list[order[j]].end <= list[order[k]].start
          \/ list[order[k]].end <= list[order[j]].start
      BY <1>8, <1>9, <2>1
    <2> QED
      BY <1>6, <1>9, <2>2 DEF Covers
  <1>10. \A time \in Instants : time \in Int
    BY EditsAssumption DEF Instants
  <1>11. ASSUME layout.ok, NEW time \in Instants PROVE Depth(list, time) <= 2
    <2> DEFINE C == CoverAt(list, time)
               at == [i \in C |-> CHOOSE n \in 1..N : order[n] = i]
               f == [i \in C |-> layout.rows[at[i]].row]
    <2>1. \A i \in C : at[i] \in 1..N /\ order[at[i]] = i
      BY <1>3, <1>4
    <2>2. \A i \in C : Covers(list[i], time)
      BY <1>4
    <2> HIDE DEF C, at
    <2>3. f \in [C -> 1..2]
      BY <1>8, <1>11, <2>1
    <2>4. \A i, j \in C : f[i] = f[j] => i = j
      <3> SUFFICES ASSUME NEW i \in C, NEW j \in C, f[i] = f[j], i # j PROVE FALSE
        OBVIOUS
      <3>1. at[i] # at[j] /\ layout.rows[at[i]].row = layout.rows[at[j]].row
        BY <2>1
      <3> QED
        BY <1>9, <1>10, <1>11, <2>1, <2>2, <3>1
    <2> HIDE DEF f
    <2>5. f \in Injection(C, 1..2)
      BY <2>3, <2>4 DEF Injection, IsInjective
    <2>6. IsFiniteSet(1..2) /\ Cardinality(1..2) = 2
      <3>1. PICK b \in Int : b = 2
        OBVIOUS
      <3>2. IsFiniteSet(1..b) /\ Cardinality(1..b) = IF 1 > b THEN 0 ELSE b - 1 + 1
        BY FS_Interval
      <3> QED
        BY <3>1, <3>2
    <2>7. Cardinality(C) <= 2
      BY <2>5, <2>6, FS_Injection
    <2> QED
      BY <1>5, <2>7 DEF C
  <1>12. layout.ok <=> AtMostTwoDeep(list)
    <2>1. layout.ok => AtMostTwoDeep(list)
      BY <1>11 DEF AtMostTwoDeep
    <2>2. ASSUME ~ layout.ok PROVE ~ AtMostTwoDeep(list)
      <3>1. PICK time \in Instants : Depth(list, time) > 2
        BY <1>7, <2>2 DEF LayoutHolds
      <3> QED
        BY <1>5, <3>1 DEF AtMostTwoDeep
    <2> QED
      BY <2>1, <2>2
  <1>13. ASSUME layout.ok, NEW n \in DOMAIN layout.rows, NEW k \in DOMAIN layout.rows, NEW time \in Instants,
                n # k, layout.rows[n].row = layout.rows[k].row,
                Covers(layout.rows[n].segment, time), Covers(layout.rows[k].segment, time)
         PROVE  FALSE
    <2>1. /\ n \in 1..N /\ k \in 1..N
          /\ layout.rows[n].segment = list[order[n]] /\ layout.rows[k].segment = list[order[k]]
      BY <1>8, <1>13
    <2> QED
      BY <1>9, <1>10, <1>13, <2>1
  <1> QED
    BY <1>1, <1>8, <1>12, <1>13

----------------------------------------------------------------------------
(* The edits of the timeline.                                              *)

\* A list and a deleted segment an undo can bring back, which fits unless edits came
\* after the deletion; `over` once an undo came after such edits.
EditsHold(list, gone, over) ==
    /\ Listing(list)
    /\ gone # Nothing =>
         /\ gone \in [segment : Segment, index : 1..(Len(list) + 1), edited : BOOLEAN]
         /\ \A n \in DOMAIN list : list[n].id # gone.segment.id
         /\ ~ over /\ ~ gone.edited =>
              \A time \in Instants :
                 Depth(list, time) + (IF Covers(gone.segment, time) THEN 1 ELSE 0) <= 2
    /\ over \in BOOLEAN
    /\ ~ over => AtMostTwoDeep(list)

TimelineInv == EditsHold(timeline, removed, restoredOver)

\* Taking the segment at n out of a list takes it out of what covers an instant.
LEMMA OneLess ==
    ASSUME NEW list \in Seq(Segment), NEW shorter \in Seq(Segment), NEW n \in DOMAIN list,
           Len(shorter) = Len(list) - 1,
           \A i \in 1..Len(shorter) : shorter[i] = list[IF i < n THEN i ELSE i + 1],
           NEW time
    PROVE  Depth(list, time) = Depth(shorter, time) + IF Covers(list[n], time) THEN 1 ELSE 0
  <1> DEFINE C == CoverAt(list, time)
             B == CoverAt(shorter, time)
             A == C \ {n}
             f == [i \in B |-> IF i < n THEN i ELSE i + 1]
  <1>1. /\ Len(list) \in Nat /\ DOMAIN list = 1..Len(list)
        /\ C = {i \in DOMAIN list : Covers(list[i], time)}
        /\ IsFiniteSet(C) /\ Cardinality(C) \in Nat
    BY ListingSpans
  <1>2. /\ Len(shorter) \in Nat /\ DOMAIN shorter = 1..Len(shorter)
        /\ B = {i \in DOMAIN shorter : Covers(shorter[i], time)}
        /\ IsFiniteSet(B) /\ Cardinality(B) \in Nat
    BY ListingSpans
  <1>3. Depth(list, time) = Cardinality(C) /\ Depth(shorter, time) = Cardinality(B)
    BY <1>1, <1>2 DEF Depth
  <1> HIDE DEF C, B
  <1>4. \A i \in B : i \in 1..Len(shorter) /\ i \in Int /\ Covers(shorter[i], time)
    BY <1>2
  <1>5. n \in 1..Len(list)
    BY <1>1
  <1>6. f \in [B -> A]
    <2> SUFFICES ASSUME NEW i \in B PROVE (IF i < n THEN i ELSE i + 1) \in A
      OBVIOUS
    <2>1. PICK k \in Int : k = IF i < n THEN i ELSE i + 1
      BY <1>4
    <2>2. k \in 1..Len(list) /\ k # n
      BY <1>1, <1>2, <1>4, <1>5, <2>1
    <2>3. shorter[i] = list[k] /\ Covers(shorter[i], time)
      BY <1>4, <2>1
    <2> QED
      BY <1>1, <2>1, <2>2, <2>3
  <1>7. \A i, j \in B : f[i] = f[j] => i = j
    BY <1>4, <1>5
  <1>8. \A k \in A : \E i \in B : f[i] = k
    <2> SUFFICES ASSUME NEW k \in A PROVE \E i \in B : f[i] = k
      OBVIOUS
    <2>1. k \in 1..Len(list) /\ k # n /\ Covers(list[k], time)
      BY <1>1
    <2>2. PICK i \in Int : i = IF k < n THEN k ELSE k - 1
      BY <1>5, <2>1
    <2>3. i \in 1..Len(shorter) /\ k = IF i < n THEN i ELSE i + 1
      <3>1. PICK M \in Nat : M = Len(shorter) /\ Len(list) = M + 1
        BY <1>1, <1>2
      <3>2. k \in Int /\ n \in Int /\ 1 <= k /\ k <= M + 1 /\ 1 <= n /\ n <= M + 1 /\ k # n
        BY <1>5, <2>1, <3>1
      <3>3. 1 <= i /\ i <= M /\ k = IF i < n THEN i ELSE i + 1
        BY <2>2, <3>1, <3>2
      <3> QED
        BY <3>1, <3>3
    <2>4. i \in B
      BY <1>2, <2>1, <2>3
    <2> QED
      BY <2>3, <2>4
  <1>9. f \in Bijection(B, A)
    <2> HIDE DEF f, A
    <2> QED
      BY <1>6, <1>7, <1>8 DEF Bijection, Injection, Surjection, IsInjective
  <1>10. Cardinality(A) = Cardinality(B)
    <2>1. ExistsBijection(B, A)
      BY <1>9 DEF ExistsBijection
    <2> HIDE DEF A
    <2> QED
      BY <1>2, <2>1, FS_Bijection
  <1>11. Cardinality(A) = IF n \in C THEN Cardinality(C) - 1 ELSE Cardinality(C)
    BY <1>1, FS_RemoveElement
  <1>12. n \in C <=> Covers(list[n], time)
    BY <1>1
  <1> HIDE DEF A
  <1> QED
    BY <1>1, <1>2, <1>3, <1>10, <1>11, <1>12

\* What the rule of a mutation considers is nowhere more than two deep once accepted.
LEMMA AcceptedIsShallow ==
    ASSUME NEW list \in Seq(Segment), NEW candidate, candidate.start \in Int, candidate.end \in Int,
           NEW ignored, NEW considered, considered = Considered(list, candidate, ignored),
           Accepted(list, candidate, ignored), NEW time \in Int
    PROVE  /\ IsFiniteSet(CoverAt(considered, time))
           /\ Cardinality(CoverAt(considered, time)) <= 2
  <1>1. /\ Len(list) \in Nat /\ DOMAIN list = 1..Len(list)
        /\ \A n \in DOMAIN list : list[n] \in Segment
    BY ListingSpans
  <1> DEFINE others == {n \in DOMAIN list : list[n].id # ignored}
  <1>2. /\ DOMAIN considered = others \cup {Len(list) + 1}
        /\ \A n \in others : considered[n] = list[n]
        /\ \A n \in others \cup {Len(list) + 1} : n \notin others => considered[n] = candidate
    BY DEF Considered
  <1>3. /\ candidate.start < candidate.end /\ ~ SweepFindsThree(considered)
    BY DEF Accepted
  <1>4. \A n \in others : n \in DOMAIN list /\ n \in Int
    BY <1>1
  <1>5. IsFiniteSet(DOMAIN considered) /\ DOMAIN considered \subseteq Int
    <2>1. IsFiniteSet(1..(Len(list) + 1))
      BY <1>1, FS_Interval
    <2>2. DOMAIN considered \in SUBSET (1..(Len(list) + 1))
      BY <1>1, <1>2, <1>4
    <2> QED
      BY <2>1, <2>2, FS_Subset
  <1>6. \A n \in DOMAIN considered : /\ considered[n].start \in Int /\ considered[n].end \in Int
                                     /\ considered[n].start < considered[n].end
    <2> SUFFICES ASSUME NEW n \in DOMAIN considered
                 PROVE  /\ considered[n].start \in Int /\ considered[n].end \in Int
                        /\ considered[n].start < considered[n].end
      OBVIOUS
    <2>1. CASE n \in others
      BY <1>1, <1>2, <1>4, <2>1, SegmentFields
    <2>2. CASE n \notin others
      BY <1>2, <1>3, <2>2
    <2> QED
      BY <2>1, <2>2
  <1>7. SpansHold(considered)
    BY <1>5, <1>6 DEF SpansHold
  <1>8. ~ (Cardinality(CoverAt(considered, time)) > 2)
    BY <1>3, <1>6, <1>7, CoveredIsFound
  <1>9. CoverAt(considered, time) \in SUBSET DOMAIN considered
    BY DEF CoverAt
  <1>10. IsFiniteSet(CoverAt(considered, time)) /\ Cardinality(CoverAt(considered, time)) \in Nat
    BY <1>5, <1>9, FS_Subset, FS_CardinalityType
  <1> QED
    BY <1>8, <1>10

\* A part of a sequence.
LEMMA PartFacts ==
    ASSUME NEW seq \in Seq(Segment), NEW m \in Nat, NEW k \in Nat, 1 <= m, m <= k + 1, k <= Len(seq),
           NEW part, part = SubSeq(seq, m, k)
    PROVE  /\ part \in Seq(Segment) /\ Len(part) = k - m + 1 /\ Len(part) \in Nat
           /\ \A i \in Int : 1 <= i /\ i <= k - m + 1 => part[i] = seq[m + i - 1]
  <1>1. Len(seq) \in Nat /\ \A i \in 1..Len(seq) : seq[i] \in Segment
    BY ListingSpans
  <1>2. \A i \in m..k : seq[i] \in Segment
    BY <1>1
  <1>3. m \in Int /\ k \in Int
    OBVIOUS
  <1>4. /\ part \in Seq(Segment)
        /\ Len(part) = IF m <= k THEN k - m + 1 ELSE 0
        /\ \A i \in 1..(k - m + 1) : part[i] = seq[m + i - 1]
    BY <1>2, <1>3, SubSeqProperties
  <1>5. Len(part) = k - m + 1
    BY <1>3, <1>4
  <1>6. \A i \in Int : 1 <= i /\ i <= k - m + 1 => i \in 1..(k - m + 1)
    BY <1>3
  <1> QED
    BY <1>4, <1>5, <1>6

Joins(before, after, joined) ==
    /\ joined \in Seq(Segment) /\ Len(joined) = Len(before) + Len(after)
    /\ \A i \in Int : 1 <= i /\ i <= Len(before) => joined[i] = before[i]
    /\ \A i \in Int : Len(before) < i /\ i <= Len(before) + Len(after) => joined[i] = after[i - Len(before)]

LEMMA JoinFacts ==
    ASSUME NEW before \in Seq(Segment), NEW after \in Seq(Segment)
    PROVE  Joins(before, after, before \o after)
  <1>1. PICK a \in Nat, b \in Nat : a = Len(before) /\ b = Len(after)
    OBVIOUS
  <1>2. PICK joined : joined = before \o after
    OBVIOUS
  <1>3. /\ joined \in Seq(Segment) /\ Len(joined) = a + b
        /\ \A i \in 1..(a + b) : joined[i] = IF i <= a THEN before[i] ELSE after[i - a]
    BY <1>1, <1>2, ConcatProperties
  <1>4. \A i \in Int : 1 <= i /\ i <= a + b => i \in 1..(a + b)
    OBVIOUS
  <1> QED
    BY <1>1, <1>2, <1>3, <1>4 DEF Joins

\* A sequence without its n-th member; below, one with another member at n.
Without(seq, n, shorter) ==
    /\ shorter \in Seq(Segment) /\ Len(shorter) = Len(seq) - 1 /\ DOMAIN shorter = 1..Len(shorter)
    /\ \A i \in 1..Len(shorter) : shorter[i] = seq[IF i < n THEN i ELSE i + 1]

LEMMA RemoveFacts ==
    ASSUME NEW seq \in Seq(Segment), NEW n \in 1..Len(seq)
    PROVE  Without(seq, n, RemoveAt(seq, n))
  <1>0. PICK shorter : shorter = RemoveAt(seq, n)
    OBVIOUS
  <1>1. PICK L \in Nat : L = Len(seq)
    OBVIOUS
  <1>2. n \in Nat /\ 1 <= n /\ n <= L
    BY <1>1
  <1>3. PICK a \in Nat, b \in Nat : a = n - 1 /\ b = L - n
    BY <1>2
  <1>4. PICK before \in Seq(Segment) : /\ before = SubSeq(seq, 1, n - 1) /\ Len(before) = a
                                     /\ \A i \in Int : 1 <= i /\ i <= a => before[i] = seq[i]
    <2>1. PICK part : part = SubSeq(seq, 1, a)
      OBVIOUS
    <2>2. /\ part \in Seq(Segment) /\ Len(part) = a - 1 + 1
          /\ \A i \in Int : 1 <= i /\ i <= a - 1 + 1 => part[i] = seq[1 + i - 1]
      BY <1>1, <1>2, <1>3, <2>1, PartFacts
    <2>3. Len(part) = a
      BY <2>2
    <2>4. ASSUME NEW i \in Int, 1 <= i, i <= a PROVE part[i] = seq[i]
      <3>1. 1 + i - 1 = i /\ i <= a - 1 + 1
        BY <2>4
      <3> QED
        BY <2>2, <2>4, <3>1
    <2> QED
      BY <1>3, <2>1, <2>2, <2>3, <2>4
  <1>5. PICK after \in Seq(Segment) : /\ after = SubSeq(seq, n + 1, Len(seq)) /\ Len(after) = b
                                      /\ \A i \in Int : 1 <= i /\ i <= b => after[i] = seq[n + i]
    <2>1. PICK m \in Nat : m = n + 1
      BY <1>2
    <2>2. PICK part : part = SubSeq(seq, m, L)
      OBVIOUS
    <2>3. /\ part \in Seq(Segment) /\ Len(part) = L - m + 1
          /\ \A i \in Int : 1 <= i /\ i <= L - m + 1 => part[i] = seq[m + i - 1]
      BY <1>1, <1>2, <2>1, <2>2, PartFacts
    <2>4. L - m + 1 = b /\ \A i \in Int : m + i - 1 = n + i
      BY <1>2, <1>3, <2>1
    <2> QED
      BY <1>1, <2>1, <2>2, <2>3, <2>4
  <1>6. shorter = before \o after
    BY <1>0, <1>4, <1>5 DEF RemoveAt
  <1>7. /\ shorter \in Seq(Segment) /\ Len(shorter) = a + b
        /\ \A i \in Int : 1 <= i /\ i <= a => shorter[i] = before[i]
        /\ \A i \in Int : a < i /\ i <= a + b => shorter[i] = after[i - a]
    <2>1. Joins(before, after, shorter)
      BY <1>6, JoinFacts
    <2> QED
      BY <1>4, <1>5, <2>1 DEF Joins
  <1>8. Len(shorter) = Len(seq) - 1 /\ a + b = Len(shorter) /\ DOMAIN shorter = 1..Len(shorter)
    BY <1>1, <1>2, <1>3, <1>7
  <1>9. ASSUME NEW i \in 1..Len(shorter) PROVE shorter[i] = seq[IF i < n THEN i ELSE i + 1]
    <2>1. i \in Int /\ 1 <= i /\ i <= a + b
      BY <1>3, <1>7
    <2>2. CASE i < n
      <3>1. i <= a
        BY <1>2, <1>3, <2>1, <2>2
      <3> QED
        BY <1>4, <1>7, <2>1, <2>2, <3>1
    <2>3. CASE ~(i < n)
      <3>1. a < i /\ i - a \in Int /\ 1 <= i - a /\ i - a <= b /\ n + (i - a) = i + 1
        BY <1>2, <1>3, <2>1, <2>3
      <3>2. shorter[i] = after[i - a] /\ after[i - a] = seq[n + (i - a)]
        BY <1>5, <1>7, <2>1, <3>1
      <3> QED
        BY <2>3, <3>1, <3>2
    <2> QED
      BY <2>2, <2>3
  <1> QED
    BY <1>0, <1>7, <1>8, <1>9 DEF Without

With(seq, n, s, longer) ==
    /\ longer \in Seq(Segment) /\ Len(longer) = Len(seq) + 1 /\ DOMAIN longer = 1..Len(longer)
    /\ longer[n] = s
    /\ \A i \in 1..Len(seq) : seq[i] = longer[IF i < n THEN i ELSE i + 1]

LEMMA InsertFacts ==
    ASSUME NEW seq \in Seq(Segment), NEW s \in Segment, NEW n \in 1..(Len(seq) + 1)
    PROVE  With(seq, n, s, InsertAt(seq, n, s))
  <1>0. PICK longer : longer = InsertAt(seq, n, s)
    OBVIOUS
  <1>1. PICK L \in Nat : L = Len(seq)
    OBVIOUS
  <1>2. PICK a \in Nat, b \in Nat : n \in Nat /\ 1 <= n /\ a = n - 1 /\ b = L - n + 1
    <2>1. n \in Nat /\ 1 <= n /\ n <= L + 1
      BY <1>1
    <2>2. n - 1 \in Nat /\ L - n + 1 \in Nat
      BY <2>1
    <2> QED
      BY <2>1, <2>2
  <1>3. PICK before \in Seq(Segment) : /\ before = SubSeq(seq, 1, n - 1) /\ Len(before) = a
                                     /\ \A i \in Int : 1 <= i /\ i <= a => before[i] = seq[i]
    <2>1. PICK part : part = SubSeq(seq, 1, a)
      OBVIOUS
    <2>2. /\ part \in Seq(Segment) /\ Len(part) = a - 1 + 1
          /\ \A i \in Int : 1 <= i /\ i <= a - 1 + 1 => part[i] = seq[1 + i - 1]
      BY <1>1, <1>2, <2>1, PartFacts
    <2>3. Len(part) = a
      BY <2>2
    <2>4. ASSUME NEW i \in Int, 1 <= i, i <= a PROVE part[i] = seq[i]
      <3>1. 1 + i - 1 = i /\ i <= a - 1 + 1
        BY <2>4
      <3> QED
        BY <2>2, <2>4, <3>1
    <2> QED
      BY <1>2, <2>1, <2>2, <2>3, <2>4
  <1>4. PICK after \in Seq(Segment) : /\ after = SubSeq(seq, n, Len(seq)) /\ Len(after) = b
                                      /\ \A i \in Int : 1 <= i /\ i <= b => after[i] = seq[n + i - 1]
    <2>1. PICK part : part = SubSeq(seq, n, L)
      OBVIOUS
    <2>2. /\ part \in Seq(Segment) /\ Len(part) = L - n + 1
          /\ \A i \in Int : 1 <= i /\ i <= L - n + 1 => part[i] = seq[n + i - 1]
      BY <1>1, <2>1, PartFacts
    <2> QED
      BY <1>1, <1>2, <2>1, <2>2
  <1>5. PICK middle \in Seq(Segment) : middle = <<s>> /\ Len(middle) = 1 /\ middle[1] = s
    <2>1. <<s>> \in Seq(Segment) /\ Len(<<s>>) = 1 /\ <<s>>[1] = s
      OBVIOUS
    <2> QED
      BY <2>1
  <1>6. PICK front : front = before \o middle
    OBVIOUS
  <1>7. /\ front \in Seq(Segment) /\ Len(front) = n
        /\ \A i \in Int : 1 <= i /\ i <= a => front[i] = before[i]
        /\ front[n] = s
    <2>1. PICK c \in Nat : c = 1
      OBVIOUS
    <2>2. Joins(before, middle, front)
      BY <1>6, JoinFacts
    <2>3. /\ front \in Seq(Segment) /\ Len(front) = a + c
          /\ \A i \in Int : 1 <= i /\ i <= a => front[i] = before[i]
          /\ \A i \in Int : a < i /\ i <= a + c => front[i] = middle[i - a]
      BY <1>2, <1>3, <1>5, <2>1, <2>2 DEF Joins
    <2>4. n \in Int /\ a < n /\ n <= a + c /\ n - a = 1 /\ a + c = n
      BY <1>2, <2>1
    <2>5. front[n] = middle[n - a]
      BY <2>3, <2>4
    <2> QED
      BY <1>5, <2>3, <2>4, <2>5
  <1>8. longer = front \o after
    BY <1>0, <1>3, <1>4, <1>5, <1>6 DEF InsertAt
  <1>9. /\ longer \in Seq(Segment) /\ Len(longer) = n + b
        /\ \A i \in Int : 1 <= i /\ i <= n => longer[i] = front[i]
        /\ \A i \in Int : n < i /\ i <= n + b => longer[i] = after[i - n]
    <2>1. Joins(front, after, longer)
      BY <1>7, <1>8, JoinFacts
    <2> QED
      BY <1>4, <1>7, <2>1 DEF Joins
  <1>10. Len(longer) = Len(seq) + 1 /\ DOMAIN longer = 1..Len(longer) /\ longer[n] = s
    <2>1. n + b = L + 1 /\ n \in Int /\ n <= n
      BY <1>2
    <2> QED
      BY <1>1, <1>7, <1>9, <2>1
  <1>11. ASSUME NEW i \in 1..Len(seq) PROVE seq[i] = longer[IF i < n THEN i ELSE i + 1]
    <2>1. i \in Int /\ 1 <= i /\ i <= L
      BY <1>1
    <2>2. CASE i < n
      <3>1. i <= a /\ i <= n
        BY <1>2, <2>1, <2>2
      <3> QED
        BY <1>3, <1>7, <1>9, <2>1, <2>2, <3>1
    <2>3. CASE ~(i < n)
      <3>1. PICK j \in Int : j = i + 1 - n
        BY <2>1
      <3>2. /\ i + 1 \in Int /\ n < i + 1 /\ i + 1 <= n + b /\ 1 <= j /\ j <= b
            /\ n + j - 1 = i
        BY <1>2, <2>1, <2>3, <3>1
      <3>3. longer[i + 1] = after[j] /\ after[j] = seq[n + j - 1]
        BY <1>4, <1>9, <3>1, <3>2
      <3> QED
        BY <2>3, <3>2, <3>3
    <2> QED
      BY <2>2, <2>3
  <1> QED
    BY <1>0, <1>9, <1>10, <1>11 DEF With

\* The parts of the invariant as facts about the two lists.
LEMMA EditsParts ==
    ASSUME TimelineInv
    PROVE  /\ Listing(timeline) /\ timeline \in Seq(Segment)
           /\ Len(timeline) \in Nat /\ DOMAIN timeline = 1..Len(timeline)
           /\ \A n \in DOMAIN timeline : timeline[n] \in Segment
           /\ restoredOver \in BOOLEAN
           /\ ~ restoredOver => \A time \in Instants : Depth(timeline, time) <= 2
           /\ \A time : Depth(timeline, time) = Cardinality(CoverAt(timeline, time))
           /\ \A time \in Instants : time \in Int
           /\ removed # Nothing =>
                /\ removed \in [segment : Segment, index : 1..(Len(timeline) + 1), edited : BOOLEAN]
                /\ \A n \in DOMAIN timeline : timeline[n].id # removed.segment.id
                /\ ~ restoredOver /\ ~ removed.edited =>
                     \A time \in Instants :
                        Depth(timeline, time) + (IF Covers(removed.segment, time) THEN 1 ELSE 0) <= 2
  <1>1. EditsHold(timeline, removed, restoredOver)
    BY DEF TimelineInv
  <1>2. Listing(timeline) /\ timeline \in Seq(Segment)
    BY <1>1 DEF EditsHold, Listing
  <1>3. \A time : Depth(timeline, time) = Cardinality(CoverAt(timeline, time))
    BY <1>2, ListingSpans DEF Depth
  <1>4. \A time \in Instants : time \in Int
    BY EditsAssumption DEF Instants
  <1>5. ~ restoredOver => \A time \in Instants : Depth(timeline, time) <= 2
    BY <1>1 DEF EditsHold, AtMostTwoDeep
  <1> QED
    BY <1>1, <1>2, <1>3, <1>4, <1>5, ListingSpans DEF EditsHold

\* An edit: the undo survives it, marked as coming after an edit.
LEMMA EditedHolds ==
    ASSUME TimelineInv, Edited, restoredOver' = restoredOver, NEW list, timeline' = list,
           Listing(list), Len(list) >= Len(timeline), AtMostTwoDeep(list),
           removed # Nothing => \A n \in DOMAIN list : list[n].id # removed.segment.id
    PROVE  TimelineInv'
  <1>1. list \in Seq(Segment) /\ Len(list) \in Nat /\ Len(timeline) \in Nat
    BY EditsParts DEF Listing
  <1>2. CASE removed = Nothing
    <2>1. removed' = Nothing
      BY <1>2 DEF Edited
    <2> QED
      BY <2>1, EditsParts DEF TimelineInv, EditsHold
  <1>3. CASE removed # Nothing
    <2>1. PICK gone : gone = removed
      OBVIOUS
    <2>2. gone \in [segment : Segment, index : 1..(Len(timeline) + 1), edited : BOOLEAN]
      BY <1>3, <2>1, EditsParts
    <2>3. removed' = [gone EXCEPT !.edited = TRUE]
      BY <1>3, <2>1 DEF Edited
    <2>4. gone = [segment |-> gone.segment, index |-> gone.index, edited |-> gone.edited]
          /\ gone.segment \in Segment /\ gone.index \in 1..(Len(timeline) + 1)
      BY <2>2
    <2>5. removed' = [segment |-> gone.segment, index |-> gone.index, edited |-> TRUE]
      BY <2>3, <2>4
    <2>6. PICK next : next = removed'
      OBVIOUS
    <2>7. next.segment = gone.segment /\ next.edited = TRUE
      BY <2>5, <2>6
    <2>8. gone.index \in 1..(Len(list) + 1)
      BY <1>1, <2>4
    <2>9. next \in [segment : Segment, index : 1..(Len(list) + 1), edited : BOOLEAN]
      BY <2>4, <2>5, <2>6, <2>8
    <2>10. \A n \in DOMAIN list : list[n].id # next.segment.id
      BY <1>3, <2>1, <2>7
    <2>11. EditsHold(list, next, restoredOver)
      BY <2>7, <2>9, <2>10, EditsParts DEF EditsHold
    <2> QED
      BY <2>6, <2>11 DEF TimelineInv
  <1> QED
    BY <1>2, <1>3

LEMMA CreateHolds ==
    ASSUME TimelineInv, NEW id \in SegmentIds, NEW start \in Int, NEW end \in Int,
           CreateSegment(id, start, end)
    PROVE  TimelineInv'
  <1>1. PICK segment : segment = [id |-> id, start |-> start, end |-> end]
    OBVIOUS
  <1>2. /\ id \notin Used /\ Accepted(timeline, segment, Nothing)
        /\ timeline' = Append(timeline, segment) /\ Edited /\ restoredOver' = restoredOver
    BY <1>1 DEF CreateSegment
  <1>3. segment.id = id /\ segment.start = start /\ segment.end = end
    BY <1>1
  <1>4. segment \in Segment
    BY <1>1, <1>2, <1>3, EditsAssumption DEF Accepted, Segment
  <1>5. PICK list : list = Append(timeline, segment)
    OBVIOUS
  <1>6. /\ timeline \in Seq(Segment) /\ Len(timeline) \in Nat /\ DOMAIN timeline = 1..Len(timeline)
        /\ \A n \in DOMAIN timeline : timeline[n] \in Segment
    BY EditsParts
  <1>7. /\ list \in Seq(Segment) /\ Len(list) = Len(timeline) + 1 /\ DOMAIN list = 1..(Len(timeline) + 1)
        /\ \A n \in DOMAIN timeline : list[n] = timeline[n]
        /\ list[Len(timeline) + 1] = segment
    BY <1>4, <1>5, <1>6, AppendProperties
  <1>8. \A n \in DOMAIN timeline : timeline[n].id # id /\ timeline[n].id # Nothing
    <2>1. \A n \in DOMAIN timeline : timeline[n].id # id
      BY <1>2 DEF Used
    <2>2. \A n \in DOMAIN timeline : timeline[n].id \in SegmentIds
      BY <1>6, SegmentFields
    <2> QED
      BY <2>1, <2>2, EditsAssumption
  <1>9. \A n \in DOMAIN list : n \in DOMAIN timeline \/ n = Len(timeline) + 1
    BY <1>6, <1>7
  <1>10. Listing(list)
    <2> SUFFICES ASSUME NEW m \in DOMAIN list, NEW n \in DOMAIN list, list[m].id = list[n].id
                 PROVE  m = n
      BY <1>7 DEF Listing
    <2>1. \A i, j \in DOMAIN timeline : timeline[i].id = timeline[j].id => i = j
      BY EditsParts DEF Listing
    <2>2. CASE m \in DOMAIN timeline /\ n \in DOMAIN timeline
      BY <1>7, <2>1, <2>2
    <2>3. CASE ~(m \in DOMAIN timeline /\ n \in DOMAIN timeline)
      BY <1>3, <1>7, <1>8, <1>9, <2>3
    <2> QED
      BY <2>2, <2>3
  <1>11. PICK considered : considered = Considered(timeline, segment, Nothing)
    OBVIOUS
  <1>12. considered = list
    <2>1. {n \in DOMAIN timeline : timeline[n].id # Nothing} = DOMAIN timeline
      BY <1>8
    <2>2. DOMAIN list = DOMAIN timeline \cup {Len(timeline) + 1}
      BY <1>6, <1>7
    <2>3. considered = [n \in DOMAIN list |-> IF n \in DOMAIN timeline THEN timeline[n] ELSE segment]
      BY <1>11, <2>1, <2>2 DEF Considered
    <2>4. \A n \in DOMAIN list : list[n] = IF n \in DOMAIN timeline THEN timeline[n] ELSE segment
      BY <1>7, <1>9
    <2>5. list = [n \in DOMAIN list |-> list[n]]
      BY <1>7
    <2> QED
      BY <2>3, <2>4, <2>5
  <1>13. AtMostTwoDeep(list)
    <2> SUFFICES ASSUME NEW time \in Instants PROVE Depth(list, time) <= 2
      BY DEF AtMostTwoDeep
    <2>1. time \in Int
      BY EditsParts
    <2>2. Cardinality(CoverAt(considered, time)) <= 2
      BY <1>2, <1>3, <1>6, <1>11, <2>1, AcceptedIsShallow
    <2>3. CoverAt(list, time) = {n \in DOMAIN list : Covers(list[n], time)}
      BY <1>7, ListingSpans
    <2> QED
      BY <1>12, <2>2, <2>3 DEF Depth
  <1>14. ASSUME removed # Nothing, NEW n \in DOMAIN list PROVE list[n].id # removed.segment.id
    <2>1. id # removed.segment.id
      BY <1>2, <1>14 DEF Used
    <2>2. \A k \in DOMAIN timeline : timeline[k].id # removed.segment.id
      BY <1>14, EditsParts
    <2> QED
      BY <1>3, <1>7, <1>9, <1>14, <2>1, <2>2
  <1>15. timeline' = list /\ Len(list) >= Len(timeline)
    BY <1>2, <1>5, <1>6, <1>7
  <1> QED
    BY <1>2, <1>10, <1>13, <1>14, <1>15, EditedHolds

\* A moved boundary leaves a segment of the same id and whole ticks.
LEMMA NudgedFields ==
    ASSUME NEW s \in Segment, NEW edge, NEW delta \in Int, NEW moved, moved = Nudged(s, edge, delta)
    PROVE  /\ moved = [id |-> s.id, start |-> moved.start, end |-> moved.end]
           /\ moved.id = s.id /\ moved.start \in Int /\ moved.end \in Int
  <1>1. s = [id |-> s.id, start |-> s.start, end |-> s.end]
    BY DEF Segment
  <1>2. s.start \in Int /\ s.end \in Int /\ TimelineLength \in Int
    BY SegmentFields, EditsAssumption
  <1>3. PICK a, b \in Int : /\ a = IF s.start + delta < 0 THEN 0 ELSE s.start + delta
                            /\ b = IF s.end + delta > TimelineLength THEN TimelineLength ELSE s.end + delta
    BY <1>2
  <1>4. moved = IF edge = "start" THEN [s EXCEPT !.start = a] ELSE [s EXCEPT !.end = b]
    BY <1>3 DEF Nudged
  <1>5. /\ [s EXCEPT !.start = a] = [id |-> s.id, start |-> a, end |-> s.end]
        /\ [s EXCEPT !.end = b] = [id |-> s.id, start |-> s.start, end |-> b]
    BY <1>1
  <1>6. \/ moved = [id |-> s.id, start |-> a, end |-> s.end]
        \/ moved = [id |-> s.id, start |-> s.start, end |-> b]
    BY <1>4, <1>5
  <1> QED
    BY <1>2, <1>6

LEMMA MoveHolds ==
    ASSUME TimelineInv, NEW n \in DOMAIN timeline, NEW edge, NEW delta \in Int,
           MoveBoundary(n, edge, delta)
    PROVE  TimelineInv'
  <1>1. PICK segment : segment = Nudged(timeline[n], edge, delta)
    OBVIOUS
  <1>2. /\ Accepted(timeline, segment, segment.id)
        /\ timeline' = [timeline EXCEPT ![n] = segment] /\ Edited /\ restoredOver' = restoredOver
    BY <1>1 DEF MoveBoundary
  <1>3. /\ timeline \in Seq(Segment) /\ Len(timeline) \in Nat /\ DOMAIN timeline = 1..Len(timeline)
        /\ \A k \in DOMAIN timeline : timeline[k] \in Segment
    BY EditsParts
  <1>4. /\ segment = [id |-> timeline[n].id, start |-> segment.start, end |-> segment.end]
        /\ segment.id = timeline[n].id /\ segment.start \in Int /\ segment.end \in Int
    BY <1>1, <1>3, NudgedFields
  <1>5. segment \in Segment
    <2>1. /\ segment.start < segment.end /\ 0 <= segment.start /\ segment.end <= TimelineLength
      BY <1>2 DEF Accepted
    <2>2. segment.start \in 0..TimelineLength /\ segment.end \in 0..TimelineLength
      BY <1>4, <2>1, EditsAssumption
    <2>3. timeline[n].id \in SegmentIds
      BY <1>3, SegmentFields
    <2>4. PICK a, b \in 0..TimelineLength : a = segment.start /\ b = segment.end
      BY <2>2
    <2>5. segment = [id |-> timeline[n].id, start |-> a, end |-> b]
      BY <1>4, <2>4
    <2>6. segment \in [id : SegmentIds, start : 0..TimelineLength, end : 0..TimelineLength]
      BY <2>3, <2>4, <2>5
    <2> QED
      BY <2>1, <2>6 DEF Segment
  <1>6. PICK list : list = [timeline EXCEPT ![n] = segment]
    OBVIOUS
  <1>7. /\ list \in Seq(Segment) /\ Len(list) = Len(timeline) /\ DOMAIN list = DOMAIN timeline
        /\ \A k \in DOMAIN timeline : list[k] = IF k = n THEN segment ELSE timeline[k]
    BY <1>3, <1>5, <1>6
  <1>8. \A k \in DOMAIN timeline : list[k].id = timeline[k].id
    BY <1>4, <1>7
  <1>9. Listing(list)
    BY <1>7, <1>8, EditsParts DEF Listing
  <1>10. \A k \in DOMAIN timeline : k # n <=> timeline[k].id # segment.id
    BY <1>4, EditsParts DEF Listing
  <1>11. PICK considered : considered = Considered(timeline, segment, segment.id)
    OBVIOUS
  <1>12. /\ DOMAIN considered = (DOMAIN timeline \ {n}) \cup {Len(timeline) + 1}
         /\ \A k \in DOMAIN timeline \ {n} : considered[k] = timeline[k]
         /\ considered[Len(timeline) + 1] = segment
    <2>1. {k \in DOMAIN timeline : timeline[k].id # segment.id} = DOMAIN timeline \ {n}
      BY <1>10
    <2>2. considered = [k \in (DOMAIN timeline \ {n}) \cup {Len(timeline) + 1} |->
                          IF k \in DOMAIN timeline \ {n} THEN timeline[k] ELSE segment]
      BY <1>11, <2>1 DEF Considered
    <2>3. Len(timeline) + 1 \notin DOMAIN timeline
      BY <1>3
    <2> QED
      BY <2>2, <2>3
  <1>13. AtMostTwoDeep(list)
    <2> SUFFICES ASSUME NEW time \in Instants PROVE Depth(list, time) <= 2
      BY DEF AtMostTwoDeep
    <2>1. time \in Int
      BY EditsParts
    <2> DEFINE B == CoverAt(list, time)
               A == CoverAt(considered, time)
               f == [k \in B |-> IF k = n THEN Len(timeline) + 1 ELSE k]
    <2>2. IsFiniteSet(A) /\ Cardinality(A) <= 2
      BY <1>2, <1>3, <1>4, <1>11, <2>1, AcceptedIsShallow
    <2>3. Depth(list, time) = Cardinality(B) /\ Cardinality(B) \in Nat /\ B \subseteq DOMAIN list
      BY <1>7, ListingSpans DEF Depth
    <2>4. A = {k \in DOMAIN considered : considered[k].start <= time /\ time < considered[k].end}
      BY DEF CoverAt
    <2>5. B = {k \in DOMAIN list : list[k].start <= time /\ time < list[k].end}
      BY DEF CoverAt
    <2> HIDE DEF A, B
    <2>6. f \in [B -> A]
      <3> SUFFICES ASSUME NEW k \in B PROVE (IF k = n THEN Len(timeline) + 1 ELSE k) \in A
        OBVIOUS
      <3>1. k \in DOMAIN timeline /\ list[k].start <= time /\ time < list[k].end
        BY <1>7, <2>5
      <3>2. CASE k = n
        BY <1>7, <1>12, <2>4, <3>1, <3>2
      <3>3. CASE k # n
        BY <1>7, <1>12, <2>4, <3>1, <3>3
      <3> QED
        BY <3>2, <3>3
    <2>7. \A j, k \in B : f[j] = f[k] => j = k
      <3>1. \A k \in B : k \in 1..Len(timeline)
        BY <1>3, <1>7, <2>5
      <3> QED
        BY <1>3, <3>1
    <2> HIDE DEF f
    <2>8. f \in Injection(B, A)
      BY <2>6, <2>7 DEF Injection, IsInjective
    <2>9. Cardinality(B) <= Cardinality(A) /\ Cardinality(A) \in Nat
      BY <2>2, <2>8, FS_Injection, FS_CardinalityType
    <2> QED
      BY <2>2, <2>3, <2>9
  <1>14. ASSUME removed # Nothing, NEW k \in DOMAIN list PROVE list[k].id # removed.segment.id
    BY <1>7, <1>8, <1>14, EditsParts
  <1>15. timeline' = list /\ Len(list) >= Len(timeline)
    BY <1>2, <1>3, <1>6, <1>7
  <1> QED
    BY <1>2, <1>9, <1>13, <1>14, <1>15, EditedHolds

LEMMA RemoveHolds ==
    ASSUME TimelineInv, NEW n \in DOMAIN timeline, RemoveSegment(n)
    PROVE  TimelineInv'
  <1>1. /\ timeline \in Seq(Segment) /\ Len(timeline) \in Nat /\ DOMAIN timeline = 1..Len(timeline)
        /\ \A k \in DOMAIN timeline : timeline[k] \in Segment
        /\ \A j, k \in DOMAIN timeline : timeline[j].id = timeline[k].id => j = k
    BY EditsParts DEF Listing
  <1>2. PICK shorter : shorter = RemoveAt(timeline, n)
    OBVIOUS
  <1>3. n \in Nat /\ 1 <= n /\ n <= Len(timeline)
    BY <1>1
  <1>4. /\ shorter \in Seq(Segment) /\ Len(shorter) = Len(timeline) - 1 /\ DOMAIN shorter = 1..Len(shorter)
        /\ \A i \in 1..Len(shorter) : shorter[i] = timeline[IF i < n THEN i ELSE i + 1]
    <2>1. Without(timeline, n, shorter)
      BY <1>1, <1>2, RemoveFacts
    <2> QED
      BY <2>1 DEF Without
  <1>5. \A i \in 1..Len(shorter) : /\ (IF i < n THEN i ELSE i + 1) \in DOMAIN timeline
                                   /\ (IF i < n THEN i ELSE i + 1) # n
    BY <1>1, <1>3, <1>4
  <1>6. Listing(shorter)
    <2> SUFFICES ASSUME NEW i \in DOMAIN shorter, NEW j \in DOMAIN shorter, shorter[i].id = shorter[j].id
                 PROVE  i = j
      BY <1>4 DEF Listing
    <2>1. PICK a, b \in DOMAIN timeline : /\ a = IF i < n THEN i ELSE i + 1
                                          /\ b = IF j < n THEN j ELSE j + 1
      BY <1>4, <1>5
    <2>2. a = b
      BY <1>1, <1>4, <2>1
    <2>3. i \in Nat /\ j \in Nat
      BY <1>1, <1>4
    <2> QED
      BY <1>3, <2>1, <2>2, <2>3
  <1>7. /\ timeline' = shorter /\ restoredOver' = restoredOver
        /\ removed' = [segment |-> timeline[n], index |-> n, edited |-> FALSE]
    BY <1>2 DEF RemoveSegment
  <1>8. \A time : Depth(timeline, time) = Depth(shorter, time) + IF Covers(timeline[n], time) THEN 1 ELSE 0
    BY <1>1, <1>4, OneLess
  <1>9. \A time : Depth(shorter, time) \in Nat
    BY <1>4, ListingSpans DEF Depth
  <1>10. PICK s : s = timeline[n] /\ s \in Segment
    BY <1>1
  <1>11. PICK gone : gone = [segment |-> s, index |-> n, edited |-> FALSE]
    OBVIOUS
  <1>12. /\ gone \in [segment : Segment, index : 1..(Len(shorter) + 1), edited : BOOLEAN]
         /\ gone.segment = s /\ gone.edited = FALSE
    <2>1. n \in 1..(Len(shorter) + 1)
      BY <1>1, <1>3, <1>4
    <2> QED
      BY <1>10, <1>11, <2>1
  <1>13. \A i \in DOMAIN shorter : shorter[i].id # s.id
    BY <1>1, <1>4, <1>5, <1>10
  <1>14. ASSUME ~ restoredOver, NEW time \in Instants
         PROVE  /\ Depth(shorter, time) + (IF Covers(s, time) THEN 1 ELSE 0) <= 2
                /\ Depth(shorter, time) <= 2
    <2>1. Depth(timeline, time) <= 2
      BY <1>14, EditsParts
    <2>2. Depth(timeline, time) = Depth(shorter, time) + IF Covers(s, time) THEN 1 ELSE 0
      BY <1>8, <1>10
    <2> QED
      BY <1>9, <2>1, <2>2
  <1>15. EditsHold(shorter, gone, restoredOver)
    <2>1. restoredOver \in BOOLEAN
      BY EditsParts
    <2> QED
      BY <1>6, <1>12, <1>13, <1>14, <2>1 DEF EditsHold, AtMostTwoDeep
  <1> QED
    BY <1>7, <1>10, <1>11, <1>15 DEF TimelineInv

LEMMA RestoreHolds ==
    ASSUME TimelineInv, RestoreSegment
    PROVE  TimelineInv'
  <1>1. /\ timeline \in Seq(Segment) /\ Len(timeline) \in Nat /\ DOMAIN timeline = 1..Len(timeline)
        /\ \A k \in DOMAIN timeline : timeline[k] \in Segment
        /\ \A j, k \in DOMAIN timeline : timeline[j].id = timeline[k].id => j = k
    BY EditsParts DEF Listing
  <1>2. PICK gone : gone = removed
    OBVIOUS
  <1>3. /\ removed # Nothing
        /\ gone \in [segment : Segment, index : 1..(Len(timeline) + 1), edited : BOOLEAN]
        /\ \A k \in DOMAIN timeline : timeline[k].id # gone.segment.id
        /\ ~ restoredOver /\ ~ gone.edited =>
             \A time \in Instants :
                Depth(timeline, time) + (IF Covers(gone.segment, time) THEN 1 ELSE 0) <= 2
    BY <1>2, EditsParts DEF RestoreSegment
  <1>4. PICK s \in Segment : s = gone.segment
    BY <1>3
  <1>5. gone.index \in 1..(Len(timeline) + 1) /\ gone.edited \in BOOLEAN
    BY <1>3
  <1>6. PICK n : n = IF gone.index > Len(timeline) THEN Len(timeline) + 1 ELSE gone.index
    OBVIOUS
  <1>7. n \in Nat /\ 1 <= n /\ n <= Len(timeline) + 1
    BY <1>1, <1>5, <1>6
  <1>8. PICK list : list = InsertAt(timeline, n, s)
    OBVIOUS
  <1>9. /\ timeline' = list /\ removed' = Nothing /\ restoredOver' = (restoredOver \/ gone.edited)
    BY <1>2, <1>4, <1>6, <1>8 DEF RestoreSegment
  <1>10. /\ list \in Seq(Segment) /\ Len(list) = Len(timeline) + 1 /\ DOMAIN list = 1..Len(list)
         /\ list[n] = s
         /\ \A i \in 1..Len(timeline) : timeline[i] = list[IF i < n THEN i ELSE i + 1]
    <2>1. n \in 1..(Len(timeline) + 1)
      BY <1>1, <1>7
    <2>2. With(timeline, n, s, list)
      BY <1>1, <1>8, <2>1, InsertFacts
    <2> QED
      BY <2>2 DEF With
  <1>11. n \in DOMAIN list /\ Len(timeline) = Len(list) - 1
    BY <1>1, <1>7, <1>10
  <1>12. ASSUME NEW k \in DOMAIN list, k # n
         PROVE  \E i \in DOMAIN timeline : k = (IF i < n THEN i ELSE i + 1) /\ list[k] = timeline[i]
    <2>1. PICK i \in Int : i = IF k < n THEN k ELSE k - 1
      BY <1>1, <1>10
    <2>2. i \in 1..Len(timeline) /\ k = IF i < n THEN i ELSE i + 1
      BY <1>1, <1>7, <1>10, <1>12, <2>1
    <2> QED
      BY <1>1, <1>10, <2>2
  <1>13. Listing(list)
    <2> SUFFICES ASSUME NEW j \in DOMAIN list, NEW k \in DOMAIN list, list[j].id = list[k].id, j # k
                 PROVE  FALSE
      BY <1>10 DEF Listing
    <2>1. CASE j = n
      BY <1>3, <1>4, <1>10, <1>12, <2>1
    <2>2. CASE k = n
      BY <1>3, <1>4, <1>10, <1>12, <2>2
    <2>3. CASE j # n /\ k # n
      <3>1. PICK a \in DOMAIN timeline : j = (IF a < n THEN a ELSE a + 1) /\ list[j] = timeline[a]
        BY <1>12, <2>3
      <3>2. PICK b \in DOMAIN timeline : k = (IF b < n THEN b ELSE b + 1) /\ list[k] = timeline[b]
        BY <1>12, <2>3
      <3> QED
        BY <1>1, <3>1, <3>2
    <2> QED
      BY <2>1, <2>2, <2>3
  <1>14. ASSUME ~ restoredOver, ~ gone.edited, NEW time \in Instants PROVE Depth(list, time) <= 2
    <2>1. Depth(list, time) = Depth(timeline, time) + IF Covers(list[n], time) THEN 1 ELSE 0
      BY <1>1, <1>10, <1>11, OneLess
    <2> QED
      BY <1>3, <1>4, <1>10, <1>14, <2>1
  <1>15. restoredOver \in BOOLEAN
    BY EditsParts
  <1>16. PICK over \in BOOLEAN : over = (restoredOver \/ gone.edited)
    BY <1>5, <1>15
  <1>17. ~ over => AtMostTwoDeep(list)
    BY <1>14, <1>16 DEF AtMostTwoDeep
  <1>18. EditsHold(list, Nothing, over)
    BY <1>13, <1>16, <1>17 DEF EditsHold
  <1> QED
    BY <1>9, <1>16, <1>18 DEF TimelineInv

LEMMA DismissHolds ==
    ASSUME TimelineInv, DismissDeleted
    PROVE  TimelineInv'
  <1>1. removed' = Nothing /\ timeline' = timeline /\ restoredOver' = restoredOver
    BY DEF DismissDeleted
  <1>2. EditsHold(timeline, Nothing, restoredOver)
    BY DEF TimelineInv, EditsHold
  <1> QED
    BY <1>1, <1>2 DEF TimelineInv

LEMMA TimelineStep == TimelineInv /\ [TimelineNext]_timelineVars => TimelineInv'
  <1> SUFFICES ASSUME TimelineInv, [TimelineNext]_timelineVars PROVE TimelineInv'
    OBVIOUS
  <1>1. ASSUME NEW id \in SegmentIds, NEW start \in -1..(TimelineLength + 1),
               NEW end \in -1..(TimelineLength + 1), CreateSegment(id, start, end)
        PROVE  TimelineInv'
    <2>1. start \in Int /\ end \in Int
      BY EditsAssumption
    <2> QED
      BY <1>1, <2>1, CreateHolds
  <1>2. ASSUME NEW n \in DOMAIN timeline, NEW edge \in {"start", "end"}, NEW delta \in {-2, -1, 1, 2},
               MoveBoundary(n, edge, delta)
        PROVE  TimelineInv'
    BY <1>2, MoveHolds
  <1>3. ASSUME NEW n \in DOMAIN timeline, RemoveSegment(n) PROVE TimelineInv'
    BY <1>3, RemoveHolds
  <1>4. CASE RestoreSegment
    BY <1>4, RestoreHolds
  <1>5. CASE DismissDeleted
    BY <1>5, DismissHolds
  <1>6. CASE UNCHANGED timelineVars
    <2>1. timeline' = timeline /\ removed' = removed /\ restoredOver' = restoredOver
      BY <1>6 DEF timelineVars
    <2> QED
      BY <2>1 DEF TimelineInv
  <1> QED
    BY <1>1, <1>2, <1>3, <1>4, <1>5, <1>6 DEF TimelineNext

LEMMA TimelineStarts == TimelineInit => TimelineInv
  <1> SUFFICES ASSUME TimelineInit PROVE TimelineInv
    OBVIOUS
  <1>1. timeline = <<>> /\ removed = Nothing /\ restoredOver = FALSE
    BY DEF TimelineInit
  <1>2. Listing(<<>>)
    BY DEF Listing
  <1>3. AtMostTwoDeep(<<>>)
    <2>1. \A time : {n \in DOMAIN <<>> : Covers(<<>>[n], time)} = {}
      OBVIOUS
    <2>2. \A time : Depth(<<>>, time) = 0
      BY <2>1, FS_EmptySet DEF Depth
    <2> QED
      BY <2>2 DEF AtMostTwoDeep
  <1>4. EditsHold(<<>>, Nothing, FALSE)
    BY <1>2, <1>3 DEF EditsHold
  <1> QED
    BY <1>1, <1>4 DEF TimelineInv

\* Whatever is created, moved, deleted and brought back, the editor draws the segments
\* of an open video in two rows without overlap, until a deletion is undone after other
\* edits; and its layout gives up exactly when three segments play at once.  For videos of
\* any length and any number of segments (validateSegmentMutation, assignSegmentRows).
THEOREM EditsAreDrawn == TimelineSpec => []EditsFitTwoRows
  <1>1. TimelineInv => EditsFitTwoRows
    <2> SUFFICES ASSUME TimelineInv PROVE EditsFitTwoRows
      OBVIOUS
    <2>1. Listing(timeline) /\ (~ restoredOver => AtMostTwoDeep(timeline))
      BY DEF TimelineInv, EditsHold
    <2>2. PICK layout : layout = AssignSegmentRows(timeline)
      OBVIOUS
    <2>3. /\ layout.ok <=> AtMostTwoDeep(timeline)
          /\ layout.ok =>
               /\ Len(layout.rows) = Len(timeline)
               /\ \A n, k \in DOMAIN layout.rows, time \in Instants :
                    n # k /\ layout.rows[n].row = layout.rows[k].row =>
                      ~ (Covers(layout.rows[n].segment, time) /\ Covers(layout.rows[k].segment, time))
      BY <2>1, <2>2, LayoutIsRight
    <2> QED
      BY <2>1, <2>2, <2>3 DEF EditsFitTwoRows
  <1> QED
    BY <1>1, TimelineStarts, TimelineStep, PTL DEF TimelineSpec
=============================================================================
