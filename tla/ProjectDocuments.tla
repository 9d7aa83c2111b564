---------------------------- MODULE ProjectDocuments ----------------------------
(***************************************************************************)
(* The document of one project of the legacy catalogue (services.ts over     *)
(* storage/project-repository.ts): the server's own changes of single        *)
(* fragments, the inspector's metadata, and the saves of editors that send    *)
(* the whole document they hold, which has no revision.  The operations run   *)
(* one at a time (enqueue); the listing of fragments does not.                 *)
(***************************************************************************)
EXTENDS Naturals, FiniteSets

CONSTANTS Pieces,       \* ids of fragments
          Shapes,       \* what a fragment can be: [start, end, tags]
          Labels,       \* tags
          Ticks,        \* the length of the video
          Editors,      \* clients that hold a document
          NoValue       \* no fragment, no duration, no document, no listing

ASSUME PiecesAssumption == IsFiniteSet(Pieces)

VARIABLES document,     \* the sidecar: [segments, duration]
          labels,       \* catalogue metadata: the tags
          held,         \* the editors' documents
          deletedPiece, \* the answer of the last deletion: [id, fragment]
          inspection,   \* the state of the inspect-source job
          opened,       \* the project is in openProjectIds
          closing,      \* the editor whose close is under way
          listing       \* getFragments: [tags, late, unknown]

documentVars == <<document, labels, held, deletedPiece, inspection, opened, closing, listing>>

DocumentInit ==
    /\ document = [segments |-> [id \in Pieces |-> NoValue], duration |-> NoValue]
    /\ labels = {} /\ held = [e \in Editors |-> NoValue] /\ deletedPiece = NoValue
    /\ inspection = "queued" /\ opened = TRUE /\ closing = NoValue /\ listing = NoValue

----------------------------------------------------------------------------
(* Fragments. *)

Present(project) == {id \in Pieces : project.segments[id] # NoValue}

\* At most two of the fragments at any time, each with a positive length.
WithinRule(segments) ==
    \A time \in 0..Ticks :
        Cardinality({id \in Pieces : /\ segments[id] # NoValue
                                     /\ segments[id].start <= time
                                     /\ time < segments[id].end}) <= 2

With(project, id, fragment) == [project EXCEPT !.segments = [project.segments EXCEPT ![id] = fragment]]

\* validateFragmentTiming's three rejections; the editor's own rule is the same.
ValidTiming(project, id, fragment) ==
    /\ fragment.start < fragment.end
    /\ project.duration # NoValue /\ fragment.end <= project.duration
    /\ WithinRule(With(project, id, fragment).segments)

CreateTag(tag) ==
    /\ closing = NoValue /\ tag \notin labels
    /\ labels' = labels \cup {tag}
    /\ listing' = IF listing = NoValue THEN listing ELSE [listing EXCEPT !.late = listing.late \cup {tag}]
    /\ UNCHANGED <<document, held, deletedPiece, inspection, opened, closing>>

UpdateFragment(id, fragment) ==
    /\ closing = NoValue /\ id \in Present(document)
    /\ fragment.tags \subseteq labels
    /\ ValidTiming(document, id, fragment)
    /\ document' = With(document, id, fragment)
    /\ UNCHANGED <<labels, held, deletedPiece, inspection, opened, closing, listing>>

DeleteFragment(id) ==
    /\ closing = NoValue /\ id \in Present(document)
    /\ document' = With(document, id, NoValue)
    /\ deletedPiece' = [id |-> id, fragment |-> document.segments[id]]
    /\ UNCHANGED <<labels, held, inspection, opened, closing, listing>>

MutRestorable(id, fragment) == fragment.tags \subseteq labels

Restorable(id, fragment) ==
    ValidTiming(document, id, fragment) /\ fragment.tags \subseteq labels

\* The client sends the deletion's answer back; a fragment that is there again is kept.
RestoreFragment ==
    /\ closing = NoValue /\ deletedPiece # NoValue
    /\ deletedPiece.id \notin Present(document)
    /\ Restorable(deletedPiece.id, deletedPiece.fragment)
    /\ document' = With(document, deletedPiece.id, deletedPiece.fragment)
    /\ UNCHANGED <<labels, held, deletedPiece, inspection, opened, closing, listing>>

----------------------------------------------------------------------------
(* Whole documents. *)

ReadDocument(e) ==
    /\ opened /\ closing = NoValue
    /\ held' = [held EXCEPT ![e] = document]
    /\ UNCHANGED <<document, labels, deletedPiece, inspection, opened, closing, listing>>

\* The editor validates against the document it holds, which may be old by now.
EditHeld(e, id, fragment) ==
    /\ held[e] # NoValue
    /\ closing # e
    /\ IF fragment = NoValue THEN id \in Present(held[e])
       ELSE fragment.tags \subseteq labels /\ ValidTiming(held[e], id, fragment)
    /\ held' = [held EXCEPT ![e] = With(held[e], id, fragment)]
    /\ UNCHANGED <<document, labels, deletedPiece, inspection, opened, closing, listing>>

\* preserveInspectedSource: what the inspector wrote is the server's.
Preserved(incoming) == [incoming EXCEPT !.duration = document.duration]

SaveProject(e) ==
    /\ closing = NoValue /\ held[e] # NoValue
    /\ document' = Preserved(held[e])
    /\ held' = [held EXCEPT ![e] = document']
    /\ UNCHANGED <<labels, deletedPiece, inspection, opened, closing, listing>>

\* closeProject: the document is written first, then the workspace.
CloseWithDocument(e) ==
    /\ closing = NoValue /\ opened /\ held[e] # NoValue
    /\ closing' = e
    /\ UNCHANGED <<document, labels, held, deletedPiece, inspection, opened, listing>>

CloseWritesProject ==
    /\ closing # NoValue /\ document # Preserved(held[closing])
    /\ document' = Preserved(held[closing])
    /\ UNCHANGED <<labels, held, deletedPiece, inspection, opened, closing, listing>>

CloseWritesWorkspace ==
    /\ closing # NoValue /\ document = Preserved(held[closing])
    /\ opened' = FALSE /\ closing' = NoValue
    /\ held' = [held EXCEPT ![closing] = NoValue]
    /\ UNCHANGED <<document, labels, deletedPiece, inspection, listing>>

\* Either write fails, or the server dies between them.
CloseFails ==
    /\ closing # NoValue
    /\ closing' = NoValue
    /\ UNCHANGED <<document, labels, held, deletedPiece, inspection, opened, listing>>

Reopen ==
    /\ closing = NoValue /\ ~ opened
    /\ opened' = TRUE
    /\ UNCHANGED <<document, labels, held, deletedPiece, inspection, closing, listing>>

\* The inspection job writes the metadata before it is marked completed.
UpdateSourceMetadata ==
    /\ closing = NoValue /\ inspection = "queued"
    /\ document' = [document EXCEPT !.duration = Ticks]
    /\ UNCHANGED <<labels, held, deletedPiece, inspection, opened, closing, listing>>

InspectionCompletes ==
    /\ inspection = "queued" /\ document.duration # NoValue
    /\ inspection' = "completed"
    /\ UNCHANGED <<document, labels, held, deletedPiece, opened, closing, listing>>

----------------------------------------------------------------------------
(* getFragments: the tags are read, then the sidecar; operations run in between. *)

ListTags ==
    /\ listing' = [tags |-> labels, late |-> {}, unknown |-> {}]
    /\ UNCHANGED <<document, labels, held, deletedPiece, inspection, opened, closing>>

ListFragments ==
    /\ listing # NoValue
    /\ LET used == UNION {document.segments[id].tags : id \in Present(document)}
       IN  listing' = [listing EXCEPT !.unknown = used \ listing.tags]
    /\ UNCHANGED <<document, labels, held, deletedPiece, inspection, opened, closing>>

----------------------------------------------------------------------------
DocumentNext ==
    \/ \E tag \in Labels : CreateTag(tag)
    \/ \E id \in Pieces : DeleteFragment(id) \/ \E shape \in Shapes : UpdateFragment(id, shape)
    \/ RestoreFragment
    \/ \E e \in Editors :
        \/ ReadDocument(e) \/ SaveProject(e) \/ CloseWithDocument(e)
        \/ \E id \in Pieces, shape \in Shapes \cup {NoValue} : EditHeld(e, id, shape)
    \/ CloseWritesProject \/ CloseWritesWorkspace \/ CloseFails \/ Reopen
    \/ UpdateSourceMetadata \/ InspectionCompletes
    \/ ListTags \/ ListFragments

DocumentSpec == DocumentInit /\ [][DocumentNext]_documentVars

----------------------------------------------------------------------------
\* Fragments stay inside the video and at most two of them overlap, although an editor
\* saves whole documents that it validated against an older one.
FragmentsFit ==
    /\ WithinRule(document.segments)
    /\ \A id \in Present(document) : document.duration # NoValue /\ document.segments[id].end <= Ticks

\* The inspection is not asked for again: what it found is never saved away.
InspectionStays == inspection = "completed" => document.duration = Ticks

\* A listed fragment has a tag that is not listed only if the tag is newer than the list.
ListingIsClosed == listing # NoValue => listing.unknown \subseteq listing.late

DocumentIsSound == FragmentsFit /\ InspectionStays /\ ListingIsClosed
=============================================================================
