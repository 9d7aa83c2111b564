----------------------------- MODULE SearchCatalog -----------------------------
(***************************************************************************)
(* The PostgreSQL catalog as the search pipeline sees it: the fragments of *)
(* one video, the video's own searchable metadata, and the transactions    *)
(* that write them together with their integration events                  *)
(* (fragment-service.ts, video-service.ts, purge-fragment.ts,              *)
(* delete-video.ts, fragment-projection.ts).                               *)
(*                                                                         *)
(* A transaction takes its row locks and the positions of its events when  *)
(* it begins and shows its effect when it commits.  Transactions on one    *)
(* fragment exclude each other by the lock on its row; the transactions    *)
(* that touch every fragment (saving a new title, deleting the video) lock *)
(* the video row only.                                                     *)
(***************************************************************************)
EXTENDS Integers, Sequences, SequencesExt

CONSTANTS Fragments,
          Operations,     \* the transactions a run performs
          MaxPosition,    \* bound on the positions ever allocated
          MaxTitle        \* bound on the saves that change the source metadata

ASSUME OperationsAssumption ==
    Operations \subseteq {"create", "edit", "delete", "restore", "purge",
                          "retitle", "discard", "abort"}
ASSUME FragmentsAssumption == IsFiniteSet(Fragments)
ASSUME BoundsAssumption == MaxPosition \in Nat /\ MaxTitle \in Nat

VARIABLES
    row,            \* row[f]: the fragment's row
    source,         \* the video's row
    lastPosition,   \* last value of the identity column integration_events.position
    open,           \* transactions that have begun and not ended
    log,            \* committed events, in the order their transactions committed
    raced           \* history: fragments written while a save of the whole source was open

catalogVars == <<row, source, lastPosition, open, log, raced>>

Event == [position : 1..MaxPosition, fragment : Fragments,
          type : {"changed", "deleted"}]
Kinds == {"create", "edit", "delete", "restore", "retitle", "discard"}
SourceWide == {"retitle", "discard"}

CatalogInit ==
    /\ row = [f \in Fragments |-> [state |-> "absent", revision |-> 0]]
    /\ source = [title |-> 0, deleting |-> FALSE]
    /\ lastPosition = 0
    /\ open = {}
    /\ log = <<>>
    /\ raced = {}

NoDocument == <<>>

\* loadSearchDocument: what the catalog shows of a fragment, if anything.
Document(f) ==
    IF row[f].state = "live" /\ ~source.deleting
    THEN <<row[f].revision, source.title>>
    ELSE NoDocument

\* The visible fragments, as the WHERE clauses of the readers select them.
Visible == {f \in Fragments : Document(f) # NoDocument}

CommittedPositions == {log[n].position : n \in DOMAIN log}
EventAt(p) == log[CHOOSE n \in DOMAIN log : log[n].position = p]
HighWater == IF log = <<>> THEN 0
             ELSE CHOOSE p \in CommittedPositions :
                    \A q \in CommittedPositions : q <= p

Locked == UNION {t.locks : t \in open}
SourceLocked == \E t \in open : t.kind \in SourceWide \cup {"create"}

----------------------------------------------------------------------------
(* Transactions.                                                           *)

\* Fragments whose transaction and a source-wide one are open together.
RacedWith(kind, locks) ==
    IF kind \in SourceWide THEN Locked
    ELSE IF \E t \in open : t.kind \in SourceWide THEN locks ELSE {}

\* Starts a transaction that holds `locks` and appends one event of type `type`
\* for every fragment of `affected` (appendFragmentProjectionEvent).
Begin(kind, locks, affected, type) ==
    LET order == SetToSeq(affected)
        events == [n \in DOMAIN order |->
                    [position |-> lastPosition + n, fragment |-> order[n],
                     type |-> IF source.deleting THEN "deleted" ELSE type]]
    IN  /\ kind \in Operations
        /\ locks \cap Locked = {}
        /\ lastPosition + Len(order) <= MaxPosition
        /\ open' = open \cup {[kind |-> kind, locks |-> locks, events |-> events]}
        /\ lastPosition' = lastPosition + Len(order)
        /\ raced' = raced \cup RacedWith(kind, locks)
        /\ UNCHANGED <<row, source, log>>

\* saveEditor inserting a fragment: it holds the video row as well.
BeginCreate(f) ==
    /\ row[f].revision = 0 /\ ~SourceLocked /\ ~source.deleting
    /\ Begin("create", {f}, {f}, "changed")

\* patch, and saveEditor changing one fragment.
BeginEdit(f) ==
    row[f].state = "live" /\ Begin("edit", {f}, {f}, "changed")

BeginDelete(f) ==
    row[f].state = "live" /\ Begin("delete", {f}, {f}, "deleted")

\* restore, within the undo window of a deletion.
BeginRestore(f) ==
    row[f].state = "deleted" /\ Begin("restore", {f}, {f}, "changed")

\* saveEditor with a new title, description or tag set of the video: an event
\* for every fragment it listed, none of which it locks.
BeginRetitle ==
    /\ ~SourceLocked /\ ~source.deleting /\ source.title < MaxTitle
    /\ Begin("retitle", {}, Visible, "changed")

MutDiscardWithoutEvents ==
    /\ ~SourceLocked /\ ~source.deleting
    /\ Begin("discard", {}, {}, "deleted")

\* VideoService.delete.
BeginDiscard ==
    /\ ~SourceLocked /\ ~source.deleting
    /\ Begin("discard", {}, Visible, "deleted")

Effect(t) ==
    [f \in Fragments |->
        IF f \notin t.locks THEN row[f]
        ELSE CASE t.kind \in {"create", "edit", "restore"} ->
                    [state |-> "live", revision |-> row[f].revision + 1]
               [] t.kind = "delete" -> [row[f] EXCEPT !.state = "deleted"]]

SourceEffect(t) ==
    CASE t.kind = "retitle" -> [source EXCEPT !.title = @ + 1]
      [] t.kind = "discard" -> [source EXCEPT !.deleting = TRUE]
      [] OTHER -> source

\* The rows and the events of a transaction become visible together.
Commit(t) ==
    /\ open' = open \ {t}
    /\ row' = Effect(t)
    /\ source' = SourceEffect(t)
    /\ log' = log \o t.events
    /\ UNCHANGED <<lastPosition, raced>>

\* A transaction that rolls back leaves a gap in the positions.
Abort(t) ==
    /\ "abort" \in Operations
    /\ open' = open \ {t}
    /\ UNCHANGED <<row, source, lastPosition, log, raced>>

\* createPurgeFragmentProcessor: the row goes, and no event tells of it.
PurgeFragment(f) ==
    /\ "purge" \in Operations
    /\ row[f].state = "deleted" /\ f \notin Locked
    /\ row' = [row EXCEPT ![f].state = "absent"]
    /\ UNCHANGED <<source, lastPosition, open, log, raced>>

\* createDeleteVideoProcessor: every fragment row of the video goes with it.
PurgeVideo ==
    /\ "purge" \in Operations
    /\ source.deleting /\ open = {}
    /\ \E f \in Fragments : row[f].state # "absent"
    /\ row' = [f \in Fragments |-> [row[f] EXCEPT !.state = "absent"]]
    /\ UNCHANGED <<source, lastPosition, open, log, raced>>

Write ==
    \/ \E f \in Fragments :
        BeginCreate(f) \/ BeginEdit(f) \/ BeginDelete(f) \/ BeginRestore(f)
    \/ BeginRetitle \/ BeginDiscard
    \/ \E t \in open : Commit(t) \/ Abort(t)

Purge == PurgeVideo \/ \E f \in Fragments : PurgeFragment(f)

CatalogTypeOK ==
    /\ row \in [Fragments -> [state : {"absent", "live", "deleted"},
                              revision : 0..MaxPosition]]
    /\ source \in [title : 0..MaxTitle, deleting : BOOLEAN]
    /\ lastPosition \in 0..MaxPosition
    /\ \A t \in open : /\ t.kind \in Kinds
                       /\ t.locks \subseteq Fragments
                       /\ t.events \in Seq(Event)
    /\ log \in Seq(Event)
    /\ raced \subseteq Fragments
=============================================================================
