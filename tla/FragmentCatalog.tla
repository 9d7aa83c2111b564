---------------------------- MODULE FragmentCatalog ----------------------------
(***************************************************************************)
(* The fragments of one video and the five ways to write them              *)
(* (fragments/fragment-service.ts, jobs/processors/purge-fragment.ts).     *)
(* saveEditor and patch read the whole set of fragments, validate it, and  *)
(* write later in the same transaction: each is a begin and a commit, with *)
(* every other transaction free to commit in between unless a row lock     *)
(* stops it (READ COMMITTED).  delete, restore and the purge read and write *)
(* one locked row and are one step.                                        *)
(*                                                                         *)
(* What a fragment holds is its span.  The revisions a client sends are the *)
(* ones the transaction finds: a request with others is refused and changes *)
(* nothing.                                                                *)
(***************************************************************************)
EXTENDS Integers, FiniteSets

CONSTANTS Fragments,
          Spans,          \* spans a client may ask for, each a set of instants
          MaxRevision,    \* bound on the revisions of a fragment
          Operations      \* the operations a run performs

ASSUME FragmentsAssumption == IsFiniteSet(Fragments)
ASSUME RevisionAssumption == MaxRevision \in Nat \ {0}
ASSUME FragmentOperationsAssumption ==
    Operations \subseteq {"create", "edit", "patch", "delete", "restore", "purge"}

VARIABLES
    row,      \* row[f]: the fragment's row; undo is whether its deletion may be undone
    open,     \* transactions of saveEditor and patch that have validated, not committed
    written,  \* history: every version <<fragment, revision, span>> ever committed
    raced     \* history: fragments another writer changed while a save held their list

vars == <<row, open, written, raced>>

Absent == [state |-> "absent", revision |-> 0, span |-> {}, undo |-> FALSE,
           writer |-> "none"]

Init ==
    /\ row = [f \in Fragments |-> Absent]
    /\ open = {}
    /\ written = {}
    /\ raced = {}

\* FragmentRepository.list: the spans of the fragments that are not deleted.
Listed == {f \in Fragments : row[f].state = "live"}
List == [f \in Listed |-> row[f].span]

\* validateFragmentSet (the sweep itself is checked in FragmentTiming).
ValidateFragmentSet(set) ==
    \A instant \in UNION Spans :
        Cardinality({f \in DOMAIN set : instant \in set[f]}) <= 2

VideoLocked == \E t \in open : t.kind = "save"
RowLocks == UNION {DOMAIN t.changes : t \in {u \in open : u.kind = "patch"}}

\* The fragments among `ids` that an open save is about to write as well.
RaceSave(ids) == ids \cap UNION {DOMAIN t.changes : t \in {u \in open : u.kind = "save"}}

----------------------------------------------------------------------------
\* What a save may ask for: new fragments, and new spans of listed ones.
Requests ==
    {changes \in UNION {[ids -> Spans] : ids \in SUBSET Fragments \ {{}}} :
        \A f \in DOMAIN changes :
            \/ "create" \in Operations /\ row[f] = Absent
            \/ /\ "edit" \in Operations /\ f \in Listed
               /\ row[f].span # changes[f] /\ row[f].revision < MaxRevision}

Merged(changes) ==
    [f \in Listed \cup DOMAIN changes |->
        IF f \in DOMAIN changes THEN changes[f] ELSE row[f].span]

OpenSave(changes) ==
    open' = open \cup {[kind |-> "save", changes |-> changes,
                        revisions |-> [f \in DOMAIN changes |-> row[f].revision + 1]]}

MutSaveWithoutLock(changes) ==
    /\ ValidateFragmentSet(Merged(changes))
    /\ OpenSave(changes)
    /\ UNCHANGED <<row, written, raced>>

\* saveEditor up to its validation: it locks the row of the video, so that saves
\* exclude each other, and lists the fragments without locking them.
SaveBegin(changes) ==
    /\ ~VideoLocked
    /\ ValidateFragmentSet(Merged(changes))
    /\ OpenSave(changes)
    /\ UNCHANGED <<row, written, raced>>

\* What a transaction writes, by id alone: an update finds the row as it is by now,
\* an insert makes a live one.
WriteRows(t) ==
    /\ open' = open \ {t}
    /\ row' = [f \in Fragments |->
                IF f \notin DOMAIN t.changes THEN row[f]
                ELSE [row[f] EXCEPT !.state = IF @ = "absent" THEN "live" ELSE @,
                                    !.span = t.changes[f],
                                    !.revision = t.revisions[f],
                                    !.writer = t.kind]]
    /\ written' = written \cup
            {<<f, t.revisions[f], t.changes[f]>> : f \in DOMAIN t.changes}

\* The writes of saveEditor wait for a patch that holds a row.
SaveCommit(t) ==
    /\ t.kind = "save"
    /\ DOMAIN t.changes \cap RowLocks = {}
    /\ \A f \in DOMAIN t.changes : t.revisions[f] > 1 => row[f].state # "absent"
    /\ WriteRows(t)
    /\ UNCHANGED raced

OpenPatch(f, span) ==
    open' = open \cup {[kind |-> "patch", changes |-> [g \in {f} |-> span],
                        revisions |-> [g \in {f} |-> row[g].revision + 1]]}

MutPatchWithoutLock(f, span) ==
    /\ "patch" \in Operations
    /\ f \in Listed /\ row[f].revision < MaxRevision
    /\ ValidateFragmentSet([List EXCEPT ![f] = span])
    /\ OpenPatch(f, span)
    /\ UNCHANGED <<row, written, raced>>

\* patch up to its validation: it locks the row of the fragment.
PatchBegin(f, span) ==
    /\ "patch" \in Operations
    /\ f \in Listed \ RowLocks /\ row[f].revision < MaxRevision
    /\ ValidateFragmentSet([List EXCEPT ![f] = span])
    /\ OpenPatch(f, span)
    /\ UNCHANGED <<row, written, raced>>

PatchCommit(t) ==
    /\ t.kind = "patch"
    /\ WriteRows(t)
    /\ raced' = raced \cup RaceSave(DOMAIN t.changes)

\* Either transaction rolls back: a failing statement, a lost connection, a save
\* whose fragment was purged (the preview it asks for has no fragment).
Rollback(t) ==
    /\ open' = open \ {t}
    /\ UNCHANGED <<row, written, raced>>

\* delete keeps the revision and opens the undo window.
Delete(f) ==
    /\ "delete" \in Operations
    /\ f \in Listed \ RowLocks
    /\ row' = [row EXCEPT ![f] = [row[f] EXCEPT !.state = "deleted", !.undo = TRUE]]
    /\ UNCHANGED <<open, written, raced>>

\* restore asks for the token and the time, and validates nothing else.
Restore(f) ==
    /\ "restore" \in Operations
    /\ row[f].state = "deleted" /\ row[f].undo /\ row[f].revision < MaxRevision
    /\ row' = [row EXCEPT ![f] = [row[f] EXCEPT !.state = "live", !.undo = FALSE,
                                            !.revision = @ + 1, !.writer = "restore"]]
    /\ written' = written \cup {<<f, row[f].revision + 1, row[f].span>>}
    /\ raced' = raced \cup RaceSave({f})
    /\ UNCHANGED open

\* purge_after is reached: the window closes.
UndoExpires(f) ==
    /\ row[f].state = "deleted" /\ row[f].undo
    /\ row' = [row EXCEPT ![f].undo = FALSE]
    /\ UNCHANGED <<open, written, raced>>

\* The purge job acts on a fragment that is still deleted and past its window.
Purge(f) ==
    /\ "purge" \in Operations
    /\ row[f].state = "deleted" /\ ~row[f].undo
    /\ row' = [row EXCEPT ![f].state = "absent"]
    /\ UNCHANGED <<open, written, raced>>

Next ==
    \/ \E changes \in Requests : SaveBegin(changes)
    \/ \E f \in Fragments, span \in Spans : PatchBegin(f, span)
    \/ \E t \in open : SaveCommit(t) \/ PatchCommit(t) \/ Rollback(t)
    \/ \E f \in Fragments : Delete(f) \/ Restore(f) \/ UndoExpires(f) \/ Purge(f)

Spec == Init /\ [][Next]_vars

----------------------------------------------------------------------------
(* Properties.                                                             *)

Transaction ==
    UNION {[kind : {"save", "patch"}, changes : [ids -> Spans],
            revisions : [ids -> 1..MaxRevision]] : ids \in SUBSET Fragments}

\* Rows and open transactions are of their types, and the undo window belongs to
\* deleted rows, as the CHECK of the table fragments demands.
TypeOK ==
    /\ row \in [Fragments -> [state : {"absent", "live", "deleted"},
                              revision : 0..MaxRevision,
                              span : Spans \cup {{}}, undo : BOOLEAN,
                              writer : {"none", "save", "patch", "restore"}]]
    /\ \A f \in Fragments : /\ row[f].undo => row[f].state = "deleted"
                            /\ row[f].state # "absent" => row[f].span \in Spans
    /\ open \subseteq Transaction
    /\ written \subseteq Fragments \X (1..MaxRevision) \X Spans
    /\ raced \subseteq Fragments

\* Of the fragments whose span was last written by saveEditor, at most two play at
\* any instant: whatever deletions, restores and patches commit between the list a
\* save validates and its writes, the lock on the video's row keeps this half of the
\* overlap rule.
SavesKeepOverlapBound ==
    \A instant \in UNION Spans :
        Cardinality({f \in Listed : row[f].writer = "save" /\ instant \in row[f].span}) <= 2

\* The whole rule: at no instant more than two fragments of the video play.
OverlapBound ==
    \A instant \in UNION Spans :
        Cardinality({f \in Listed : instant \in row[f].span}) <= 2

\* A revision names one version of a fragment, unless a patch or a restore of it
\* committed while a save was about to write it: two accepted writes never carry the
\* same number with different content, which is what a client that compares
\* revisions relies on to see that it was overwritten.
RevisionNamesOneVersion ==
    \A v, w \in written :
        v[1] \notin raced /\ v[1] = w[1] /\ v[2] = w[2] => v[3] = w[3]

\* The same with no fragment excused.
NoVersionIsOverwritten ==
    \A v, w \in written : v[1] = w[1] /\ v[2] = w[2] => v[3] = w[3]
=============================================================================
