------------------------- MODULE FragmentCatalogProofs -------------------------
(***************************************************************************)
(* Proofs about FragmentCatalog for any fragments, spans and bound: its    *)
(* types, what a revision identifies, and the half of the overlap rule the *)
(* lock on the video's row keeps.                                          *)
(***************************************************************************)
EXTENDS FragmentCatalog, FiniteSetTheorems, TLAPS

----------------------------------------------------------------------------
(* Type correctness.                                                       *)

\* A request of a save holds fragments and spans.
LEMMA RequestType ==
    ASSUME TypeOK, NEW changes \in Requests
    PROVE  /\ DOMAIN changes \subseteq Fragments
           /\ changes \in [DOMAIN changes -> Spans]
           /\ \A f \in DOMAIN changes : row[f].revision + 1 \in 1..MaxRevision
  <1>1. PICK ids \in SUBSET Fragments : changes \in [ids -> Spans]
    BY DEF Requests
  <1>2. ASSUME NEW f \in DOMAIN changes PROVE row[f].revision + 1 \in 1..MaxRevision
    <2>1. row[f].revision \in 0..MaxRevision
      BY <1>1 DEF TypeOK
    <2>2. row[f] = Absent \/ row[f].revision < MaxRevision
      BY <1>2 DEF Requests
    <2> QED
      BY <2>1, <2>2, RevisionAssumption DEF Absent
  <1> QED
    BY <1>1, <1>2

\* The fields of an open transaction.
LEMMA TransactionType ==
    ASSUME TypeOK, NEW t \in open
    PROVE  /\ DOMAIN t.changes \subseteq Fragments
           /\ t.changes \in [DOMAIN t.changes -> Spans]
           /\ t.revisions \in [DOMAIN t.changes -> 1..MaxRevision]
           /\ t.kind \in {"save", "patch"}
  <1>1. PICK ids \in SUBSET Fragments :
            t \in [kind : {"save", "patch"}, changes : [ids -> Spans],
                   revisions : [ids -> 1..MaxRevision]]
    BY DEF TypeOK, Transaction
  <1> QED
    BY <1>1

\* A record built from typed parts is a transaction.
LEMMA TransactionIntro ==
    ASSUME NEW ids \in SUBSET Fragments, NEW kind \in {"save", "patch"},
           NEW changes \in [ids -> Spans], NEW revisions \in [ids -> 1..MaxRevision]
    PROVE  [kind |-> kind, changes |-> changes, revisions |-> revisions] \in Transaction
  BY DEF Transaction

\* A row of the table, and what its CHECK demands.
Row == [state : {"absent", "live", "deleted"}, revision : 0..MaxRevision,
        span : Spans \cup {{}}, undo : BOOLEAN,
        writer : {"none", "save", "patch", "restore"}]
IsRow(r) == /\ r \in Row
            /\ r.undo => r.state = "deleted"
            /\ r.state # "absent" => r.span \in Spans
RowsOK == row \in [Fragments -> Row] /\ \A f \in Fragments : IsRow(row[f])

\* One row replaced by another leaves rows.
LEMMA RowReplaced ==
    ASSUME RowsOK, NEW f \in Fragments, NEW r, IsRow(r), row' = [row EXCEPT ![f] = r]
    PROVE  RowsOK'
  <1>1. \A g \in Fragments : row'[g] = IF g = f THEN r ELSE row[g]
    BY DEF RowsOK
  <1>2. \A g \in Fragments : IsRow(row'[g])
    BY <1>1 DEF RowsOK
  <1>3. row' \in [Fragments -> Row]
    BY DEF RowsOK, IsRow
  <1> QED
    BY <1>2, <1>3 DEF RowsOK

\* What a commit makes of the rows it writes.
LEMMA RowCommitted ==
    ASSUME TypeOK, NEW t \in open, WriteRows(t), NEW f \in DOMAIN t.changes
    PROVE  /\ IsRow(row'[f])
           /\ row'[f].span = t.changes[f]
           /\ row'[f].revision = t.revisions[f]
           /\ row'[f].writer = t.kind
  <1>1. row'[f] = [row[f] EXCEPT !.state = IF @ = "absent" THEN "live" ELSE @,
                                 !.span = t.changes[f],
                                 !.revision = t.revisions[f],
                                 !.writer = t.kind]
    BY TransactionType DEF WriteRows
  <1>2. row[f] \in Row /\ (row[f].undo => row[f].state = "deleted")
    BY TransactionType DEF TypeOK, Row
  <1>3. t.changes[f] \in Spans /\ t.revisions[f] \in 0..MaxRevision
    BY TransactionType, RevisionAssumption
  <1> QED
    BY <1>1, <1>2, <1>3, TransactionType DEF IsRow, Row

\* Every row and every open transaction is of its type, and only a deleted row is
\* within an undo window.
THEOREM FragmentTypes == Spec => []TypeOK
  <1>1. Init => TypeOK
    BY RevisionAssumption DEF Init, TypeOK, Absent
  <1>2. TypeOK /\ [Next]_vars => TypeOK'
    <2> SUFFICES ASSUME TypeOK, [Next]_vars PROVE TypeOK'
      OBVIOUS
    <2>1. ASSUME NEW changes \in Requests, SaveBegin(changes) PROVE TypeOK'
      <3>1. [kind |-> "save", changes |-> changes,
             revisions |-> [f \in DOMAIN changes |-> row[f].revision + 1]] \in Transaction
        BY RequestType, TransactionIntro
      <3> QED
        BY <2>1, <3>1 DEF SaveBegin, OpenSave, TypeOK
    <2>2. ASSUME NEW f \in Fragments, NEW span \in Spans, PatchBegin(f, span) PROVE TypeOK'
      <3>1. row[f].revision + 1 \in 1..MaxRevision
        BY <2>2, RevisionAssumption DEF PatchBegin, TypeOK
      <3>2. [kind |-> "patch", changes |-> [g \in {f} |-> span],
             revisions |-> [g \in {f} |-> row[g].revision + 1]] \in Transaction
        BY <3>1, TransactionIntro
      <3> QED
        BY <2>2, <3>2 DEF PatchBegin, OpenPatch, TypeOK
    <2>3. ASSUME NEW t \in open, SaveCommit(t) \/ PatchCommit(t) PROVE TypeOK'
      <3>0. WriteRows(t)
        BY <2>3 DEF SaveCommit, PatchCommit
      <3>1. \A f \in DOMAIN t.changes :
                f \in Fragments /\ t.changes[f] \in Spans /\ t.revisions[f] \in 1..MaxRevision
        BY TransactionType
      <3>2. ASSUME NEW f \in Fragments PROVE IsRow(row'[f])
        <4>1. CASE f \notin DOMAIN t.changes
          BY <3>0, <4>1 DEF WriteRows, TypeOK, IsRow, Row
        <4> QED
          BY <3>0, <4>1, RowCommitted
      <3>3. row' \in [Fragments -> Row]
        BY <3>0, <3>2 DEF WriteRows, IsRow
      <3>4. written' \subseteq Fragments \X (1..MaxRevision) \X Spans
        <4>1. written \subseteq Fragments \X (1..MaxRevision) \X Spans
          BY DEF TypeOK
        <4>2. \A f \in DOMAIN t.changes :
                <<f, t.revisions[f], t.changes[f]>> \in Fragments \X (1..MaxRevision) \X Spans
          BY <3>1
        <4> QED
          BY <3>0, <4>1, <4>2 DEF WriteRows
      <3>5. open' \subseteq Transaction
        BY <3>0 DEF WriteRows, TypeOK
      <3>6. raced' \subseteq Fragments
        BY <2>3, TransactionType DEF SaveCommit, PatchCommit, RaceSave, TypeOK
      <3> QED
        BY <3>2, <3>3, <3>4, <3>5, <3>6 DEF TypeOK, IsRow, Row
    <2>5. ASSUME NEW t \in open, Rollback(t) PROVE TypeOK'
      BY <2>5 DEF Rollback, TypeOK
    <2>6. ASSUME NEW f \in Fragments, Delete(f) PROVE TypeOK'
      <3>1. row' = [row EXCEPT ![f] = [row[f] EXCEPT !.state = "deleted", !.undo = TRUE]]
        BY <2>6 DEF Delete
      <3>2. row[f].span \in Spans
        BY <2>6 DEF Delete, Listed, TypeOK
      <3>3. row[f] \in Row /\ RowsOK
        BY DEF TypeOK, RowsOK, IsRow, Row
      <3>4. IsRow([row[f] EXCEPT !.state = "deleted", !.undo = TRUE])
        BY <3>2, <3>3 DEF IsRow, Row
      <3>5. RowsOK'
        BY <3>1, <3>3, <3>4, RowReplaced
      <3> QED
        BY <2>6, <3>5 DEF Delete, TypeOK, RowsOK, IsRow, Row
    <2>7. ASSUME NEW f \in Fragments, Restore(f) PROVE TypeOK'
      <3>1. row' = [row EXCEPT ![f] = [row[f] EXCEPT !.state = "live", !.undo = FALSE,
                                        !.revision = @ + 1, !.writer = "restore"]]
        BY <2>7 DEF Restore
      <3>2. row[f].span \in Spans /\ row[f].revision + 1 \in 1..MaxRevision
        BY <2>7, RevisionAssumption DEF Restore, TypeOK
      <3>3. <<f, row[f].revision + 1, row[f].span>> \in Fragments \X (1..MaxRevision) \X Spans
        BY <3>2
      <3>4. row[f] \in Row /\ RowsOK
        BY DEF TypeOK, RowsOK, IsRow, Row
      <3>5. IsRow([row[f] EXCEPT !.state = "live", !.undo = FALSE,
                                 !.revision = @ + 1, !.writer = "restore"])
        <4>1. row[f].revision + 1 \in 0..MaxRevision
          BY <3>2, RevisionAssumption
        <4> QED
          BY <3>2, <3>4, <4>1 DEF IsRow, Row
      <3>6. RowsOK'
        BY <3>1, <3>4, <3>5, RowReplaced
      <3> QED
        BY <2>7, <3>3, <3>6 DEF Restore, RaceSave, TypeOK, RowsOK, IsRow, Row
    <2>8. ASSUME NEW f \in Fragments, UndoExpires(f) PROVE TypeOK'
      BY <2>8 DEF UndoExpires, TypeOK
    <2>9. ASSUME NEW f \in Fragments, Purge(f) PROVE TypeOK'
      BY <2>9 DEF Purge, TypeOK
    <2>10. CASE UNCHANGED vars
      BY <2>10 DEF vars, TypeOK
    <2> QED
      BY <2>1, <2>2, <2>3, <2>5, <2>6, <2>7, <2>8, <2>9, <2>10 DEF Next
  <1> QED
    BY <1>1, <1>2, PTL DEF Spec

----------------------------------------------------------------------------
(* Revisions.  A patch holds the lock of its row from the read to the      *)
(* write; a save does not, and what it will write is the next version only *)
(* as long as nobody else wrote the row.                                   *)

\* Every committed version is at or below the revision its row has reached.
VersionsReached == \A v \in written : v[1] \notin raced => v[2] <= row[v[1]].revision

\* An open transaction is about to write the next revision.  A patch holds live rows.
WritersAreCurrent ==
    \A t \in open : \A f \in DOMAIN t.changes :
        /\ t.kind = "patch" => row[f].state = "live"
        /\ t.kind = "patch" \/ f \notin raced => t.revisions[f] = row[f].revision + 1

\* There is one open save at most, and one open patch of a row.
WritersExclude ==
    \A t, u \in open :
        /\ t.kind = "save" /\ u.kind = "save" => t = u
        /\ t.kind = "patch" /\ u.kind = "patch" /\ DOMAIN t.changes \cap DOMAIN u.changes # {}
                => t = u

RevisionInvariant ==
    TypeOK /\ RevisionNamesOneVersion /\ VersionsReached /\ WritersAreCurrent /\ WritersExclude

\* Writing next revisions keeps every number the name of one version.
LEMMA NextVersions ==
    ASSUME TypeOK, RevisionNamesOneVersion, VersionsReached, raced \subseteq raced',
           NEW ids \in SUBSET Fragments, NEW revisions, NEW spans,
           \A v \in written' : v \in written \/
               \E f \in ids : v = <<f, revisions[f], spans[f]>>,
           \A f \in ids : f \notin raced' =>
               revisions[f] = row[f].revision + 1 /\ row'[f].revision = row[f].revision + 1,
           \A f \in Fragments \ ids : row'[f].revision = row[f].revision
    PROVE  RevisionNamesOneVersion' /\ VersionsReached'
  <1>1. \A f \in Fragments : row[f].revision \in Nat
    BY RevisionAssumption DEF TypeOK
  <1>2. \A v \in written : v[1] \in Fragments /\ v[2] \in Nat
    BY RevisionAssumption DEF TypeOK
  <1>3. VersionsReached'
    BY <1>1, <1>2 DEF VersionsReached
  <1>4. ASSUME NEW v \in written', NEW w \in written',
               v[1] \notin raced', v[1] = w[1], v[2] = w[2]
        PROVE v[3] = w[3]
    <2>1. CASE v \in written /\ w \in written
      BY <1>4, <2>1 DEF RevisionNamesOneVersion
    <2>2. CASE v \notin written /\ w \notin written
      BY <1>4, <2>2
    <2>3. CASE v \in written <=> w \notin written
      BY <1>1, <1>2, <1>4, <2>3 DEF VersionsReached
    <2> QED
      BY <2>1, <2>2, <2>3
  <1> QED
    BY <1>3, <1>4 DEF RevisionNamesOneVersion

\* A step keeps the invariant.  A commit writes next revisions of rows no patch holds;
\* a patch or a restore that commits under an open save marks its row raced.
LEMMA RevisionStep ==
    ASSUME RevisionInvariant, TypeOK', [Next]_vars
    PROVE  RevisionInvariant'
  <1>0. /\ TypeOK /\ RevisionNamesOneVersion /\ VersionsReached
        /\ WritersAreCurrent /\ WritersExclude
    BY DEF RevisionInvariant
  <1>t. \A t \in open : t.kind \in {"save", "patch"} /\ DOMAIN t.changes \subseteq Fragments
    BY <1>0, TransactionType
  <1>1. ASSUME NEW changes \in Requests, SaveBegin(changes) PROVE RevisionInvariant'
    <2>1. /\ UNCHANGED <<row, written, raced>>
          /\ open' = open \cup {[kind |-> "save", changes |-> changes,
                    revisions |-> [f \in DOMAIN changes |-> row[f].revision + 1]]}
          /\ \A t \in open : t.kind # "save"
      BY <1>1 DEF SaveBegin, OpenSave, VideoLocked
    <2>2. WritersAreCurrent'
      BY <1>0, <2>1 DEF WritersAreCurrent
    <2>3. WritersExclude'
      BY <1>0, <2>1 DEF WritersExclude
    <2> QED
      BY <1>0, <2>1, <2>2, <2>3 DEF RevisionInvariant, RevisionNamesOneVersion, VersionsReached
  <1>2. ASSUME NEW f \in Fragments, NEW span \in Spans, PatchBegin(f, span)
        PROVE RevisionInvariant'
    <2>1. /\ UNCHANGED <<row, written, raced>>
          /\ open' = open \cup {[kind |-> "patch", changes |-> [g \in {f} |-> span],
                    revisions |-> [g \in {f} |-> row[g].revision + 1]]}
          /\ row[f].state = "live" /\ f \notin RowLocks
      BY <1>2 DEF PatchBegin, OpenPatch, Listed
    <2>2. WritersAreCurrent'
      BY <1>0, <2>1 DEF WritersAreCurrent
    <2>3. \A t \in open : t.kind = "patch" => f \notin DOMAIN t.changes
      BY <2>1 DEF RowLocks
    <2>4. WritersExclude'
      BY <1>0, <2>1, <2>3 DEF WritersExclude
    <2> QED
      BY <1>0, <2>1, <2>2, <2>4 DEF RevisionInvariant, RevisionNamesOneVersion, VersionsReached
  <1>3. ASSUME NEW t \in open, SaveCommit(t) \/ PatchCommit(t) PROVE RevisionInvariant'
    <2>1. WriteRows(t) /\ raced \subseteq raced'
      BY <1>3 DEF SaveCommit, PatchCommit
    <2>2. \A f \in Fragments : f \in DOMAIN t.changes => row'[f].revision = t.revisions[f]
      BY <1>0, <2>1, RowCommitted
    <2>3. \A f \in Fragments : f \notin DOMAIN t.changes => row'[f] = row[f]
      BY <2>1 DEF WriteRows
    <2>4. \A f \in DOMAIN t.changes : f \notin raced' => t.revisions[f] = row[f].revision + 1
      BY <1>0, <2>1 DEF WritersAreCurrent
    <2>5. RevisionNamesOneVersion' /\ VersionsReached'
      <3> DEFINE ids == DOMAIN t.changes
                 revisions == t.revisions
                 spans == t.changes
      <3>1. \A v \in written' : v \in written \/
                \E f \in ids : v = <<f, revisions[f], spans[f]>>
        BY <2>1 DEF WriteRows
      <3>2. \A f \in ids : f \notin raced' =>
                revisions[f] = row[f].revision + 1 /\ row'[f].revision = row[f].revision + 1
        BY <1>t, <2>2, <2>4
      <3>3. \A f \in Fragments \ ids : row'[f].revision = row[f].revision
        BY <2>3
      <3>4. ids \in SUBSET Fragments
        BY <1>t
      <3>5. raced \subseteq raced'
        BY <2>1
      <3> HIDE DEF ids, revisions, spans
      <3> QED
        BY <1>0, <3>1, <3>2, <3>3, <3>4, <3>5, NextVersions
    <2>6. \A u \in open' : /\ u \in open
                           /\ u.kind = "patch" => DOMAIN u.changes \cap DOMAIN t.changes = {}
      <3>1. open' = open \ {t}
        BY <2>1 DEF WriteRows
      <3>2. CASE SaveCommit(t)
        <4>1. \A u \in open : u.kind = "patch" => DOMAIN u.changes \subseteq RowLocks
          BY DEF RowLocks
        <4>2. DOMAIN t.changes \cap RowLocks = {}
          BY <3>2 DEF SaveCommit
        <4> QED
          BY <3>1, <4>1, <4>2
      <3>3. CASE PatchCommit(t)
        BY <1>0, <3>1, <3>3 DEF PatchCommit, WritersExclude
      <3> QED
        BY <1>3, <3>2, <3>3
    <2>7. \A u \in open' : \A f \in DOMAIN t.changes :
            u.kind = "save" /\ f \in DOMAIN u.changes => f \in raced'
      <3>1. open' = open \ {t}
        BY <2>1 DEF WriteRows
      <3>2. CASE SaveCommit(t)
        BY <1>0, <3>1, <3>2 DEF SaveCommit, WritersExclude
      <3>3. CASE PatchCommit(t)
        BY <3>1, <3>3 DEF PatchCommit, RaceSave
      <3> QED
        BY <1>3, <3>2, <3>3
    <2>8. WritersAreCurrent'
      BY <1>0, <1>t, <2>1, <2>3, <2>6, <2>7 DEF WritersAreCurrent
    <2>9. WritersExclude'
      BY <1>0, <2>6 DEF WritersExclude
    <2> QED
      BY <2>5, <2>8, <2>9 DEF RevisionInvariant
  <1>4. ASSUME NEW t \in open, Rollback(t) PROVE RevisionInvariant'
    BY <1>0, <1>4
    DEF Rollback, RevisionInvariant, WritersAreCurrent, WritersExclude,
        RevisionNamesOneVersion, VersionsReached
  <1>5. ASSUME NEW f \in Fragments, Restore(f) PROVE RevisionInvariant'
    <2>1. \A t \in open : t.kind = "patch" => f \notin DOMAIN t.changes
      BY <1>0, <1>5 DEF Restore, WritersAreCurrent
    <2>2. \A g \in Fragments : g # f => row'[g] = row[g]
      BY <1>0, <1>5 DEF Restore, TypeOK
    <2>3. row'[f].revision = row[f].revision + 1
      <3>1. row' = [row EXCEPT ![f] = [row[f] EXCEPT !.state = "live", !.undo = FALSE,
                                        !.revision = @ + 1, !.writer = "restore"]]
        BY <1>5 DEF Restore
      <3> QED
        BY <1>0, <3>1 DEF TypeOK
    <2>4. \A v \in written' : v \in written \/ v = <<f, row[f].revision + 1, row[f].span>>
      BY <1>5 DEF Restore
    <2>5. /\ UNCHANGED open /\ raced \subseteq raced'
          /\ \A t \in open : t.kind = "save" /\ f \in DOMAIN t.changes => f \in raced'
      BY <1>5 DEF Restore, RaceSave
    <2>6. RevisionNamesOneVersion' /\ VersionsReached'
      <3> DEFINE revisions == [g \in {f} |-> row[g].revision + 1]
                 spans == [g \in {f} |-> row[g].span]
      <3>1. \A v \in written' : v \in written \/
                \E g \in {f} : v = <<g, revisions[g], spans[g]>>
        BY <2>4
      <3>2. \A g \in {f} : g \notin raced' =>
                revisions[g] = row[g].revision + 1 /\ row'[g].revision = row[g].revision + 1
        BY <2>3
      <3>3. \A g \in Fragments \ {f} : row'[g].revision = row[g].revision
        BY <2>2
      <3>4. {f} \in SUBSET Fragments
        OBVIOUS
      <3> HIDE DEF revisions, spans
      <3> QED
        BY <1>0, <2>5, <3>1, <3>2, <3>3, <3>4, NextVersions
    <2>7. WritersAreCurrent'
      BY <1>0, <1>t, <2>1, <2>2, <2>5 DEF WritersAreCurrent
    <2>8. WritersExclude'
      BY <1>0, <2>5 DEF WritersExclude
    <2> QED
      BY <2>6, <2>7, <2>8 DEF RevisionInvariant
  <1>6. ASSUME NEW f \in Fragments, Delete(f) \/ UndoExpires(f) \/ Purge(f)
        PROVE RevisionInvariant'
    <2>1. \A t \in open : t.kind = "patch" => f \notin DOMAIN t.changes
      BY <1>0, <1>6 DEF Delete, UndoExpires, Purge, RowLocks, WritersAreCurrent
    <2>2. \A g \in Fragments : g # f => row'[g] = row[g]
      BY <1>0, <1>6 DEF Delete, UndoExpires, Purge, TypeOK
    <2>3. row'[f].revision = row[f].revision /\ UNCHANGED <<open, written, raced>>
      BY <1>0, <1>6 DEF Delete, UndoExpires, Purge, TypeOK
    <2>4. VersionsReached'
      BY <1>0, <2>2, <2>3 DEF VersionsReached, TypeOK
    <2>5. WritersAreCurrent'
      BY <1>0, <1>t, <2>1, <2>2, <2>3 DEF WritersAreCurrent
    <2> QED
      BY <1>0, <2>3, <2>4, <2>5 DEF RevisionInvariant, RevisionNamesOneVersion, WritersExclude
  <1>7. CASE UNCHANGED vars
    BY <1>0, <1>7
    DEF vars, RevisionInvariant, WritersAreCurrent, WritersExclude,
        RevisionNamesOneVersion, VersionsReached
  <1> QED
    BY <1>1, <1>2, <1>3, <1>4, <1>5, <1>6, <1>7 DEF Next

\* No two accepted writes of a fragment share a revision, but for fragments a patch or
\* a restore changed while a save was about to write them.
THEOREM RevisionsCorrect == Spec => []RevisionNamesOneVersion
  <1>1. Init => RevisionInvariant
    BY RevisionAssumption
    DEF Init, RevisionInvariant, TypeOK, Absent, RevisionNamesOneVersion, VersionsReached,
        WritersAreCurrent, WritersExclude
  <1>2. RevisionInvariant /\ TypeOK' /\ [Next]_vars => RevisionInvariant'
    BY RevisionStep
  <1>3. RevisionInvariant => RevisionNamesOneVersion
    BY DEF RevisionInvariant
  <1> QED
    BY <1>1, <1>2, <1>3, FragmentTypes, PTL DEF Spec

----------------------------------------------------------------------------
(* The overlap rule of saves.  Between the list a save validates and its    *)
(* writes the rows change, but no step other than a save's commit adds a    *)
(* fragment to those saves wrote, and the lock admits one save at a time.   *)

\* The fragments a save wrote last that play at an instant: now, and once t commits.
SavedAt(instant) == {f \in Listed : row[f].writer = "save" /\ instant \in row[f].span}
SavedAfter(t, instant) ==
    {f \in Fragments :
        IF f \in DOMAIN t.changes THEN instant \in t.changes[f] ELSE f \in SavedAt(instant)}

OneSave == \A t, u \in open : t.kind = "save" /\ u.kind = "save" => t = u

SavesWillKeep ==
    \A t \in open : t.kind = "save" =>
        \A instant \in UNION Spans : Cardinality(SavedAfter(t, instant)) <= 2

OverlapInvariant == SavesKeepOverlapBound /\ OneSave /\ SavesWillKeep

\* A part of a set of at most two fragments holds at most two.
LEMMA FewerPlay ==
    ASSUME NEW S \in SUBSET Fragments, NEW T \in SUBSET S, Cardinality(S) <= 2
    PROVE  Cardinality(T) <= 2
  <1>1. IsFiniteSet(S)
    BY FragmentsAssumption, FS_Subset
  <1>2. IsFiniteSet(T) /\ Cardinality(T) <= Cardinality(S)
    BY <1>1, FS_Subset
  <1>3. Cardinality(S) \in Nat /\ Cardinality(T) \in Nat
    BY <1>1, <1>2, FS_CardinalityType
  <1> QED
    BY <1>2, <1>3

\* The invariant needs only that no save opens and that saves wrote no more fragments.
LEMMA NoMoreSaved ==
    ASSUME OverlapInvariant,
           \A t \in open' : t.kind = "save" => t \in open,
           \A instant \in UNION Spans : SavedAt(instant)' \subseteq SavedAt(instant)
    PROVE  OverlapInvariant'
  <1>1. OneSave'
    BY DEF OverlapInvariant, OneSave
  <1>2. ASSUME NEW instant \in UNION Spans PROVE Cardinality(SavedAt(instant)') <= 2
    <2>1. SavedAt(instant) \in SUBSET Fragments /\ Cardinality(SavedAt(instant)) <= 2
      BY DEF OverlapInvariant, SavesKeepOverlapBound, SavedAt, Listed
    <2>2. SavedAt(instant)' \in SUBSET SavedAt(instant)
      OBVIOUS
    <2> HIDE DEF SavedAt
    <2> QED
      BY <2>1, <2>2, FewerPlay
  <1>3. ASSUME NEW t \in open', t.kind = "save", NEW instant \in UNION Spans
        PROVE  Cardinality(SavedAfter(t, instant)') <= 2
    <2>1. /\ SavedAfter(t, instant) \in SUBSET Fragments
          /\ Cardinality(SavedAfter(t, instant)) <= 2
      BY <1>3 DEF OverlapInvariant, SavesWillKeep, SavedAfter
    <2>2. SavedAfter(t, instant)' \in SUBSET SavedAfter(t, instant)
      BY DEF SavedAfter
    <2> QED
      BY <2>1, <2>2, FewerPlay
  <1>4. SavesKeepOverlapBound'
    BY <1>2 DEF SavesKeepOverlapBound, SavedAt
  <1>5. SavesWillKeep'
    BY <1>3 DEF SavesWillKeep
  <1> QED
    BY <1>1, <1>4, <1>5 DEF OverlapInvariant

\* A save that opens has validated a set that holds all its commit can leave.
LEMMA SaveBeginKeeps ==
    ASSUME TypeOK, OverlapInvariant, NEW changes \in Requests, SaveBegin(changes)
    PROVE  OverlapInvariant'
  <1> DEFINE save == [kind |-> "save", changes |-> changes,
                      revisions |-> [f \in DOMAIN changes |-> row[f].revision + 1]]
  <1>1. /\ UNCHANGED row
        /\ open' = open \cup {save}
        /\ \A t \in open : t.kind # "save"
        /\ ValidateFragmentSet(Merged(changes))
    BY DEF SaveBegin, OpenSave, VideoLocked
  <1>2. SavesKeepOverlapBound'
    BY <1>1 DEF OverlapInvariant, SavesKeepOverlapBound, Listed
  <1>3. OneSave'
    BY <1>1 DEF OneSave
  <1>4. ASSUME NEW instant \in UNION Spans
        PROVE  Cardinality(SavedAfter(save, instant)) <= 2
    <2> DEFINE playing == {f \in DOMAIN Merged(changes) : instant \in Merged(changes)[f]}
    <2>1. DOMAIN changes \subseteq Fragments
      BY RequestType
    <2>2. playing \in SUBSET Fragments /\ Cardinality(playing) <= 2
      BY <1>1, <2>1 DEF ValidateFragmentSet, Merged, Listed
    <2>3. SavedAfter(save, instant) \in SUBSET playing
      BY DEF SavedAfter, SavedAt, Merged
    <2> HIDE DEF playing, save
    <2> QED
      BY <2>2, <2>3, FewerPlay
  <1>5. ASSUME NEW t \in open', t.kind = "save", NEW instant \in UNION Spans
        PROVE  Cardinality(SavedAfter(t, instant)') <= 2
    <2>1. t = save
      BY <1>1, <1>5
    <2>2. SavedAfter(t, instant)' = SavedAfter(t, instant)
      BY <1>1 DEF SavedAfter, SavedAt, Listed
    <2> HIDE DEF save
    <2> QED
      BY <1>4, <2>1, <2>2
  <1>6. SavesWillKeep'
    BY <1>5 DEF SavesWillKeep
  <1> QED
    BY <1>2, <1>3, <1>6 DEF OverlapInvariant

\* A save that commits leaves what it promised, and no save open.
LEMMA SaveCommitKeeps ==
    ASSUME TypeOK, OverlapInvariant, NEW t \in open, SaveCommit(t)
    PROVE  OverlapInvariant'
  <1>1. /\ WriteRows(t) /\ t.kind = "save" /\ open' = open \ {t}
    BY DEF SaveCommit, WriteRows
  <1>2. \A u \in open' : u.kind # "save"
    BY <1>1 DEF OverlapInvariant, OneSave
  <1>3. ASSUME NEW instant \in UNION Spans PROVE Cardinality(SavedAt(instant)') <= 2
    <2>1. /\ SavedAfter(t, instant) \in SUBSET Fragments
          /\ Cardinality(SavedAfter(t, instant)) <= 2
      BY <1>1 DEF OverlapInvariant, SavesWillKeep, SavedAfter
    <2>2. ASSUME NEW f \in Fragments, f \in SavedAt(instant)'
          PROVE  f \in SavedAfter(t, instant)
      <3>1. CASE f \notin DOMAIN t.changes
        BY <1>1, <2>2, <3>1 DEF WriteRows, SavedAfter, SavedAt, Listed
      <3>2. CASE f \in DOMAIN t.changes
        BY <1>1, <2>2, <3>2, RowCommitted DEF SavedAfter, SavedAt
      <3> QED
        BY <3>1, <3>2
    <2>3. SavedAt(instant)' \in SUBSET SavedAfter(t, instant)
      BY <2>2 DEF SavedAt, Listed
    <2> QED
      BY <2>1, <2>3, FewerPlay
  <1>4. SavesKeepOverlapBound'
    BY <1>3 DEF SavesKeepOverlapBound, SavedAt
  <1> QED
    BY <1>2, <1>4 DEF OverlapInvariant, OneSave, SavesWillKeep

\* A write of another kind, or a deletion, takes a fragment from those saves wrote.
LEMMA OthersKeep ==
    ASSUME TypeOK, OverlapInvariant,
           NEW ids \in SUBSET Fragments,
           \A t \in open' : t.kind = "save" => t \in open,
           \A f \in Fragments \ ids : row'[f] = row[f],
           \A f \in ids : row'[f].writer # "save" \/ row'[f].state # "live"
    PROVE  OverlapInvariant'
  <1>1. \A instant \in UNION Spans : SavedAt(instant)' \subseteq SavedAt(instant)
    BY DEF SavedAt, Listed
  <1> QED
    BY <1>1, NoMoreSaved

\* A step keeps the invariant.
LEMMA OverlapStep ==
    ASSUME TypeOK, OverlapInvariant, [Next]_vars
    PROVE  OverlapInvariant'
  <1>1. ASSUME NEW changes \in Requests, SaveBegin(changes) PROVE OverlapInvariant'
    BY <1>1, SaveBeginKeeps
  <1>2. ASSUME NEW f \in Fragments, NEW span \in Spans, PatchBegin(f, span)
        PROVE OverlapInvariant'
    <2>1. \A t \in open' : t.kind = "save" => t \in open
      BY <1>2 DEF PatchBegin, OpenPatch
    <2>2. \A instant \in UNION Spans : SavedAt(instant)' \subseteq SavedAt(instant)
      BY <1>2 DEF PatchBegin, SavedAt, Listed
    <2> QED
      BY <2>1, <2>2, NoMoreSaved
  <1>3. ASSUME NEW t \in open, SaveCommit(t) PROVE OverlapInvariant'
    BY <1>3, SaveCommitKeeps
  <1>4. ASSUME NEW t \in open, PatchCommit(t) PROVE OverlapInvariant'
    <2>1. WriteRows(t) /\ t.kind = "patch"
      BY <1>4 DEF PatchCommit
    <2>2. \A u \in open' : u.kind = "save" => u \in open
      BY <2>1 DEF WriteRows
    <2>3. \A f \in Fragments \ DOMAIN t.changes : row'[f] = row[f]
      BY <2>1 DEF WriteRows
    <2>4. DOMAIN t.changes \in SUBSET Fragments
      BY TransactionType
    <2>5. ASSUME NEW f \in DOMAIN t.changes PROVE row'[f].writer # "save"
      BY <2>1, RowCommitted
    <2> QED
      BY <2>2, <2>3, <2>4, <2>5, OthersKeep
  <1>5. ASSUME NEW t \in open, Rollback(t) PROVE OverlapInvariant'
    <2>1. \A u \in open' : u.kind = "save" => u \in open
      BY <1>5 DEF Rollback
    <2>2. \A instant \in UNION Spans : SavedAt(instant)' \subseteq SavedAt(instant)
      BY <1>5 DEF Rollback, SavedAt, Listed
    <2> QED
      BY <2>1, <2>2, NoMoreSaved
  <1>6. ASSUME NEW f \in Fragments, Delete(f) \/ Restore(f) \/ UndoExpires(f) \/ Purge(f)
        PROVE OverlapInvariant'
    <2>1. \A t \in open' : t.kind = "save" => t \in open
      BY <1>6 DEF Delete, Restore, UndoExpires, Purge
    <2>2. \A g \in Fragments \ {f} : row'[g] = row[g]
      BY <1>6 DEF Delete, Restore, UndoExpires, Purge, TypeOK
    <2>3. row'[f].writer # "save" \/ row'[f].state # "live"
      BY <1>6 DEF Delete, Restore, UndoExpires, Purge, TypeOK
    <2>4. {f} \in SUBSET Fragments /\ \A g \in {f} : g = f
      OBVIOUS
    <2>5. \A g \in {f} : row'[g].writer # "save" \/ row'[g].state # "live"
      BY <2>3
    <2> QED
      BY <2>1, <2>2, <2>4, <2>5, OthersKeep
  <1>7. CASE UNCHANGED vars
    <2>1. \A u \in open' : u.kind = "save" => u \in open
      BY <1>7 DEF vars
    <2>2. \A instant \in UNION Spans : SavedAt(instant)' \subseteq SavedAt(instant)
      BY <1>7 DEF vars, SavedAt, Listed
    <2> QED
      BY <2>1, <2>2, NoMoreSaved
  <1> QED
    BY <1>1, <1>2, <1>3, <1>4, <1>5, <1>6, <1>7 DEF Next

\* However patches, deletions, restores and purges interleave with saves, at most two
\* of the fragments saves wrote last play at any instant.
THEOREM OverlapCorrect == Spec => []SavesKeepOverlapBound
  <1>1. Init => OverlapInvariant
    <2> SUFFICES ASSUME Init PROVE OverlapInvariant
      OBVIOUS
    <2>1. open = {} /\ Listed = {}
      BY DEF Init, Absent, Listed
    <2>2. ASSUME NEW instant \in UNION Spans
          PROVE {f \in Listed : row[f].writer = "save" /\ instant \in row[f].span} = {}
      BY <2>1
    <2>3. Cardinality({}) <= 2
      BY FS_EmptySet
    <2> QED
      BY <2>1, <2>2, <2>3 DEF OverlapInvariant, SavesKeepOverlapBound, OneSave, SavesWillKeep
  <1>2. TypeOK /\ OverlapInvariant /\ [Next]_vars => OverlapInvariant'
    BY OverlapStep
  <1>3. OverlapInvariant => SavesKeepOverlapBound
    BY DEF OverlapInvariant
  <1> QED
    BY <1>1, <1>2, <1>3, FragmentTypes, PTL DEF Spec
=============================================================================
