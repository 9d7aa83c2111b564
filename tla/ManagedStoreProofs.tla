-------------------------- MODULE ManagedStoreProofs --------------------------
(***************************************************************************)
(* Proofs about ManagedStore for any projects, any sources and any number   *)
(* of failing writes, crashes and damaged folders.                          *)
(*                                                                         *)
(* The inductive invariant says, of every moment, what the journal and the   *)
(* commit in progress hold (JournalHolds, GoalHolds), where the operation of  *)
(* the queue has left its project (ImportHolds, DeletionHolds), and what the   *)
(* recovery would find (Whole).                                                *)
(*                                                                         *)
(* And about ProjectDocuments, the document of one project of that store, for  *)
(* any fragments, tags and editors: an old document that an editor still holds *)
(* keeps the rules too, so saving it whole cannot break them (HeldFits).       *)
(***************************************************************************)
EXTENDS ManagedStore, ProjectDocuments, FiniteSetTheorems, TLAPS

Phases == {"none", "prepared", "committed"}
Places == {"none", "importing", "managed", "tombstone"}
Kinds == {"idle", "down", "startup", "import", "delete"}
Points == {"none", "catalog", "tombstones", "sweep", "markers", "library", "reopen", "discard",
           "staged", "index", "rename", "remove"}
CommitPoints == {"none", "prepare", "library", "workspace", "seal", "remove", "clear", "ok", "threw"}
Outcomes == {"none", "ok", "prepare", "sealed", "threw"}

StoreTypeOK ==
    /\ disk \in Docs
    /\ journal \in [phase : Phases, before : Docs]
    /\ place \in [Projects -> Places]
    /\ marker \subseteq Projects
    /\ origin \in [Projects -> Sources \cup {Free}]
    /\ damaged \subseteq Projects
    /\ op \in [kind : Kinds, project : Projects \cup {Free}, at : Points, docs : Docs]
    /\ commit \in [at : CommitPoints, then : Outcomes, docs : Docs, goal : Docs]
    /\ exposed \in Docs \cup {Free}
    /\ spent \in Nat

\* The points of an operation at which it waits for a commit, and those at which none runs.
Committing == {"reopen", "discard", "index", "remove"}
Alone == {"none", "tombstones", "sweep", "library", "staged", "rename"}

\* Which operation is at which point.
ControlHolds ==
    /\ op.kind = "idle" => op = Idle
    /\ op.kind = "down" => op = Down
    /\ op.at = "none" => op.kind \in {"idle", "down"}
    /\ op.kind = "startup" => op.at \in {"catalog", "tombstones", "sweep", "markers"}
    /\ op.at \in {"catalog", "tombstones", "sweep", "markers"} => op.kind \in {"startup", "import"}
    /\ op.at = "tombstones" => op.kind = "startup"
    /\ op.at \in {"library", "staged", "reopen", "discard", "index"} => op.kind = "import"
    /\ op.at \in {"rename", "remove"} => op.kind = "delete"
    /\ op.kind \in {"import", "delete"} => op.project \in Projects
    /\ commit.at = "none" => commit = NoCommit
    /\ op.at \in Alone => commit = NoCommit
    /\ op.at = "catalog" => commit.then = "ok" /\ commit.at \notin {"none", "prepare", "seal", "clear"}
    /\ op.at \in Committing => commit.at # "none"
    /\ op.at \in Committing \cup {"markers"} => commit.then # "ok"

\* What the commit in progress has made of the journal: rolling back, it has the
\* documents as they were; going forward, those it will commit.
JournalHolds ==
    /\ commit.then = "none" => commit.at \in {"none", "threw"}
    /\ commit.at = "prepare" => journal.phase = "none" /\ commit.then = "prepare"
    /\ commit.at = "ok" => journal.phase # "prepared" /\ commit.then \in {"ok", "sealed"}
    /\ commit.at = "remove" => commit.then # "sealed"
    /\ commit.at \in {"seal", "clear"} => commit.then = "sealed"
    /\ commit.at = "clear" => journal.phase = "committed"
    /\ op.at \in Alone \ {"none", "rename"} => journal.phase # "prepared"
    /\ op.at = "markers" /\ commit.at = "none" => journal.phase # "prepared"
    /\ exposed = Free =>
        /\ op.at = "rename" => journal.phase # "prepared"
        /\ commit.at \in {"library", "workspace"} =>
             /\ journal.phase = "prepared"
             /\ commit.docs = IF commit.then = "sealed" THEN commit.goal ELSE journal.before
        /\ commit.at = "workspace" => disk.known = commit.docs.known
        /\ commit.at = "remove" /\ journal.phase = "prepared" => disk = journal.before
        /\ commit.at = "seal" => journal.phase = "prepared" /\ disk = commit.goal
        /\ commit.at = "clear" \/ (commit.at = "ok" /\ commit.then = "sealed") => disk = commit.goal

\* A commit that has not passed its commit point.
Unsealed == commit.at \notin {"none", "clear", "ok"}

\* Folders that the next recovery would bring into the library.
Loose(p) == place[p] = "managed" /\ p \notin Lasting.known \cup damaged
Same(p, q) == origin[p] = origin[q]

\* What the commit of each operation will do to the lasting documents, and has done
\* once it is past its commit point.
GoalHolds ==
    /\ op.at = "reopen" /\ Unsealed =>
         \E p \in Lasting.known :
            commit.goal = [known |-> Lasting.known, opened |-> Lasting.opened \cup {p}]
    /\ op.at = "discard" =>
         /\ commit.goal = op.docs
         /\ Unsealed => \E p \in Lasting.known : ~ Usable(p) /\ op.docs = Without(Lasting, p)
    /\ op.at = "markers" /\ commit.at # "none" =>
         \E p \in Projects :
            /\ op.docs = Indexed(p)
            /\ p \in commit.goal.known
            /\ Unsealed =>
                /\ Loose(p) /\ p \in marker /\ ~ \E q \in Lasting.known : Same(q, p)
                /\ commit.goal = Joined(Lasting, p)
    /\ op.at = "index" /\ commit.then # "none" =>
         /\ op.project \in commit.goal.known
         /\ Unsealed => commit.goal = Joined(Lasting, op.project)
    /\ op.at = "remove" =>
         /\ op.project \notin commit.goal.known
         /\ Unsealed => commit.goal = Without(Lasting, op.project)

\* Where an import has left its project, and that no other folder is loose meanwhile.
ImportHolds ==
    /\ op.kind = "import" /\ op.at \notin {"staged", "index"} => place[op.project] = "none"
    /\ op.at = "staged" => place[op.project] = "importing"
    /\ op.at = "index" => place[op.project] \in {"importing", "managed"}
    /\ op.at = "index" /\ commit.then # "none" => place[op.project] = "managed"
    /\ op.at \in {"staged", "index"} => op.project \in marker
    /\ op.at \in {"library", "staged"} => op.docs = disk
    /\ op.at = "staged" \/ (op.at = "index" /\ Unsealed) =>
         /\ op.project \notin Lasting.known
         /\ ~ \E q \in Lasting.known : Same(q, op.project)
    /\ op.at \in {"library", "staged", "reopen", "discard"} => \A p \in Projects : ~ Loose(p)
    /\ op.at = "index" => \A p \in Projects \ {op.project} : ~ Loose(p)

DeletionHolds ==
    /\ op.at = "rename" => op.docs = disk /\ op.project \in Lasting.known
    /\ op.at = "remove" => place[op.project] = "tombstone"
    /\ op.at = "remove" /\ Unsealed => op.project \in Lasting.known

\* Two folders are never loose together, so that one does not keep the other out.
OneIsLoose == \A p, q \in Projects : Loose(p) /\ Loose(q) => p = q

Whole ==
    /\ Lasting.opened \subseteq Lasting.known
    /\ \A p \in Lasting.known : place[p] \in {"managed", "tombstone"}
    /\ \A p \in Projects : Loose(p) => p \in marker /\ ~ \E q \in Lasting.known : Same(q, p)

ProjectsHold == GoalHolds /\ ImportHolds /\ DeletionHolds /\ OneIsLoose /\ Whole

StoreInv ==
    /\ StoreTypeOK
    /\ ControlHolds
    /\ JournalHolds
    /\ exposed = Free => ProjectsHold

----------------------------------------------------------------------------
(* Types and control.                                                      *)

LEMMA InitHolds == StoreInit => StoreInv
  <1> SUFFICES ASSUME StoreInit PROVE StoreInv
    OBVIOUS
  <1> USE DEF StoreInit, NoDocs, NoJournal, NoCommit, Idle, Docs
  <1>1. StoreTypeOK
    BY DEF StoreTypeOK, Phases, Places, Kinds, Points, CommitPoints, Outcomes
  <1>2. ControlHolds /\ JournalHolds
    BY DEF ControlHolds, JournalHolds, Alone, Committing
  <1>3. GoalHolds /\ ImportHolds /\ DeletionHolds /\ OneIsLoose /\ Whole
    BY DEF GoalHolds, ImportHolds, DeletionHolds, OneIsLoose, Whole, Lasting, Loose, Unsealed
  <1> QED
    BY <1>1, <1>2, <1>3 DEF StoreInv, ProjectsHold

\* What a call of the commit or of recoverUnlocked starts.
LEMMA RecoverTypes ==
    ASSUME StoreTypeOK, NEW then \in {"ok", "prepare"}, NEW goal \in Docs, Recover(then, goal)
    PROVE  /\ commit' \in [at : CommitPoints, then : Outcomes, docs : Docs, goal : Docs]
           /\ commit'.then = then /\ commit'.goal = goal /\ commit'.docs = journal.before
           /\ commit'.at = CASE journal.phase = "prepared" -> "library"
                             [] journal.phase = "committed" -> "remove"
                             [] OTHER -> then
  BY DEF StoreTypeOK, Recover, CommitPoints, Outcomes, Phases

LEMMA TypeStep == StoreTypeOK /\ ControlHolds /\ JournalHolds /\ StoreNext => StoreTypeOK'
  <1> SUFFICES ASSUME StoreTypeOK, ControlHolds, JournalHolds, StoreNext PROVE StoreTypeOK'
    OBVIOUS
  <1> USE DEF StoreTypeOK, Phases, Places, Kinds, Points, CommitPoints, Outcomes
  <1>0. /\ NoDocs \in Docs /\ Lasting \in Docs
        /\ \A known, shown : known \subseteq Projects /\ shown \subseteq Projects
             <=> [known |-> known, opened |-> shown] \in Docs
        /\ \A docs \in Docs : docs.known \subseteq Projects /\ docs.opened \subseteq Projects
    BY DEF NoDocs, Docs, Lasting
  <1>1. CASE Prepare
    <2>1. journal' \in [phase : Phases, before : Docs]
      BY <1>1 DEF Prepare
    <2>2. commit' \in [at : CommitPoints, then : Outcomes, docs : Docs, goal : Docs]
      BY <1>1 DEF Prepare
    <2> QED
      BY <1>1, <2>1, <2>2 DEF Prepare, Fault, Unexposed, Quietly
  <1>2. CASE SaveLibrary \/ SaveWorkspace
    <2>1. disk' \in Docs
      BY <1>2 DEF SaveLibrary, SaveWorkspace, Docs
    <2>2. commit' \in [at : CommitPoints, then : Outcomes, docs : Docs, goal : Docs]
      BY <1>2 DEF SaveLibrary, SaveWorkspace, AfterWorkspace, WriteThrows, Rollback
    <2> QED
      BY <1>2, <2>1, <2>2 DEF SaveLibrary, SaveWorkspace, Fault, Unexposed, Quietly
  <1>3. CASE Seal
    <2>1. commit' \in [at : CommitPoints, then : Outcomes, docs : Docs, goal : Docs]
      BY <1>3 DEF Seal, WriteThrows, Rollback
    <2>2. journal' \in [phase : Phases, before : Docs]
      BY <1>3 DEF Seal
    <2> QED
      BY <1>0, <1>3, <2>1, <2>2 DEF Seal, Fault, Quietly
  <1>13. CASE RemoveJournal
    BY <1>0, <1>13 DEF RemoveJournal, NoJournal, Fault, Unexposed, Quietly, JournalHolds
  <1>14. CASE Crash
    BY <1>0, <1>14 DEF Crash, Down, Idle, NoCommit, Fault
  <1>15. CASE Startup
    BY <1>0, <1>15, RecoverTypes DEF Startup, Idle
  <1>4. CASE CatalogRecovered \/ Sweep \/ TombstonesDone
    BY <1>0, <1>4 DEF CatalogRecovered, Sweep, TombstonesDone, GiveUp, Down, Idle, NoCommit, Fault
  <1>5. CASE Reconciled \/ MarkersDone
    <2>1. CASE Reconciled
      BY <1>0, <2>1 DEF Reconciled, GiveUp, Down, Idle, NoCommit
    <2>2. CASE MarkersDone
      <3>1. marker' \subseteq Projects
        BY <2>2 DEF MarkersDone, Pending
      <3> QED
        BY <1>0, <2>2, <3>1 DEF MarkersDone, Idle
    <2> QED
      BY <1>5, <2>1, <2>2
  <1>6. CASE DuplicateHandled \/ Imported \/ ImportFails
    BY <1>0, <1>6 DEF DuplicateHandled, Imported, ImportFails, Idle, NoCommit, Fault, Running
  <1>7. CASE Stage \/ Promote
    <2>1. op.project \in Projects
      BY <1>7 DEF Stage, Promote, Running, ControlHolds
    <2>2. [known |-> op.docs.known \cup {op.project},
           opened |-> disk.opened \cup {op.project}] \in Docs
      BY <1>0, <2>1
    <2> QED
      BY <1>0, <1>7, <2>1, <2>2, RecoverTypes
      DEF Stage, Promote, Commit, Idle, NoCommit, Fault, Running
  <1>8. CASE Bury \/ Deleted \/ DeleteFails
    <2>1. Without(op.docs, op.project) \in Docs
      BY <1>0 DEF Without
    <2> QED
      BY <1>0, <1>8, <2>1, RecoverTypes
      DEF Bury, Deleted, DeleteFails, Commit, Idle, NoCommit, Fault, Running
  <1>9. ASSUME NEW p \in Projects, Reconcile(p) \/ ReopenDuplicate(p)
        PROVE  StoreTypeOK'
    <2>1. /\ Joined(disk, p) \in Docs /\ Indexed(p) \in Docs /\ Without(op.docs, p) \in Docs
          /\ [known |-> op.docs.known, opened |-> disk.opened \cup {p}] \in Docs
          /\ [known |-> op.docs.known \ {p}, opened |-> disk.opened \ {p}] \in Docs
      BY <1>0 DEF Joined, Indexed, Without
    <2>2. CASE Reconcile(p)
      BY <1>0, <2>1, <2>2, RecoverTypes DEF Reconcile, Commit, GiveUp, Down, Idle, NoCommit
    <2>3. CASE ReopenDuplicate(p)
      <3>1. CASE Usable(p)
        BY <2>1, <2>3, <3>1, RecoverTypes DEF ReopenDuplicate, Commit
      <3>2. CASE ~ Usable(p)
        BY <2>1, <2>3, <3>2, RecoverTypes DEF ReopenDuplicate, Commit
      <3> QED
        BY <3>1, <3>2
    <2> QED
      BY <1>9, <2>2, <2>3
  <1>10. ASSUME NEW p \in Projects, Delete(p) \/ RecoverTombstone(p) \/ Damage(p)
         PROVE  StoreTypeOK'
    BY <1>0, <1>10
    DEF Delete, RecoverTombstone, Damage, Home, GiveUp, Down, Idle, NoCommit, Fault
  <1>11. ASSUME NEW p \in Projects, OpenProject(p) \/ CloseProject(p)
         PROVE  StoreTypeOK'
    BY <1>11 DEF OpenProject, CloseProject, SaveOpened, Docs
  <1>12. ASSUME NEW p \in Projects, NEW source \in Sources, Import(p, source)
         PROVE  StoreTypeOK'
    BY <1>0, <1>12, RecoverTypes DEF Import, Begin, Idle
  <1> QED
    BY <1>1, <1>2, <1>3, <1>4, <1>5, <1>6, <1>7, <1>8, <1>9, <1>10, <1>11, <1>12, <1>13, <1>14, <1>15 DEF StoreNext

\* A step of the commit alone keeps the control of the operation it serves.
LEMMA QuietControl ==
    ASSUME StoreTypeOK, ControlHolds, op' = op, commit.at # "none", commit'.at # "none",
           op.at = "catalog" =>
             commit'.then = "ok" /\ commit'.at \notin {"none", "prepare", "seal", "clear"},
           commit.then # "ok" => commit'.then # "ok"
    PROVE  ControlHolds' /\ op.at \notin Alone
  <1>1. op.at \notin Alone
    BY DEF ControlHolds, NoCommit
  <1> QED
    BY <1>1 DEF ControlHolds, Committing, Alone, Idle, Down

\* Every action leaves the control of the operation and of its commit in step, and the
\* journal as that commit left it.
LEMMA ControlStep ==
    StoreTypeOK /\ ControlHolds /\ JournalHolds /\ StoreNext => ControlHolds' /\ JournalHolds'
  <1> SUFFICES ASSUME StoreTypeOK, ControlHolds, JournalHolds, StoreNext
               PROVE  ControlHolds' /\ JournalHolds'
    OBVIOUS
  <1> USE DEF StoreTypeOK, JournalHolds
  <1>0. Lasting \in Docs /\ Lasting # Free
    BY FreeAssumption DEF Lasting
  <1>1. CASE Prepare
    <2>1. /\ commit.at = "prepare" /\ commit.then = "prepare" /\ op' = op
          /\ disk' = disk /\ exposed' = exposed
      BY <1>1 DEF Prepare, Quietly, Unexposed
    <2>2. \/ /\ journal' = [phase |-> "prepared", before |-> disk]
             /\ commit'.at = "library" /\ commit'.then = "sealed"
             /\ commit'.docs = commit.goal /\ commit'.goal = commit.goal
          \/ commit'.at = "threw" /\ commit'.then = commit.then
      BY <1>1 DEF Prepare
    <2>3. op.at # "catalog"
      BY <2>1 DEF ControlHolds
    <2>4. ControlHolds' /\ op.at \notin Alone
      BY <2>1, <2>2, <2>3, QuietControl
    <2>5. JournalHolds'
      BY <2>1, <2>2, <2>4 DEF Alone
    <2> QED
      BY <2>4, <2>5
  <1>2. CASE SaveLibrary
    <2>1. /\ commit.at = "library" /\ op' = op /\ exposed' = exposed /\ journal' = journal
          /\ commit'.goal = commit.goal
      BY <1>2 DEF SaveLibrary, Quietly, Unexposed, WriteThrows, Rollback
    <2>2. \/ /\ disk'.known = commit.docs.known
             /\ commit'.at = "workspace" /\ commit'.then = commit.then /\ commit'.docs = commit.docs
          \/ commit'.at = "threw" /\ commit'.then = commit.then /\ commit.then # "sealed"
          \/ /\ commit'.at = "library" /\ commit'.then = "threw" /\ commit.then = "sealed"
             /\ commit'.docs = journal.before
      BY <1>2 DEF SaveLibrary, WriteThrows, Rollback, Docs
    <2>3. op.at = "catalog" => commit.then = "ok"
      BY DEF ControlHolds
    <2>4. ControlHolds' /\ op.at \notin Alone
      BY <2>1, <2>2, <2>3, QuietControl
    <2>5. JournalHolds'
      BY <2>1, <2>2, <2>3, <2>4 DEF Alone
    <2> QED
      BY <2>4, <2>5
  <1>3. CASE SaveWorkspace
    <2>1. /\ commit.at = "workspace" /\ op' = op /\ exposed' = exposed /\ journal' = journal
          /\ commit'.goal = commit.goal
      BY <1>3 DEF SaveWorkspace, Quietly, Unexposed, WriteThrows, Rollback
    <2>2. \/ /\ disk' = [known |-> disk.known, opened |-> commit.docs.opened]
             /\ commit'.at = IF commit.then = "sealed" THEN "seal" ELSE "remove"
             /\ commit'.then = commit.then /\ commit'.docs = commit.docs
          \/ commit'.at = "threw" /\ commit'.then = commit.then /\ commit.then # "sealed"
          \/ /\ commit'.at = "library" /\ commit'.then = "threw" /\ commit.then = "sealed"
             /\ commit'.docs = journal.before
      BY <1>3 DEF SaveWorkspace, AfterWorkspace, WriteThrows, Rollback, Docs
    <2>3. op.at = "catalog" => commit.then = "ok"
      BY DEF ControlHolds
    <2>4. ControlHolds' /\ op.at \notin Alone
      BY <2>1, <2>2, <2>3, QuietControl
    <2>6. commit.docs = [known |-> commit.docs.known, opened |-> commit.docs.opened]
      BY DEF Docs
    <2>5. JournalHolds'
      BY <2>1, <2>2, <2>3, <2>4, <2>6 DEF Alone
    <2> QED
      BY <2>4, <2>5
  <1>4. CASE Seal
    <2>1. /\ commit.at = "seal" /\ commit.then = "sealed" /\ op' = op /\ disk' = disk
          /\ commit'.goal = commit.goal
      BY <1>4 DEF Seal, Quietly, WriteThrows, Rollback
    <2>2. \/ /\ journal'.phase = "committed" /\ exposed' = exposed
             /\ commit'.at = "clear" /\ commit'.then = commit.then
          \/ /\ journal' = journal /\ exposed' = exposed
             /\ commit'.at = "library" /\ commit'.then = "threw" /\ commit'.docs = journal.before
          \/ /\ exposed' # Free /\ commit'.at = "library" /\ commit'.then = "threw"
      <3>1. WriteThrows =>
              commit'.at = "library" /\ commit'.then = "threw" /\ commit'.docs = journal.before
        BY <2>1 DEF WriteThrows, Rollback
      <3>2. exposed' = (IF exposed = Free THEN Lasting ELSE exposed) => exposed' # Free
        BY <1>0
      <3>3. commit' = [commit EXCEPT !.at = "clear"] => commit'.at = "clear" /\ commit'.then = commit.then
        OBVIOUS
      <3>4. journal' = [journal EXCEPT !.phase = "committed"] => journal'.phase = "committed"
        OBVIOUS
      <3> QED
        BY <1>4, <3>1, <3>2, <3>3, <3>4 DEF Seal
    <2>3. op.at # "catalog"
      BY <2>1 DEF ControlHolds
    <2>4. ControlHolds' /\ op.at \notin Alone
      BY <2>1, <2>2, <2>3, QuietControl
    <2>5. JournalHolds'
      BY <2>1, <2>2, <2>4 DEF Alone
    <2> QED
      BY <2>4, <2>5
  <1>5. CASE RemoveJournal
    <2>1. /\ commit.at \in {"remove", "clear"} /\ op' = op /\ disk' = disk /\ exposed' = exposed
          /\ commit'.goal = commit.goal /\ commit'.then = commit.then
      BY <1>5 DEF RemoveJournal, Quietly, Unexposed
    <2>2. \/ commit.at = "clear" /\ commit'.at = "ok" /\ journal'.phase \in {"none", journal.phase}
          \/ commit.at = "remove" /\ commit'.at = "threw"
          \/ commit.at = "remove" /\ commit'.at = commit.then /\ journal'.phase = "none"
      BY <1>5 DEF RemoveJournal, NoJournal
    <2>3. op.at = "catalog" => commit.then = "ok"
      BY DEF ControlHolds
    <2>4. ControlHolds' /\ op.at \notin Alone
      BY <2>1, <2>2, <2>3, QuietControl
    <2>5. JournalHolds'
      BY <2>1, <2>2, <2>3, <2>4 DEF Alone, Outcomes
    <2> QED
      BY <2>4, <2>5
  <1> USE DEF ControlHolds, Alone, Committing
  <1>6. CASE CatalogRecovered \/ Sweep \/ TombstonesDone
    <2>1. ControlHolds'
      BY <1>6 DEF CatalogRecovered, Sweep, TombstonesDone, GiveUp, Down, Idle, NoCommit, Running, AtStartup, Returned, Threw
    <2>2. JournalHolds'
      BY <1>6 DEF CatalogRecovered, Sweep, TombstonesDone, GiveUp, Down, Idle, NoCommit, Running, AtStartup, Returned, Threw
    <2> QED
      BY <2>1, <2>2
  <1>7. CASE Reconciled \/ MarkersDone
    <2>1. CASE Reconciled
      <3>1. ControlHolds'
        BY <2>1 DEF Reconciled, GiveUp, Down, Idle, NoCommit, AtStartup, Returned, Threw
      <3>2. JournalHolds'
        BY <2>1 DEF Reconciled, GiveUp, Down, Idle, NoCommit, AtStartup, Returned, Threw
      <3> QED
        BY <3>1, <3>2
    <2>2. CASE MarkersDone
      <3>1. ControlHolds'
        BY <2>2 DEF MarkersDone, Idle, NoCommit, AtStartup
      <3>2. JournalHolds'
        BY <2>2 DEF MarkersDone, Idle, NoCommit, AtStartup
      <3> QED
        BY <3>1, <3>2
    <2> QED
      BY <1>7, <2>1, <2>2
  <1>8. CASE DuplicateHandled \/ Imported \/ ImportFails
    <2>1. ControlHolds'
      BY <1>8 DEF DuplicateHandled, Imported, ImportFails, GiveUp, Down, Idle, NoCommit, Running, AtStartup, Returned, Threw
    <2>2. JournalHolds'
      BY <1>8 DEF DuplicateHandled, Imported, ImportFails, GiveUp, Down, Idle, NoCommit, Running, AtStartup, Returned, Threw
    <2> QED
      BY <2>1, <2>2
  <1>9. CASE Stage
    <2>1. ControlHolds'
      BY <1>9 DEF Stage, GiveUp, Down, Idle, NoCommit, Running, AtStartup, Returned, Threw
    <2>2. JournalHolds'
      BY <1>9 DEF Stage, GiveUp, Down, Idle, NoCommit, Running, AtStartup, Returned, Threw
    <2> QED
      BY <2>1, <2>2
  <1>10. CASE Promote
    <2>1. ControlHolds'
      BY <1>10 DEF Promote, Commit, Recover, Phases, Outcomes, GiveUp, Down, Idle, NoCommit, Running, AtStartup, Returned, Threw
    <2>2. JournalHolds'
      BY <1>10 DEF Promote, Commit, Recover, Phases, Outcomes, GiveUp, Down, Idle, NoCommit, Running, AtStartup, Returned, Threw
    <2> QED
      BY <2>1, <2>2
  <1>11. CASE Bury
    <2>1. ControlHolds'
      BY <1>11 DEF Bury, Commit, Recover, Phases, Outcomes, GiveUp, Down, Idle, NoCommit, Running, AtStartup, Returned, Threw
    <2>2. JournalHolds'
      BY <1>11 DEF Bury, Commit, Recover, Phases, Outcomes, GiveUp, Down, Idle, NoCommit, Running, AtStartup, Returned, Threw
    <2> QED
      BY <2>1, <2>2
  <1>12. CASE Deleted \/ DeleteFails
    <2>1. ControlHolds'
      BY <1>12 DEF Deleted, DeleteFails, GiveUp, Down, Idle, NoCommit, Running, AtStartup, Returned, Threw
    <2>2. JournalHolds'
      BY <1>12 DEF Deleted, DeleteFails, GiveUp, Down, Idle, NoCommit, Running, AtStartup, Returned, Threw
    <2> QED
      BY <2>1, <2>2
  <1>13. CASE Crash \/ Startup
    <2>1. CASE Crash
      <3>1. ControlHolds'
        BY <2>1 DEF Crash, Down, Idle, NoCommit
      <3>2. JournalHolds'
        BY <2>1 DEF Crash, Down, Idle, NoCommit
      <3> QED
        BY <3>1, <3>2
    <2>2. CASE Startup
      <3>1. ControlHolds'
        BY <2>2 DEF Startup, Recover, Phases, Down, Idle
      <3>2. JournalHolds'
        BY <2>2 DEF Startup, Recover, Phases, Down, Idle
      <3> QED
        BY <3>1, <3>2
    <2> QED
      BY <1>13, <2>1, <2>2
  <1>14. ASSUME NEW p \in Projects, Reconcile(p) PROVE ControlHolds' /\ JournalHolds'
    <2>1. ControlHolds'
      BY <1>14 DEF Reconcile, Commit, Recover, Phases, GiveUp, Down, Idle, NoCommit, Running, AtStartup, Returned, Threw
    <2>2. JournalHolds'
      BY <1>14 DEF Reconcile, Commit, Recover, Phases, GiveUp, Down, Idle, NoCommit, Running, AtStartup, Returned, Threw
    <2> QED
      BY <2>1, <2>2
  <1>15. ASSUME NEW p \in Projects, ReopenDuplicate(p) PROVE ControlHolds' /\ JournalHolds'
    <2>1. /\ op.kind = "import" /\ op.at = "library" /\ commit = NoCommit
          /\ journal' = journal /\ disk' = disk /\ exposed' = exposed
      BY <1>15 DEF ReopenDuplicate, Running
    <2>5. op'.at \in {"reopen", "discard"} /\ op'.kind = op.kind /\ op'.project = op.project
      BY <1>15 DEF ReopenDuplicate
    <2>6. \A goal : Commit(goal) =>
            /\ commit'.then = "prepare"
            /\ commit'.at = IF journal.phase = "committed" THEN "remove" ELSE "prepare"
      BY <2>1 DEF Commit, Recover, Phases, NoCommit
    <2>2. /\ journal.phase \in {"none", "committed"}
          /\ commit'.then = "prepare"
          /\ commit'.at = IF journal.phase = "committed" THEN "remove" ELSE "prepare"
      BY <1>15, <2>1, <2>6 DEF ReopenDuplicate, Phases
    <2>3. ControlHolds'
      BY <2>1, <2>2, <2>5
    <2>4. JournalHolds'
      BY <2>1, <2>2, <2>5
    <2> QED
      BY <2>3, <2>4
  <1>16. ASSUME NEW p \in Projects, Delete(p) PROVE ControlHolds' /\ JournalHolds'
    <2>1. ControlHolds'
      BY <1>16 DEF Delete, GiveUp, Down, Idle, NoCommit, Running, AtStartup, Returned, Threw
    <2>2. JournalHolds'
      BY <1>16, <1>0 DEF Delete, GiveUp, Down, Idle, NoCommit, Running, AtStartup, Returned, Threw
    <2> QED
      BY <2>1, <2>2
  <1>17. ASSUME NEW p \in Projects, RecoverTombstone(p) \/ Damage(p) PROVE ControlHolds' /\ JournalHolds'
    <2>1. ControlHolds'
      BY <1>17 DEF RecoverTombstone, Damage, GiveUp, Down, Idle, NoCommit, Running, AtStartup, Returned, Threw
    <2>2. JournalHolds'
      BY <1>17 DEF RecoverTombstone, Damage, GiveUp, Down, Idle, NoCommit, Running, AtStartup, Returned, Threw
    <2> QED
      BY <2>1, <2>2
  <1>18. ASSUME NEW p \in Projects, OpenProject(p) \/ CloseProject(p) PROVE ControlHolds' /\ JournalHolds'
    <2>1. ControlHolds'
      BY <1>18 DEF OpenProject, CloseProject, SaveOpened, GiveUp, Down, Idle, NoCommit, Running, AtStartup, Returned, Threw
    <2>2. JournalHolds'
      BY <1>18 DEF OpenProject, CloseProject, SaveOpened, GiveUp, Down, Idle, NoCommit, Running, AtStartup, Returned, Threw
    <2> QED
      BY <2>1, <2>2
  <1>19. ASSUME NEW p \in Projects, NEW source \in Sources, Import(p, source) PROVE ControlHolds' /\ JournalHolds'
    <2>1. ControlHolds'
      BY <1>19 DEF Import, Begin, Recover, Phases, GiveUp, Down, Idle, NoCommit, Running, AtStartup, Returned, Threw
    <2>2. JournalHolds'
      BY <1>19 DEF Import, Begin, Recover, Phases, GiveUp, Down, Idle, NoCommit, Running, AtStartup, Returned, Threw
    <2> QED
      BY <2>1, <2>2
  <1> QED
    BY <1>1, <1>2, <1>3, <1>4, <1>5, <1>6, <1>7, <1>8, <1>9, <1>10, <1>11, <1>12, <1>13, <1>14, <1>15, <1>16, <1>17, <1>18, <1>19 DEF StoreNext

----------------------------------------------------------------------------
(* The documents a recovery leaves.                                        *)

\* A hole opens once, on the documents that last at that moment, and stays.
LEMMA HolesStay ==
    ASSUME StoreTypeOK, StoreNext
    PROVE  exposed' = exposed \/ (exposed = Free /\ exposed' = Lasting /\ exposed' # Free)
  <1> USE DEF Unexposed
  <1>0. Lasting # Free
    BY FreeAssumption DEF Lasting, StoreTypeOK
  <1>1. CASE Prepare \/ SaveLibrary \/ SaveWorkspace \/ Seal \/ RemoveJournal
    BY <1>0, <1>1 DEF Prepare, SaveLibrary, SaveWorkspace, Seal, RemoveJournal
  <1>2. CASE CatalogRecovered \/ Sweep \/ Reconciled \/ MarkersDone
    BY <1>2 DEF CatalogRecovered, Sweep, Reconciled, MarkersDone
  <1>3. CASE DuplicateHandled \/ Stage \/ Promote \/ Imported \/ ImportFails
    BY <1>3 DEF DuplicateHandled, Stage, Promote, Imported, ImportFails
  <1>4. CASE Bury \/ Deleted \/ DeleteFails \/ Crash \/ Startup \/ TombstonesDone
    BY <1>4 DEF Bury, Deleted, DeleteFails, Crash, Startup, TombstonesDone
  <1>5. ASSUME NEW p \in Projects,
               Reconcile(p) \/ ReopenDuplicate(p) \/ Delete(p) \/ OpenProject(p) \/ CloseProject(p)
                 \/ RecoverTombstone(p) \/ Damage(p)
        PROVE  exposed' = exposed \/ (exposed = Free /\ exposed' = Lasting /\ exposed' # Free)
    BY <1>0, <1>5 DEF Reconcile, ReopenDuplicate, Delete, OpenProject, CloseProject, SaveOpened,
                RecoverTombstone, Damage
  <1>6. ASSUME NEW p \in Projects, NEW source \in Sources, Import(p, source)
        PROVE  exposed' = exposed
    BY <1>6 DEF Import
  <1> QED
    BY <1>1, <1>2, <1>3, <1>4, <1>5, <1>6 DEF StoreNext

\* The whole operations: what one step may do to the lasting documents.
Changed(old, new, p) ==
    \/ p \notin old.known /\ new = Joined(old, p)
    \/ p \in old.known /\ new = Without(old, p)
    \/ p \in old.known \ old.opened /\ new = [known |-> old.known, opened |-> old.opened \cup {p}]
    \/ p \in old.opened /\ new = [known |-> old.known, opened |-> old.opened \ {p}]

\* The commit point has passed: the journal is committed and the goal lasts.
Sealed == Seal /\ commit'.at = "clear"

\* A step of a commit other than its commit point leaves the lasting documents alone.
LEMMA QuietStep ==
    ASSUME StoreInv, exposed = Free, exposed' = Free,
           Prepare \/ SaveLibrary \/ SaveWorkspace \/ Seal \/ RemoveJournal, ~ Sealed
    PROVE  /\ Lasting' = Lasting /\ commit'.goal = commit.goal
           /\ UNCHANGED <<place, marker, origin, damaged, op>>
           /\ Unsealed' => Unsealed
           /\ commit.at # "none" /\ commit.then # "none" /\ op.at \notin Alone
  <1> USE DEF StoreInv, StoreTypeOK, JournalHolds, Lasting, Unsealed
  <1>0. Lasting \in Docs /\ Lasting # Free
    BY FreeAssumption
  <1>1. UNCHANGED <<place, marker, origin, damaged, op>>
    BY DEF Prepare, SaveLibrary, SaveWorkspace, Seal, RemoveJournal, Quietly
  <1>2. commit.at # "none" /\ commit.then # "none"
    BY DEF Prepare, SaveLibrary, SaveWorkspace, Seal, RemoveJournal
  <1>3. op.at \notin Alone
    BY <1>2 DEF ControlHolds, NoCommit
  <1>4. CASE Prepare
    <2>1. /\ commit.at = "prepare" /\ journal.phase = "none" /\ disk' = disk
          /\ journal' \in {journal, [phase |-> "prepared", before |-> disk]}
      BY <1>4 DEF Prepare
    <2>2. commit'.goal = commit.goal
      BY <1>4 DEF Prepare
    <2>3. Lasting' = Lasting
      BY <2>1
    <2> QED
      BY <1>1, <1>2, <1>3, <2>1, <2>2, <2>3
  <1>5. CASE SaveLibrary
    <2>1. journal' = journal /\ commit.at = "library"
      BY <1>5 DEF SaveLibrary
    <2>2. commit'.goal = commit.goal
      BY <1>5 DEF SaveLibrary, WriteThrows, Rollback
    <2> QED
      BY <1>1, <1>2, <1>3, <2>1, <2>2
  <1>6. CASE SaveWorkspace
    <2>1. journal' = journal /\ commit.at = "workspace"
      BY <1>6 DEF SaveWorkspace
    <2>2. commit'.goal = commit.goal
      BY <1>6 DEF SaveWorkspace, WriteThrows, Rollback
    <2> QED
      BY <1>1, <1>2, <1>3, <2>1, <2>2
  <1>7. CASE Seal
    <2>1. commit.at = "seal" /\ commit' # [commit EXCEPT !.at = "clear"] /\ disk' = disk
      BY <1>7 DEF Seal, Sealed
    <2>2. journal' = journal
      BY <1>0, <1>7, <2>1 DEF Seal
    <2>3. commit'.goal = commit.goal
      BY <1>7, <2>1 DEF Seal, WriteThrows, Rollback
    <2> QED
      BY <1>1, <1>2, <1>3, <2>1, <2>2, <2>3
  <1>8. CASE RemoveJournal
    <2>1. /\ commit.at \in {"remove", "clear"} /\ disk' = disk /\ journal' \in {journal, NoJournal}
          /\ commit'.goal = commit.goal
      BY <1>8 DEF RemoveJournal
    <2>2. Lasting' = Lasting
      BY <2>1 DEF NoJournal
    <2>3. commit.at = "clear" => commit'.at = "ok"
      BY <1>8 DEF RemoveJournal
    <2> QED
      BY <1>1, <1>2, <1>3, <2>1, <2>2, <2>3
  <1> QED
    BY <1>4, <1>5, <1>6, <1>7, <1>8

\* Such a step keeps what is known of the operation and of its project.
LEMMA QuietKeepsProjects ==
    ASSUME StoreInv, exposed = Free, exposed' = Free,
           Prepare \/ SaveLibrary \/ SaveWorkspace \/ Seal \/ RemoveJournal, ~ Sealed
    PROVE  ProjectsHold'
  <1>1. /\ Lasting' = Lasting /\ commit'.goal = commit.goal
        /\ UNCHANGED <<place, marker, origin, damaged, op>>
        /\ Unsealed' => Unsealed
        /\ commit.at # "none" /\ commit.then # "none" /\ op.at \notin Alone
    BY QuietStep
  <1>2. ProjectsHold
    BY DEF StoreInv
  <1>3. \A p : (Loose(p) <=> Loose(p)') /\ (Usable(p) <=> Usable(p)')
    BY <1>1 DEF Loose, Usable
  <1>4. GoalHolds'
    BY <1>1, <1>2, <1>3 DEF ProjectsHold, GoalHolds, Without, Joined, Indexed, Same
  <1>5. ImportHolds'
    BY <1>1, <1>2, <1>3 DEF ProjectsHold, ImportHolds, Same, Alone
  <1>6. DeletionHolds'
    BY <1>1, <1>2 DEF ProjectsHold, DeletionHolds, Alone
  <1>7. OneIsLoose' /\ Whole'
    BY <1>1, <1>2, <1>3 DEF ProjectsHold, OneIsLoose, Whole, Same
  <1> QED
    BY <1>4, <1>5, <1>6, <1>7 DEF ProjectsHold

\* The commit point makes the goal last: one whole operation, after which what the
\* recovery finds is whole again.
LEMMA SealedStep ==
    ASSUME StoreInv, exposed = Free, exposed' = Free, Sealed
    PROVE  /\ ProjectsHold'
           /\ Lasting' = Lasting \/ \E p \in Projects : Changed(Lasting, Lasting', p)
  <1> USE DEF StoreInv, StoreTypeOK, ProjectsHold
  <1>1. /\ commit.at = "seal" /\ commit'.at = "clear" /\ commit'.goal = commit.goal
        /\ commit'.then = commit.then /\ commit.then = "sealed"
    BY DEF Sealed, Seal, WriteThrows, Rollback, JournalHolds
  <1>2. UNCHANGED <<place, marker, origin, damaged, op, disk>>
    BY DEF Sealed, Seal, Quietly
  <1>3. disk = commit.goal
    BY <1>1 DEF JournalHolds
  <1>4. journal'.phase = "committed"
    BY <1>1 DEF Sealed, Seal, WriteThrows, Rollback
  <1>5. Lasting' = commit.goal
    BY <1>2, <1>3, <1>4 DEF Lasting
  <1>6. op.at \in {"markers", "reopen", "discard", "index", "remove"}
    <2>1. op.at \notin Alone /\ op.at # "catalog"
      BY <1>1 DEF ControlHolds, NoCommit
    <2> QED
      BY <2>1 DEF Alone, Points
  <1>7. Unsealed /\ ~ Unsealed'
    BY <1>1 DEF Unsealed
  <1>8. Lasting \in Docs
    BY DEF Lasting
  <1>9. CASE op.at = "markers"
    <2>1. PICK p \in Projects : /\ op.docs = Indexed(p) /\ Loose(p) /\ p \in marker
                                /\ commit.goal = Joined(Lasting, p)
      BY <1>1, <1>7, <1>9 DEF GoalHolds
    <2>2. Lasting'.known = Lasting.known \cup {p} /\ Lasting'.opened = Lasting.opened \cup {p}
      BY <1>5, <2>1 DEF Joined
    <2>3. \A q \in Projects : ~ Loose(q)'
      BY <1>2, <2>1, <2>2 DEF OneIsLoose, Loose
    <2>4. GoalHolds'
      BY <1>1, <1>2, <1>7, <1>9, <2>1 DEF GoalHolds, Indexed, Joined
    <2>5. ImportHolds' /\ DeletionHolds' /\ OneIsLoose'
      BY <1>1, <1>2, <1>7, <1>9, <2>3 DEF ImportHolds, DeletionHolds, OneIsLoose
    <2>6. Whole'
      BY <1>2, <2>1, <2>2, <2>3 DEF Whole, Loose
    <2>7. Changed(Lasting, Lasting', p)
      BY <1>5, <2>1 DEF Changed, Loose
    <2> QED
      BY <2>4, <2>5, <2>6, <2>7
  <1>10. CASE op.at = "reopen"
    <2>1. PICK p \in Lasting.known :
            commit.goal = [known |-> Lasting.known, opened |-> Lasting.opened \cup {p}]
      BY <1>7, <1>10 DEF GoalHolds
    <2>2. Lasting'.known = Lasting.known /\ Lasting'.opened = Lasting.opened \cup {p}
      BY <1>5, <2>1
    <2>3. \A q : Loose(q)' <=> Loose(q)
      BY <1>2, <2>2 DEF Loose
    <2>4. GoalHolds'
      BY <1>1, <1>2, <1>7, <1>10 DEF GoalHolds
    <2>5. ImportHolds' /\ DeletionHolds' /\ OneIsLoose'
      BY <1>1, <1>2, <1>7, <1>10, <2>3 DEF ImportHolds, DeletionHolds, OneIsLoose
    <2>6. Whole'
      BY <1>2, <2>1, <2>2, <2>3 DEF Whole, Same
    <2>7. Lasting' = Lasting \/ Changed(Lasting, Lasting', p)
      BY <1>5, <1>8, <2>1 DEF Changed, Docs
    <2>8. p \in Projects
      BY <1>8 DEF Docs
    <2> QED
      BY <2>4, <2>5, <2>6, <2>7, <2>8
  <1>11. CASE op.at = "discard"
    <2>1. PICK p \in Lasting.known : ~ Usable(p) /\ commit.goal = Without(Lasting, p)
      BY <1>7, <1>11 DEF GoalHolds
    <2>2. Lasting'.known = Lasting.known \ {p} /\ Lasting'.opened = Lasting.opened \ {p}
      BY <1>5, <2>1 DEF Without
    <2>3. \A q \in Projects : ~ Loose(q)'
      BY <1>2, <1>11, <2>1, <2>2 DEF ImportHolds, Loose, Usable
    <2>4. GoalHolds'
      BY <1>1, <1>2, <1>7, <1>11 DEF GoalHolds
    <2>5. ImportHolds' /\ DeletionHolds' /\ OneIsLoose'
      BY <1>1, <1>2, <1>7, <1>11, <2>3 DEF ImportHolds, DeletionHolds, OneIsLoose
    <2>6. Whole'
      BY <1>2, <2>2, <2>3 DEF Whole
    <2>7. p \in Projects /\ Changed(Lasting, Lasting', p)
      BY <1>5, <1>8, <2>1 DEF Changed, Docs
    <2> QED
      BY <2>4, <2>5, <2>6, <2>7
  <1>12. CASE op.at = "index"
    <2>1. /\ commit.goal = Joined(Lasting, op.project) /\ op.project \in Projects
          /\ op.project \notin Lasting.known /\ place[op.project] = "managed"
      BY <1>1, <1>7, <1>12 DEF GoalHolds, ImportHolds, ControlHolds
    <2>2. /\ Lasting'.known = Lasting.known \cup {op.project}
          /\ Lasting'.opened = Lasting.opened \cup {op.project}
      BY <1>5, <2>1 DEF Joined
    <2>3. \A q \in Projects : ~ Loose(q)'
      BY <1>2, <1>12, <2>2 DEF ImportHolds, Loose
    <2>4. GoalHolds'
      BY <1>1, <1>2, <1>7, <1>12 DEF GoalHolds
    <2>5. ImportHolds' /\ DeletionHolds' /\ OneIsLoose'
      BY <1>1, <1>2, <1>7, <1>12, <2>3 DEF ImportHolds, DeletionHolds, OneIsLoose
    <2>6. Whole'
      BY <1>2, <2>1, <2>2, <2>3 DEF Whole
    <2>7. Changed(Lasting, Lasting', op.project)
      BY <1>5, <2>1 DEF Changed
    <2> QED
      BY <2>1, <2>4, <2>5, <2>6, <2>7
  <1>13. CASE op.at = "remove"
    <2>1. /\ commit.goal = Without(Lasting, op.project) /\ op.project \in Projects
          /\ op.project \in Lasting.known /\ place[op.project] = "tombstone"
      BY <1>1, <1>7, <1>13 DEF GoalHolds, DeletionHolds, ControlHolds
    <2>2. /\ Lasting'.known = Lasting.known \ {op.project}
          /\ Lasting'.opened = Lasting.opened \ {op.project}
      BY <1>5, <2>1 DEF Without
    <2>3. \A q \in Projects : Loose(q)' => Loose(q)
      BY <1>2, <2>1, <2>2 DEF Loose
    <2>4. GoalHolds'
      BY <1>1, <1>2, <1>7, <1>13 DEF GoalHolds
    <2>5. ImportHolds' /\ DeletionHolds' /\ OneIsLoose'
      BY <1>1, <1>2, <1>7, <1>13, <2>3 DEF ImportHolds, DeletionHolds, OneIsLoose, ControlHolds
    <2>6. Whole'
      BY <1>2, <2>1, <2>2, <2>3 DEF Whole, Same
    <2>7. Changed(Lasting, Lasting', op.project)
      BY <1>5, <2>1 DEF Changed
    <2> QED
      BY <2>1, <2>4, <2>5, <2>6, <2>7
  <1> QED
    BY <1>6, <1>9, <1>10, <1>11, <1>12, <1>13

----------------------------------------------------------------------------
(* The operations that leave the documents alone.                           *)

\* A step that changes neither the folders nor the lasting documents keeps what a
\* recovery would find whole.
LEMMA SameFolders ==
    ASSUME ProjectsHold, Lasting' = Lasting, UNCHANGED <<place, origin, damaged>>,
           \A p \in Projects : p \in marker => p \in marker' \/ p \in Lasting.known
    PROVE  /\ OneIsLoose' /\ Whole'
           /\ \A p : (Loose(p)' <=> Loose(p)) /\ (Usable(p)' <=> Usable(p))
  BY DEF ProjectsHold, OneIsLoose, Whole, Loose, Usable, Same

LEMMA RecoveryKeepsProjects ==
    ASSUME StoreInv, exposed = Free,
           CatalogRecovered \/ Sweep \/ TombstonesDone \/ Crash \/ Startup
    PROVE  ProjectsHold' /\ Lasting' = Lasting
  <1> USE DEF StoreInv, StoreTypeOK
  <1>1. Lasting' = Lasting
    BY DEF Lasting, CatalogRecovered, Sweep, TombstonesDone, Crash, Startup
  <1>2. /\ op'.at \in {"none", "catalog", "tombstones", "sweep", "markers"}
        /\ op'.at = "markers" => commit' = NoCommit
        /\ op'.kind = "import" => op.kind = "import" /\ op'.project = op.project
    <2>1. CASE CatalogRecovered
      BY <2>1 DEF CatalogRecovered, GiveUp, Down, Idle, AtStartup
    <2>2. CASE Sweep
      BY <2>2 DEF Sweep, GiveUp, Down, Idle, AtStartup, ControlHolds, Alone
    <2>3. CASE TombstonesDone \/ Crash \/ Startup
      BY <2>3 DEF TombstonesDone, Crash, Startup, Down, Idle, Running, ControlHolds
    <2> QED
      BY <2>1, <2>2, <2>3
  <1>3. GoalHolds' /\ DeletionHolds'
    BY <1>2 DEF GoalHolds, DeletionHolds, NoCommit
  <1>4. /\ UNCHANGED <<origin, damaged>> /\ place' \in [Projects -> Places]
        /\ \A p \in Projects : place'[p] # place[p] => place[p] = "importing" /\ place'[p] = "none"
        /\ \A p \in marker : p \in marker' \/ place[p] = "importing"
    <2>1. CASE Sweep
      BY <2>1 DEF Sweep, Staging, Places
    <2>2. CASE CatalogRecovered \/ TombstonesDone \/ Crash \/ Startup
      BY <2>2 DEF CatalogRecovered, TombstonesDone, Crash, Startup
    <2> QED
      BY <2>1, <2>2
  <1>5. \A p \in Projects : Loose(p)' <=> Loose(p)
    BY <1>1, <1>4 DEF Loose
  <1>6. Lasting.known \subseteq Projects
    BY DEF Lasting, Docs
  <1>7. OneIsLoose' /\ Whole'
    BY <1>1, <1>4, <1>5, <1>6 DEF ProjectsHold, OneIsLoose, Whole, Loose, Same
  <1>8. ImportHolds'
    <2>1. op'.kind = "import" => place'[op'.project] = "none"
      <3>1. CASE op.at \in {"staged", "index"}
        <4>1. op' = Down \/ op' = op
          BY <3>1 DEF CatalogRecovered, Sweep, TombstonesDone, Crash, Startup, Running, Down, Idle
        <4> QED
          BY <1>2, <3>1, <4>1 DEF Down, Idle
      <3>2. CASE op.at \notin {"staged", "index"}
        BY <1>2, <1>4, <3>2 DEF ProjectsHold, ImportHolds, ControlHolds
      <3> QED
        BY <3>1, <3>2
    <2> QED
      BY <1>2, <2>1 DEF ImportHolds
  <1> QED
    BY <1>1, <1>3, <1>7, <1>8 DEF ProjectsHold

\* The reconciliation of a marker commits the project of a loose folder; it ends with the
\* project in the library, or not at all.
LEMMA MarkersKeepProjects ==
    ASSUME StoreInv, exposed = Free,
           (\E p \in Projects : Reconcile(p)) \/ Reconciled \/ MarkersDone
    PROVE  ProjectsHold' /\ Lasting' = Lasting
  <1> USE DEF StoreInv, StoreTypeOK
  <1>1. /\ Lasting' = Lasting /\ UNCHANGED <<place, origin, damaged, disk>>
        /\ op.at = "markers" /\ op.kind \in {"startup", "import"}
    BY DEF Lasting, Reconcile, Reconciled, MarkersDone, ControlHolds
  <1>2. ASSUME NEW p \in Projects, Reconcile(p) PROVE ProjectsHold'
    <2>1. /\ commit = NoCommit /\ journal.phase # "prepared" /\ Lasting = disk
          /\ p \in marker /\ place[p] = "managed" /\ p \notin disk.known /\ marker' = marker
      BY <1>1, <1>2 DEF Reconcile, Unindexed, Pending, JournalHolds, NoCommit, Lasting
    <2>2. /\ OneIsLoose' /\ Whole'
          /\ \A q : (Loose(q)' <=> Loose(q)) /\ (Usable(q)' <=> Usable(q))
      BY <1>1, <2>1, SameFolders
    <2>3. CASE Conflicts(p) \/ p \in damaged
      <3>1. op' = Idle \/ op' = Down
        BY <1>2, <2>3 DEF Reconcile, GiveUp
      <3> QED
        BY <2>2, <3>1 DEF ProjectsHold, GoalHolds, ImportHolds, DeletionHolds, Idle, Down
    <2>4. CASE ~ Conflicts(p) /\ p \notin damaged
      <3>1. /\ op'.docs = Indexed(p) /\ op'.at = op.at /\ op'.kind = op.kind
            /\ op'.project = op.project
            /\ commit'.goal = Joined(disk, p)
        BY <1>2, <2>4 DEF Reconcile, Commit, Recover
      <3>2. Loose(p)' /\ ~ \E q \in Lasting.known : Same(q, p)
        BY <2>1, <2>2, <2>4 DEF Loose, Conflicts, Same
      <3>3. p \in commit'.goal.known
        BY <3>1 DEF Joined
      <3>4. GoalHolds'
        BY <1>1, <2>1, <3>1, <3>2, <3>3 DEF GoalHolds, Same, Indexed, Joined
      <3>5. ImportHolds' /\ DeletionHolds'
        BY <1>1, <2>1, <3>1 DEF ProjectsHold, ImportHolds, DeletionHolds
      <3> QED
        BY <2>2, <3>4, <3>5 DEF ProjectsHold
    <2> QED
      BY <2>3, <2>4
  <1>3. CASE Reconciled
    <2>1. /\ \A p \in Projects : p \in marker => p \in marker' \/ p \in Lasting.known
          /\ commit' = NoCommit
      <3>1. CASE Threw
        BY <1>3, <3>1 DEF Reconciled, GiveUp
      <3>2. CASE ~ Threw
        <4>1. commit.at = "ok" /\ commit.then = "sealed"
          BY <1>1, <1>3, <3>2 DEF Reconciled, Returned, ControlHolds, JournalHolds, Committing
        <4>2. disk = commit.goal /\ journal.phase # "prepared"
          BY <4>1 DEF JournalHolds
        <4>3. PICK p \in Projects : op.docs = Indexed(p) /\ p \in commit.goal.known
          BY <1>1, <4>1 DEF ProjectsHold, GoalHolds
        <4>4. commit' = NoCommit /\ marker' \in {marker, marker \ {p}}
          BY <1>3, <3>2, <4>3 DEF Reconciled, Indexed
        <4> QED
          BY <4>2, <4>3, <4>4 DEF Lasting
      <3> QED
        BY <3>1, <3>2
    <2>2. op' = op \/ op' = Idle \/ op' = Down
      BY <1>3 DEF Reconciled, GiveUp
    <2>3. /\ OneIsLoose' /\ Whole'
          /\ \A q : (Loose(q)' <=> Loose(q)) /\ (Usable(q)' <=> Usable(q))
      BY <1>1, <2>1, SameFolders
    <2>4. GoalHolds'
      BY <1>1, <2>1, <2>2 DEF GoalHolds, NoCommit, Idle, Down
    <2>5. ImportHolds' /\ DeletionHolds'
      BY <1>1, <2>2 DEF ProjectsHold, ImportHolds, DeletionHolds, Idle, Down
    <2> QED
      BY <1>1, <2>3, <2>4, <2>5 DEF ProjectsHold
  <1>4. CASE MarkersDone
    <2>1. commit = NoCommit /\ commit' = commit /\ journal.phase # "prepared" /\ Unindexed = {}
      BY <1>1, <1>4 DEF MarkersDone, JournalHolds, NoCommit
    <2>2. \A p \in marker : p \in marker' \/ p \in disk.known
      BY <1>4, <2>1 DEF MarkersDone, Unindexed
    <2>3. Lasting = disk
      BY <2>1 DEF Lasting
    <2>4. /\ OneIsLoose' /\ Whole'
          /\ \A q : (Loose(q)' <=> Loose(q)) /\ (Usable(q)' <=> Usable(q))
      BY <1>1, <2>2, <2>3, SameFolders
    <2>5. \A p \in Projects : ~ Loose(p)
      BY <2>1, <2>3 DEF ProjectsHold, Whole, Loose, Unindexed, Pending
    <2>6. op' = Idle \/ (/\ op.kind = "import" /\ op'.at = "library" /\ op'.docs = disk
                        /\ op'.kind = op.kind /\ op'.project = op.project)
      BY <1>1, <1>4 DEF MarkersDone, AtStartup
    <2>7. GoalHolds' /\ DeletionHolds'
      BY <2>6 DEF GoalHolds, DeletionHolds, Idle
    <2>8. ImportHolds'
      BY <1>1, <2>4, <2>5, <2>6 DEF ProjectsHold, ImportHolds, Idle
    <2> QED
      BY <1>1, <2>4, <2>7, <2>8 DEF ProjectsHold
  <1> QED
    BY <1>1, <1>2, <1>3, <1>4

LEMMA CommitGoal ==
    ASSUME NEW goal, Commit(goal)
    PROVE  commit'.goal = goal /\ commit'.then = "prepare"
  BY DEF Commit, Recover

\* An import finds a duplicate, stages its folder, or is done with one.
LEMMA ImportKeepsProjects ==
    ASSUME StoreInv, exposed = Free,
           \/ \E p \in Projects : ReopenDuplicate(p) \/ \E source \in Sources : Import(p, source)
           \/ DuplicateHandled \/ Stage
    PROVE  ProjectsHold' /\ Lasting' = Lasting
  <1> USE DEF StoreInv, StoreTypeOK
  <1>1. Lasting' = Lasting /\ UNCHANGED <<damaged, disk>>
    BY DEF Lasting, ReopenDuplicate, Import, DuplicateHandled, Stage
  <1>2. ASSUME NEW p \in Projects, NEW source \in Sources, Import(p, source) PROVE ProjectsHold'
    <2>1. /\ place[p] = "none" /\ place' = place /\ marker' = marker
          /\ \A q \in Projects \ {p} : origin'[q] = origin[q]
          /\ op' = [Idle EXCEPT !.kind = "import", !.project = p, !.at = "catalog"]
      BY <1>2 DEF Import, Begin
    <2>2. \A q \in Projects : (Loose(q)' <=> Loose(q)) /\ (Loose(q) => q # p)
      BY <1>1, <2>1 DEF Loose
    <2>3. p \notin Lasting.known
      BY <2>1 DEF ProjectsHold, Whole
    <2>6. Lasting.known \subseteq Projects
      BY DEF Lasting, Docs
    <2>4. OneIsLoose' /\ Whole'
      BY <1>1, <2>1, <2>2, <2>3, <2>6 DEF ProjectsHold, OneIsLoose, Whole, Same
    <2>5. GoalHolds' /\ ImportHolds' /\ DeletionHolds'
      BY <2>1 DEF GoalHolds, ImportHolds, DeletionHolds, Idle
    <2> QED
      BY <2>4, <2>5 DEF ProjectsHold
  <1>3. ASSUME NEW p \in Projects, ReopenDuplicate(p) PROVE ProjectsHold'
    <2>1. /\ UNCHANGED <<place, marker, origin>> /\ op.at = "library" /\ op.kind = "import"
          /\ commit = NoCommit /\ journal.phase # "prepared" /\ op.docs = disk /\ Lasting = disk
          /\ p \in disk.known
      BY <1>3 DEF ReopenDuplicate, Running, Duplicates, JournalHolds, Alone, Lasting,
                  ProjectsHold, ImportHolds
    <2>2. /\ OneIsLoose' /\ Whole'
          /\ \A q : (Loose(q)' <=> Loose(q)) /\ (Usable(q)' <=> Usable(q))
      BY <1>1, <2>1, SameFolders
    <2>3. CASE Usable(p)
      <3>1. /\ op'.at = "reopen" /\ op'.kind = "import" /\ op'.project = op.project
            /\ commit'.goal = [known |-> disk.known, opened |-> disk.opened \cup {p}]
        BY <1>3, <2>1, <2>3, CommitGoal DEF ReopenDuplicate
      <3>2. GoalHolds'
        BY <1>1, <2>1, <3>1 DEF GoalHolds
      <3>3. ImportHolds' /\ DeletionHolds'
        BY <1>1, <2>1, <2>2, <3>1 DEF ProjectsHold, ImportHolds, DeletionHolds
      <3> QED
        BY <2>2, <3>2, <3>3 DEF ProjectsHold
    <2>4. CASE ~ Usable(p)
      <3>1. /\ op'.at = "discard" /\ op'.kind = "import" /\ op'.project = op.project
            /\ op'.docs = Without(disk, p)
        BY <1>3, <2>1, <2>4 DEF ReopenDuplicate
      <3>4. commit'.goal = Without(disk, p)
        BY <1>3, <2>1, <2>4, CommitGoal DEF ReopenDuplicate, Without
      <3>2. GoalHolds'
        BY <1>1, <2>1, <2>2, <2>4, <3>1, <3>4 DEF GoalHolds, Without
      <3>3. ImportHolds' /\ DeletionHolds'
        BY <1>1, <2>1, <2>2, <3>1 DEF ProjectsHold, ImportHolds, DeletionHolds
      <3> QED
        BY <2>2, <3>2, <3>3 DEF ProjectsHold
    <2> QED
      BY <2>3, <2>4
  <1>4. CASE DuplicateHandled
    <2>1. /\ UNCHANGED <<place, marker, origin>> /\ commit' = NoCommit
          /\ op.at \in {"reopen", "discard"}
      BY <1>4 DEF DuplicateHandled
    <2>2. /\ OneIsLoose' /\ Whole'
          /\ \A q : (Loose(q)' <=> Loose(q)) /\ (Usable(q)' <=> Usable(q))
      BY <1>1, <2>1, SameFolders
    <2>3. CASE op' = Idle
      BY <1>1, <2>2, <2>3 DEF ProjectsHold, GoalHolds, ImportHolds, DeletionHolds, Idle
    <2>4. CASE op' # Idle
      <3>1. op.at = "discard" /\ op' = [op EXCEPT !.at = "library"] /\ commit.at = "ok"
        BY <1>4, <2>1, <2>4 DEF DuplicateHandled, Returned, Threw
      <3>2. commit.then = "sealed" /\ disk = commit.goal
        BY <3>1 DEF ControlHolds, JournalHolds, Committing
      <3>3. op.docs = disk
        BY <3>1, <3>2 DEF ProjectsHold, GoalHolds
      <3>4. GoalHolds' /\ DeletionHolds'
        BY <3>1 DEF GoalHolds, DeletionHolds
      <3>5. ImportHolds'
        BY <1>1, <2>1, <2>2, <3>1, <3>3 DEF ProjectsHold, ImportHolds
      <3> QED
        BY <1>1, <2>2, <3>4, <3>5 DEF ProjectsHold
    <2> QED
      BY <2>3, <2>4
  <1>5. CASE Stage
    <2>1. /\ op.at = "library" /\ op.kind = "import" /\ op.project \in Projects
          /\ commit = NoCommit /\ journal.phase # "prepared" /\ op.docs = disk /\ Lasting = disk
          /\ Duplicates = {} /\ place[op.project] = "none" /\ origin' = origin /\ commit' = commit
          /\ \A p \in Projects : ~ Loose(p)
      BY <1>5 DEF Stage, Running, JournalHolds, ControlHolds, Alone, Lasting, ProjectsHold, ImportHolds
    <2>2. op.project \notin Lasting.known
      BY <2>1 DEF ProjectsHold, Whole
    <2>3. /\ \A p \in Projects \ {op.project} : place'[p] = place[p]
          /\ place'[op.project] \in {"none", "importing"}
      BY <1>5, <2>1 DEF Stage
    <2>4. \A p \in Projects : ~ Loose(p)'
      BY <1>1, <2>1, <2>3 DEF Loose
    <2>5. Lasting.known \subseteq Projects
      BY DEF Lasting, Docs
    <2>6. OneIsLoose' /\ Whole'
      BY <1>1, <2>2, <2>3, <2>4, <2>5 DEF ProjectsHold, OneIsLoose, Whole
    <2>7. \/ op' = Idle
          \/ /\ op'.at = "staged" /\ op'.kind = "import" /\ op'.project = op.project
             /\ op'.docs = op.docs
             /\ op.project \in marker' /\ place'[op.project] = "importing"
      BY <1>5, <2>1 DEF Stage
    <2>8. ~ \E q \in Lasting.known : Same(q, op.project)
      BY <2>1 DEF Duplicates, Same
    <2>9. GoalHolds' /\ DeletionHolds'
      BY <2>7 DEF GoalHolds, DeletionHolds, Idle
    <2>10. ImportHolds'
      BY <1>1, <2>1, <2>2, <2>4, <2>7, <2>8 DEF ImportHolds, Idle, Same
    <2> QED
      BY <1>1, <2>6, <2>9, <2>10 DEF ProjectsHold
  <1> QED
    BY <1>1, <1>2, <1>3, <1>4, <1>5

\* An import promotes its folder, and ends with it in the library, loose, or gone.
LEMMA PromotionKeepsProjects ==
    ASSUME StoreInv, exposed = Free, Promote \/ Imported \/ ImportFails
    PROVE  ProjectsHold' /\ Lasting' = Lasting
  <1> USE DEF StoreInv, StoreTypeOK
  <1>1. Lasting' = Lasting /\ UNCHANGED <<damaged, disk, origin>>
    BY DEF Lasting, Promote, Imported, ImportFails
  <1>2. Lasting.known \subseteq Projects
    BY DEF Lasting, Docs
  <1>3. CASE Promote
    <2>1. /\ op.at = "staged" /\ op.kind = "import" /\ op.project \in Projects
          /\ commit = NoCommit /\ journal.phase # "prepared" /\ op.docs = disk /\ Lasting = disk
          /\ place[op.project] = "importing" /\ marker' = marker /\ op.project \in marker
          /\ op.project \notin Lasting.known /\ ~ \E q \in Lasting.known : Same(q, op.project)
          /\ \A p \in Projects : ~ Loose(p)
      BY <1>3 DEF Promote, Running, JournalHolds, ControlHolds, Alone, Lasting, ProjectsHold, ImportHolds
    <2>2. /\ \A p \in Projects \ {op.project} : place'[p] = place[p]
          /\ place'[op.project] \in {"importing", "managed"}
          /\ op' = [op EXCEPT !.at = "index"]
      BY <1>3, <2>1 DEF Promote
    <2>3. \A p \in Projects \ {op.project} : ~ Loose(p)'
      BY <1>1, <2>1, <2>2 DEF Loose
    <2>4. OneIsLoose' /\ Whole'
      BY <1>1, <1>2, <2>1, <2>2, <2>3 DEF ProjectsHold, OneIsLoose, Whole, Same
    <2>5. \/ commit'.then = "none"
          \/ commit'.goal = Joined(Lasting, op.project) /\ place'[op.project] = "managed"
      <3>1. Commit(Joined(disk, op.project)) => commit'.goal = Joined(disk, op.project)
        BY CommitGoal
      <3> QED
        BY <1>3, <2>1, <3>1 DEF Promote, Joined, NoCommit
    <2>6. GoalHolds'
      BY <1>1, <2>2, <2>5 DEF GoalHolds, Joined
    <2>7. ImportHolds' /\ DeletionHolds'
      BY <1>1, <2>1, <2>2, <2>3, <2>5 DEF ImportHolds, DeletionHolds, Same
    <2> QED
      BY <1>1, <2>4, <2>6, <2>7 DEF ProjectsHold
  <1>4. CASE Imported
    <2>1. /\ op.at = "index" /\ commit.at = "ok" /\ place' = place /\ op' = Idle
          /\ marker' \in {marker, marker \ {op.project}}
      BY <1>4 DEF Imported, Running, Returned
    <2>2. commit.then = "sealed" /\ disk = commit.goal /\ journal.phase # "prepared"
      BY <2>1 DEF ControlHolds, JournalHolds, Committing
    <2>3. op.project \in Lasting.known
      BY <2>1, <2>2 DEF ProjectsHold, GoalHolds, Lasting
    <2>4. OneIsLoose' /\ Whole'
      BY <1>1, <2>1, <2>3, SameFolders
    <2> QED
      BY <1>1, <2>1, <2>4 DEF ProjectsHold, GoalHolds, ImportHolds, DeletionHolds, Idle
  <1>5. CASE ImportFails
    <2>1. /\ op.at = "index" /\ op.kind = "import" /\ op.project \in Projects
          /\ commit.at = "threw" /\ op' = Idle
          /\ marker' \in {marker, marker \ {op.project}}
          /\ \A p \in Projects \ {op.project} : place'[p] = place[p]
          /\ \/ place'[op.project] \in {"none", "importing"}
             \/ place'[op.project] = place[op.project] /\ marker' = marker
      BY <1>5 DEF ImportFails, Running, Threw, ControlHolds
    <2>2. /\ op.project \in marker /\ op.project \notin Lasting.known
          /\ ~ \E q \in Lasting.known : Same(q, op.project)
          /\ \A p \in Projects \ {op.project} : ~ Loose(p)
      BY <2>1 DEF ProjectsHold, ImportHolds, Unsealed
    <2>3. \A p \in Projects \ {op.project} : ~ Loose(p)'
      BY <1>1, <2>1, <2>2 DEF Loose
    <2>4. OneIsLoose' /\ Whole'
      BY <1>1, <1>2, <2>1, <2>2, <2>3 DEF ProjectsHold, OneIsLoose, Whole, Loose, Same
    <2> QED
      BY <1>1, <2>1, <2>4 DEF ProjectsHold, GoalHolds, ImportHolds, DeletionHolds, Idle
  <1> QED
    BY <1>3, <1>4, <1>5

\* A deletion keeps its project's folder, as a tombstone, until its commit; what comes back
\* at a startup is in the library.
LEMMA DeletionKeepsProjects ==
    ASSUME StoreInv, exposed = Free, exposed' = Free,
           (\E p \in Projects : Delete(p) \/ RecoverTombstone(p)) \/ Bury \/ Deleted \/ DeleteFails
    PROVE  ProjectsHold' /\ Lasting' = Lasting
  <1> USE DEF StoreInv, StoreTypeOK
  <1>1. Lasting' = Lasting /\ UNCHANGED <<damaged, disk, origin>>
    BY DEF Lasting, Delete, RecoverTombstone, Bury, Deleted, DeleteFails
  <1>2. Lasting.known \subseteq Projects /\ Lasting \in Docs /\ Lasting # Free
    BY FreeAssumption DEF Lasting, Docs
  <1>3. ASSUME NEW p \in Projects, Delete(p) PROVE ProjectsHold'
    <2>1. /\ p \in disk.known /\ UNCHANGED <<place, marker>>
          /\ op' = [kind |-> "delete", project |-> p, at |-> "rename", docs |-> disk]
      BY <1>3 DEF Delete
    <2>2. journal.phase # "prepared"
      BY <1>2, <1>3 DEF Delete
    <2>3. OneIsLoose' /\ Whole'
      BY <1>1, <2>1, SameFolders
    <2>4. GoalHolds' /\ ImportHolds' /\ DeletionHolds'
      BY <1>1, <2>1, <2>2 DEF GoalHolds, ImportHolds, DeletionHolds, Lasting
    <2> QED
      BY <2>3, <2>4 DEF ProjectsHold
  <1>4. ASSUME NEW p \in Projects, RecoverTombstone(p) PROVE ProjectsHold'
    <2>1. /\ op.kind = "startup" /\ op.at = "tombstones" /\ place[p] = "tombstone"
          /\ op' \in {op, Down, Idle}
          /\ \A q \in Projects \ {p} : place'[q] = place[q]
          /\ place'[p] = "tombstone" \/ place'[p] = Home(p)
          /\ marker' \in {marker, marker \ {p}}
      BY <1>4 DEF RecoverTombstone, Running, Tombstones, GiveUp
    <2>2. journal.phase # "prepared" /\ Lasting = disk
      BY <2>1 DEF JournalHolds, Alone, Lasting
    <2>3. \A q \in Projects : Loose(q)' <=> Loose(q)
      BY <1>1, <2>1, <2>2 DEF Loose, Home
    <2>4. OneIsLoose' /\ Whole'
      BY <1>1, <1>2, <2>1, <2>2, <2>3 DEF ProjectsHold, OneIsLoose, Whole, Same, Home, Loose
    <2>5. GoalHolds' /\ ImportHolds' /\ DeletionHolds'
      BY <1>1, <2>1 DEF GoalHolds, ImportHolds, DeletionHolds, Idle, Down
    <2> QED
      BY <2>4, <2>5 DEF ProjectsHold
  <1>5. CASE Bury
    <2>1. /\ op.kind = "delete" /\ op.at = "rename" /\ op.project \in Projects /\ marker' = marker
          /\ op.docs = Lasting /\ op.project \in Lasting.known
      BY <1>5 DEF Bury, Running, ControlHolds, JournalHolds, ProjectsHold, DeletionHolds, Lasting
    <2>2. CASE place' = [place EXCEPT ![op.project] = "tombstone"] /\ op' = [op EXCEPT !.at = "remove"]
                 /\ Commit(Without(op.docs, op.project))
      <3>1. \A q \in Projects : Loose(q)' <=> Loose(q)
        BY <1>1, <2>1, <2>2 DEF Loose
      <3>2. OneIsLoose' /\ Whole'
        BY <1>1, <1>2, <2>1, <2>2, <3>1 DEF ProjectsHold, OneIsLoose, Whole, Same
      <3>3. commit'.goal = Without(Lasting, op.project)
        BY <2>1, <2>2, CommitGoal
      <3>4. GoalHolds' /\ ImportHolds' /\ DeletionHolds'
        BY <1>1, <2>1, <2>2, <3>3 DEF GoalHolds, ImportHolds, DeletionHolds, Without
      <3> QED
        BY <1>1, <3>2, <3>4 DEF ProjectsHold
    <2>3. CASE op' = Idle /\ place' = place
      <3>1. OneIsLoose' /\ Whole'
        BY <1>1, <2>1, <2>3, SameFolders
      <3> QED
        BY <1>1, <2>3, <3>1 DEF ProjectsHold, GoalHolds, ImportHolds, DeletionHolds, Idle
    <2> QED
      BY <1>5, <2>2, <2>3 DEF Bury
  <1>6. CASE Deleted \/ DeleteFails
    <2>1. /\ op.kind = "delete" /\ op.at = "remove" /\ op.project \in Projects /\ op' = Idle
          /\ place[op.project] = "tombstone"
          /\ \A q \in Projects \ {op.project} : place'[q] = place[q]
      BY <1>6 DEF Deleted, DeleteFails, Running, ControlHolds, ProjectsHold, DeletionHolds
    <2>2. GoalHolds' /\ ImportHolds' /\ DeletionHolds'
      BY <2>1 DEF GoalHolds, ImportHolds, DeletionHolds, Idle
    <2>3. CASE Deleted
      <3>1. commit.at = "ok" /\ marker' \in {marker, marker \ {op.project}}
            /\ place'[op.project] \in {"none", "tombstone"}
        BY <2>1, <2>3 DEF Deleted, Returned
      <3>2. commit.then = "sealed" /\ disk = commit.goal /\ journal.phase # "prepared"
        BY <2>1, <3>1 DEF ControlHolds, JournalHolds, Committing
      <3>3. op.project \notin Lasting.known
        BY <2>1, <3>2 DEF ProjectsHold, GoalHolds, Lasting
      <3>4. \A q \in Projects : Loose(q)' <=> Loose(q)
        BY <1>1, <2>1, <3>1 DEF Loose
      <3>5. OneIsLoose' /\ Whole'
        BY <1>1, <1>2, <2>1, <3>1, <3>3, <3>4 DEF ProjectsHold, OneIsLoose, Whole, Same, Loose
      <3> QED
        BY <1>1, <2>2, <3>5 DEF ProjectsHold
    <2>4. CASE DeleteFails
      <3>1. commit.at = "threw" /\ marker' = marker /\ place'[op.project] \in {"managed", "tombstone"}
        BY <2>1, <2>4 DEF DeleteFails, Threw
      <3>2. op.project \in Lasting.known
        BY <2>1, <3>1 DEF ProjectsHold, DeletionHolds, Unsealed
      <3>3. \A q \in Projects : Loose(q)' <=> Loose(q)
        BY <1>1, <2>1, <3>2 DEF Loose
      <3>4. OneIsLoose' /\ Whole'
        BY <1>1, <1>2, <2>1, <3>1, <3>2, <3>3 DEF ProjectsHold, OneIsLoose, Whole, Same, Loose
      <3> QED
        BY <1>1, <2>2, <3>4 DEF ProjectsHold
    <2> QED
      BY <1>6, <2>3, <2>4
  <1> QED
    BY <1>1, <1>3, <1>4, <1>5, <1>6

\* The calls that save the workspace alone change the lasting documents, but where a
\* prepared journal will roll them back; a folder that is damaged is not loose.
LEMMA CallsKeepProjects ==
    ASSUME StoreInv, exposed = Free, NEW p \in Projects,
           OpenProject(p) \/ CloseProject(p) \/ Damage(p)
    PROVE  ProjectsHold' /\ (Lasting' = Lasting \/ Changed(Lasting, Lasting', p))
  <1> USE DEF StoreInv, StoreTypeOK
  <1>1. op = Idle /\ UNCHANGED <<place, marker, origin, journal, op>>
    BY DEF OpenProject, CloseProject, SaveOpened, Damage
  <1>2. GoalHolds' /\ ImportHolds' /\ DeletionHolds'
    BY <1>1 DEF GoalHolds, ImportHolds, DeletionHolds, Idle
  <1>3. CASE Damage(p)
    <2>1. Lasting' = Lasting /\ damaged' = damaged \cup {p}
      BY <1>3 DEF Damage, Lasting
    <2>2. \A q : Loose(q)' => Loose(q)
      BY <1>1, <2>1 DEF Loose
    <2>3. OneIsLoose' /\ Whole'
      BY <1>1, <2>1, <2>2 DEF ProjectsHold, OneIsLoose, Whole, Same
    <2> QED
      BY <1>2, <2>1, <2>3 DEF ProjectsHold
  <1>4. CASE OpenProject(p) \/ CloseProject(p)
    <2>1. /\ damaged' = damaged /\ p \in disk.known
          /\ \/ /\ p \notin disk.opened
                /\ disk' = [known |-> disk.known, opened |-> disk.opened \cup {p}]
             \/ /\ p \in disk.opened
                /\ disk' = [known |-> disk.known, opened |-> disk.opened \ {p}]
      BY <1>4 DEF OpenProject, CloseProject, SaveOpened, Docs
    <2>2. /\ Lasting'.known = Lasting.known
          /\ Lasting'.opened \subseteq Lasting.opened \cup Lasting.known
      BY <1>1, <2>1 DEF Lasting
    <2>3. \A q : Loose(q)' <=> Loose(q)
      BY <1>1, <2>1, <2>2 DEF Loose
    <2>4. OneIsLoose' /\ Whole'
      BY <1>1, <2>2, <2>3 DEF ProjectsHold, OneIsLoose, Whole, Same
    <2>5. Lasting' = Lasting \/ Changed(Lasting, Lasting', p)
      BY <1>1, <2>1 DEF Lasting, Changed
    <2> QED
      BY <1>2, <2>4, <2>5 DEF ProjectsHold
  <1> QED
    BY <1>3, <1>4

----------------------------------------------------------------------------
(* The theorems.                                                           *)

\* While no hole has opened, every step keeps the projects and does at most one whole
\* operation to the lasting documents.
LEMMA ProjectsStep ==
    ASSUME StoreInv, StoreNext, exposed = Free, exposed' = Free
    PROVE  /\ ProjectsHold'
           /\ Lasting' = Lasting \/ \E p \in Projects : Changed(Lasting, Lasting', p)
  <1>1. CASE (Prepare \/ SaveLibrary \/ SaveWorkspace \/ Seal \/ RemoveJournal) /\ ~ Sealed
    BY <1>1, QuietStep, QuietKeepsProjects
  <1>2. CASE Sealed
    BY <1>2, SealedStep
  <1>3. CASE CatalogRecovered \/ Sweep \/ TombstonesDone \/ Crash \/ Startup
    BY <1>3, RecoveryKeepsProjects
  <1>4. CASE (\E p \in Projects : Reconcile(p)) \/ Reconciled \/ MarkersDone
    BY <1>4, MarkersKeepProjects
  <1>5. CASE \/ \E p \in Projects : ReopenDuplicate(p) \/ \E source \in Sources : Import(p, source)
             \/ DuplicateHandled \/ Stage
    BY <1>5, ImportKeepsProjects
  <1>6. CASE Promote \/ Imported \/ ImportFails
    BY <1>6, PromotionKeepsProjects
  <1>7. CASE \/ \E p \in Projects : Delete(p) \/ RecoverTombstone(p)
             \/ Bury \/ Deleted \/ DeleteFails
    BY <1>7, DeletionKeepsProjects
  <1>8. ASSUME NEW p \in Projects, OpenProject(p) \/ CloseProject(p) \/ Damage(p)
        PROVE  /\ ProjectsHold'
               /\ Lasting' = Lasting \/ \E q \in Projects : Changed(Lasting, Lasting', q)
    BY <1>8, CallsKeepProjects
  <1> QED
    BY <1>1, <1>2, <1>3, <1>4, <1>5, <1>6, <1>7, <1>8 DEF StoreNext

LEMMA StoreStep == StoreInv /\ [StoreNext]_storeVars => StoreInv'
  <1> SUFFICES ASSUME StoreInv, [StoreNext]_storeVars PROVE StoreInv'
    OBVIOUS
  <1>1. CASE StoreNext
    <2>1. StoreTypeOK' /\ ControlHolds' /\ JournalHolds'
      BY <1>1, TypeStep, ControlStep DEF StoreInv
    <2>2. exposed' = Free => ProjectsHold'
      BY <1>1, HolesStay, ProjectsStep DEF StoreInv
    <2> QED
      BY <2>1, <2>2 DEF StoreInv
  <1>2. CASE UNCHANGED storeVars
    <2> USE <1>2 DEF storeVars, StoreInv
    <2>1. StoreTypeOK' /\ ControlHolds'
      BY DEF StoreTypeOK, ControlHolds
    <2>2. JournalHolds'
      BY DEF JournalHolds
    <2>3. /\ Lasting' = Lasting /\ (Unsealed' <=> Unsealed)
          /\ \A p : (Loose(p)' <=> Loose(p)) /\ (Usable(p)' <=> Usable(p))
      BY DEF Lasting, Unsealed, Loose, Usable
    <2>4. GoalHolds <=> GoalHolds'
      BY <2>3 DEF GoalHolds, Same
    <2>5. ImportHolds <=> ImportHolds'
      BY <2>3 DEF ImportHolds, Same
    <2>6. (DeletionHolds <=> DeletionHolds') /\ (OneIsLoose <=> OneIsLoose') /\ (Whole <=> Whole')
      BY <2>3 DEF DeletionHolds, OneIsLoose, Whole, Same
    <2> QED
      BY <2>1, <2>2, <2>4, <2>5, <2>6 DEF ProjectsHold
  <1> QED
    BY <1>1, <1>2

THEOREM StoreInvariant == StoreSpec => []StoreInv
  BY InitHolds, StoreStep, PTL DEF StoreSpec

\* Whatever moment the server dies at, and whatever writes failed, what CatalogRepository's
\* recovery will find is whole: every indexed project has its folder, no open project is
\* unknown, and a folder that is not indexed has the marker that brings it in.
THEOREM StoreCorrect == StoreSpec => []StoreIsWhole
  <1>1. StoreInv => StoreIsWhole
    BY DEF StoreInv, ProjectsHold, Whole, Loose, Same, StoreIsWhole
  <1> QED
    BY <1>1, StoreInvariant, PTL

\* Through the journal's writes, their failures, the rollbacks and the crashes, the two
\* documents that CatalogRepository's recovery leaves change by whole operations of the
\* library.
THEOREM StoreImplementsLibrary == StoreSpec => ImplementsLibrary
  <1>1. StoreInit => Catalogue!LibraryInit
    BY DEF StoreInit, Catalogue!LibraryInit, Lasting, NoDocs, NoJournal
  <1>2. ASSUME StoreInv, [StoreNext]_storeVars
        PROVE  \/ Catalogue!LibraryNext
               \/ UNCHANGED <<IF exposed = Free THEN Lasting.known ELSE exposed.known,
                             IF exposed = Free THEN Lasting.opened ELSE exposed.opened>>
    <2>1. CASE UNCHANGED storeVars
      BY <2>1 DEF storeVars, Lasting
    <2>2. CASE StoreNext /\ exposed # Free
      BY <1>2, <2>2, HolesStay DEF StoreInv
    <2>3. CASE StoreNext /\ exposed = Free /\ exposed' # Free
      BY <1>2, <2>3, HolesStay DEF StoreInv
    <2>4. CASE StoreNext /\ exposed = Free /\ exposed' = Free
      <3>1. CASE Lasting' = Lasting
        BY <2>4, <3>1
      <3>2. ASSUME NEW p \in Projects, Changed(Lasting, Lasting', p)
            PROVE  \/ Catalogue!Index(p) \/ Catalogue!Remove(p)
                   \/ Catalogue!Open(p) \/ Catalogue!Close(p)
        BY <2>4, <3>2
        DEF Changed, Joined, Without, Catalogue!Index, Catalogue!Remove, Catalogue!Open,
            Catalogue!Close
      <3> QED
        BY <1>2, <2>4, <3>1, <3>2, ProjectsStep DEF Catalogue!LibraryNext
    <2> QED
      BY <1>2, <2>1, <2>2, <2>3, <2>4
  <1> QED
    BY <1>1, <1>2, StoreInvariant, PTL DEF StoreSpec, ImplementsLibrary, Catalogue!LibrarySpec
----------------------------------------------------------------------------
(* The document of a project, for any fragments, tags and editors.          *)

ProjectDocument == [segments : [Pieces -> Shapes \cup {NoValue}], duration : {NoValue, Ticks}]
Listing == [tags : SUBSET Labels, late : SUBSET Labels, unknown : SUBSET Labels]

DocumentTypeOK ==
    /\ document \in ProjectDocument
    /\ labels \subseteq Labels
    /\ held \in [Editors -> ProjectDocument \cup {NoValue}]
    /\ deletedPiece # NoValue => deletedPiece \in [id : Pieces, fragment : Shapes]
    /\ listing # NoValue => listing \in Listing

\* The fragments fit into the video, which has been inspected, and their tags exist.
Fitting(project) ==
    /\ WithinRule(project.segments)
    /\ \A id \in Present(project) :
          /\ project.duration # NoValue /\ project.segments[id].end <= Ticks
          /\ project.segments[id].tags \subseteq labels

\* An editor may hold an older document; that it knows the length means the server does.
HeldFits ==
    \A e \in Editors :
        held[e] # NoValue =>
            Fitting(held[e]) /\ (held[e].duration # NoValue => document.duration # NoValue)

ClosingHolds == closing # NoValue => closing \in Editors /\ held[closing] # NoValue

InspectedHolds == inspection = "completed" => document.duration # NoValue

ListingHolds ==
    listing # NoValue =>
        labels \subseteq listing.tags \cup listing.late /\ listing.unknown \subseteq listing.late

DocumentInv ==
    /\ DocumentTypeOK /\ Fitting(document)
    /\ HeldFits /\ ClosingHolds /\ InspectedHolds /\ ListingHolds

LEMMA DocumentIsSoundByInv == DocumentInv => DocumentIsSound
  <1> SUFFICES ASSUME DocumentInv
               PROVE  DocumentIsSound
    OBVIOUS
  <1>1. FragmentsFit
    BY DEF DocumentInv, Fitting, FragmentsFit
  <1>2. document.duration \in {NoValue, Ticks}
    BY DEF DocumentInv, DocumentTypeOK, ProjectDocument
  <1>3. InspectionStays
    BY <1>2 DEF DocumentInv, InspectedHolds, InspectionStays
  <1>4. ListingIsClosed
    BY DEF DocumentInv, ListingHolds, ListingIsClosed
  <1> QED
    BY <1>1, <1>3, <1>4 DEF DocumentIsSound

\* One fragment of a document replaced, by another or by none.
LEMMA WithOne ==
    ASSUME NEW project \in ProjectDocument, NEW id \in Pieces, NEW fragment \in Shapes \cup {NoValue}
    PROVE  /\ With(project, id, fragment) \in ProjectDocument
           /\ With(project, id, fragment).duration = project.duration
           /\ With(project, id, fragment).segments[id] = fragment
           /\ \A other \in Pieces \ {id} :
                 With(project, id, fragment).segments[other] = project.segments[other]
  <1>1. project.segments \in [Pieces -> Shapes \cup {NoValue}] /\ project.duration \in {NoValue, Ticks}
    BY DEF ProjectDocument
  <1>2. [project.segments EXCEPT ![id] = fragment] \in [Pieces -> Shapes \cup {NoValue}]
    BY <1>1
  <1>3. /\ With(project, id, fragment).segments = [project.segments EXCEPT ![id] = fragment]
        /\ With(project, id, fragment).duration = project.duration
        /\ With(project, id, fragment) \in ProjectDocument
    BY <1>1, <1>2 DEF With, ProjectDocument
  <1> QED
    BY <1>1, <1>3

\* A fragment less leaves the others within the rule.
LEMMA FewerFit ==
    ASSUME NEW project \in ProjectDocument, NEW id \in Pieces, Fitting(project)
    PROVE  Fitting(With(project, id, NoValue))
  <1> DEFINE less == With(project, id, NoValue)
             covers(segments, time) == {x \in Pieces : /\ segments[x] # NoValue
                                                       /\ segments[x].start <= time
                                                       /\ time < segments[x].end}
  <1>1. /\ less.duration = project.duration /\ less.segments[id] = NoValue
        /\ \A other \in Pieces \ {id} : less.segments[other] = project.segments[other]
    BY WithOne
  <1> HIDE DEF less
  <1>2. ASSUME NEW time \in 0..Ticks
        PROVE  Cardinality(covers(less.segments, time)) <= 2
    <2>1. covers(less.segments, time) \subseteq covers(project.segments, time)
      BY <1>1
    <2>2. covers(project.segments, time) \subseteq Pieces
      OBVIOUS
    <2>3. IsFiniteSet(covers(project.segments, time))
      BY <2>2, PiecesAssumption, FS_Subset
    <2>4. /\ IsFiniteSet(covers(less.segments, time))
          /\ Cardinality(covers(less.segments, time)) <= Cardinality(covers(project.segments, time))
      BY <2>1, <2>3, FS_Subset
    <2>5. Cardinality(covers(project.segments, time)) <= 2
      BY DEF Fitting, WithinRule
    <2>6. Cardinality(covers(less.segments, time)) \in Nat
          /\ Cardinality(covers(project.segments, time)) \in Nat
      BY <2>3, <2>4, FS_CardinalityType
    <2> QED
      BY <2>4, <2>5, <2>6
  <1>3. WithinRule(less.segments)
    BY <1>2 DEF WithinRule
  <1>4. \A x \in Present(less) : x \in Present(project) /\ less.segments[x] = project.segments[x]
    BY <1>1 DEF Present
  <1>5. Fitting(less)
    BY <1>1, <1>3, <1>4 DEF Fitting
  <1> QED
    BY <1>5 DEF less

\* A fragment that passes the rule of the editor and the server fits.
LEMMA ValidFits ==
    ASSUME NEW project \in ProjectDocument, NEW id \in Pieces, NEW fragment \in Shapes,
           Fitting(project), ValidTiming(project, id, fragment), fragment.tags \subseteq labels
    PROVE  Fitting(With(project, id, fragment))
  <1> DEFINE more == With(project, id, fragment)
  <1>1. /\ more.duration = project.duration /\ more.segments[id] = fragment
        /\ \A other \in Pieces \ {id} : more.segments[other] = project.segments[other]
    BY WithOne
  <1>2. WithinRule(more.segments) /\ project.duration # NoValue /\ fragment.end <= project.duration
    BY DEF ValidTiming
  <1> HIDE DEF more
  <1>3. project.duration \in {NoValue, Ticks}
    BY DEF ProjectDocument
  <1>4. fragment.end <= Ticks
    BY <1>2, <1>3
  <1>5. ASSUME NEW x \in Present(more)
        PROVE  /\ more.duration # NoValue /\ more.segments[x].end <= Ticks
               /\ more.segments[x].tags \subseteq labels
    <2>1. CASE x = id
      BY <1>1, <1>2, <1>4, <2>1
    <2>2. CASE x # id
      <3>1. x \in Present(project) /\ more.segments[x] = project.segments[x]
        BY <1>1, <1>5, <2>2 DEF Present
      <3> QED
        BY <1>1, <3>1 DEF Fitting
    <2> QED
      BY <2>1, <2>2
  <1>6. Fitting(more)
    BY <1>2, <1>5 DEF Fitting
  <1> QED
    BY <1>6 DEF more

\* What the server keeps of its own when an editor saves.
LEMMA PreservedFits ==
    ASSUME DocumentInv, NEW e \in Editors, held[e] # NoValue
    PROVE  /\ Preserved(held[e]) \in ProjectDocument /\ Fitting(Preserved(held[e]))
           /\ Preserved(held[e]).duration = document.duration
  <1>1. held[e] \in ProjectDocument /\ Fitting(held[e]) /\ document \in ProjectDocument
        /\ (held[e].duration # NoValue => document.duration # NoValue)
    BY DEF DocumentInv, DocumentTypeOK, HeldFits
  <1>2. /\ Preserved(held[e]) \in ProjectDocument
        /\ Preserved(held[e]).segments = held[e].segments
        /\ Preserved(held[e]).duration = document.duration
    BY <1>1 DEF Preserved, ProjectDocument
  <1>3. Present(Preserved(held[e])) = Present(held[e])
    BY <1>2 DEF Present
  <1>4. Fitting(Preserved(held[e]))
    BY <1>1, <1>2, <1>3 DEF Fitting
  <1> QED
    BY <1>2, <1>4

\* A document that fits goes on fitting when tags are added.
LEMMA NowFits ==
    ASSUME NEW now, document' = now, Fitting(now), labels \subseteq labels'
    PROVE  Fitting(document)'
  BY DEF Fitting, WithinRule, Present

\* The documents editors hold, while the server's only learns its length.
LEMMA HeldStays ==
    ASSUME DocumentInv, UNCHANGED held, labels \subseteq labels',
           document.duration # NoValue => document'.duration # NoValue
    PROVE  HeldFits'
  <1> SUFFICES ASSUME NEW e \in Editors, held[e] # NoValue
               PROVE  Fitting(held[e])' /\ (held[e].duration # NoValue => document'.duration # NoValue)
    BY DEF HeldFits
  <1>1. Fitting(held[e]) /\ (held[e].duration # NoValue => document.duration # NoValue)
    BY DEF DocumentInv, HeldFits
  <1> QED
    BY <1>1 DEF Fitting, WithinRule, Present

LEMMA HeldOne ==
    ASSUME DocumentInv, NEW e \in Editors, NEW now \in ProjectDocument \cup {NoValue},
           held' = [held EXCEPT ![e] = now], UNCHANGED labels,
           document'.duration = document.duration,
           now # NoValue => Fitting(now) /\ (now.duration # NoValue => document.duration # NoValue)
    PROVE  held' \in [Editors -> ProjectDocument \cup {NoValue}] /\ HeldFits'
  <1>1. held \in [Editors -> ProjectDocument \cup {NoValue}]
    BY DEF DocumentInv, DocumentTypeOK
  <1>2. held'[e] = now /\ \A other \in Editors \ {e} : held'[other] = held[other]
    BY <1>1
  <1>3. ASSUME NEW x \in Editors, held'[x] # NoValue
        PROVE  Fitting(held[x])' /\ (held'[x].duration # NoValue => document'.duration # NoValue)
    <2>1. CASE x = e
      BY <1>2, <1>3, <2>1 DEF Fitting, WithinRule, Present
    <2>2. CASE x # e
      <3>1. held'[x] = held[x]
        BY <1>2, <2>2
      <3>2. Fitting(held[x]) /\ (held[x].duration # NoValue => document.duration # NoValue)
        BY <1>3, <3>1 DEF DocumentInv, HeldFits
      <3> QED
        BY <3>1, <3>2 DEF Fitting, WithinRule, Present
    <2> QED
      BY <2>1, <2>2
  <1> QED
    BY <1>1, <1>3 DEF HeldFits

\* A step that changes the server's document and nothing else of the rest.
LEMMA DocumentStep ==
    ASSUME DocumentInv, NEW now \in ProjectDocument, document' = now, Fitting(now),
           document.duration # NoValue => now.duration # NoValue,
           UNCHANGED <<labels, held, inspection, closing, listing>>,
           deletedPiece' # NoValue => deletedPiece' \in [id : Pieces, fragment : Shapes]
    PROVE  DocumentInv'
  <1>1. DocumentTypeOK'
    BY DEF DocumentInv, DocumentTypeOK
  <1>2. Fitting(document)'
    BY NowFits
  <1>3. HeldFits'
    BY HeldStays
  <1>4. ClosingHolds' /\ InspectedHolds' /\ ListingHolds'
    BY DEF DocumentInv, ClosingHolds, InspectedHolds, ListingHolds
  <1> QED
    BY <1>1, <1>2, <1>3, <1>4 DEF DocumentInv

\* A step that leaves the server's document.
LEMMA FittingStays ==
    ASSUME DocumentInv, UNCHANGED document, labels \subseteq labels'
    PROVE  Fitting(document)'
  <1>1. Fitting(document)
    BY DEF DocumentInv
  <1> QED
    BY <1>1 DEF Fitting, WithinRule, Present

LEMMA CreateTagKeeps ==
    ASSUME DocumentInv, NEW tag \in Labels, CreateTag(tag)
    PROVE  DocumentInv'
  <1>1. labels' = labels \cup {tag}
        /\ listing' = (IF listing = NoValue THEN listing ELSE [listing EXCEPT !.late = listing.late \cup {tag}])
        /\ UNCHANGED <<document, held, deletedPiece, inspection, opened, closing>>
    BY DEF CreateTag
  <1>2. listing # NoValue =>
          /\ listing \in Listing /\ labels \subseteq listing.tags \cup listing.late
          /\ listing.unknown \subseteq listing.late
    BY DEF DocumentInv, DocumentTypeOK, ListingHolds
  <1>3. ASSUME listing # NoValue
        PROVE  listing' \in Listing /\ labels' \subseteq listing'.tags \cup listing'.late
               /\ listing'.unknown \subseteq listing'.late
    <2>1. listing' = [listing EXCEPT !.late = listing.late \cup {tag}]
      BY <1>1, <1>3
    <2>2. listing'.tags = listing.tags /\ listing'.late = listing.late \cup {tag}
          /\ listing'.unknown = listing.unknown /\ listing' \in Listing
      BY <1>2, <1>3, <2>1 DEF Listing
    <2> QED
      BY <1>1, <1>2, <1>3, <2>2
  <1>4. listing = NoValue => listing' = NoValue
    BY <1>1
  <1>5. DocumentTypeOK'
    BY <1>1, <1>3, <1>4 DEF DocumentInv, DocumentTypeOK
  <1>6. ListingHolds'
    BY <1>3, <1>4 DEF ListingHolds
  <1>7. ClosingHolds' /\ InspectedHolds'
    BY <1>1 DEF DocumentInv, ClosingHolds, InspectedHolds
  <1>8. HeldFits'
    BY <1>1, HeldStays
  <1>9. Fitting(document)'
    BY <1>1, FittingStays
  <1> QED
    BY <1>5, <1>6, <1>7, <1>8, <1>9 DEF DocumentInv

LEMMA UpdateKeeps ==
    ASSUME DocumentInv, NEW id \in Pieces, NEW fragment \in Shapes, UpdateFragment(id, fragment)
    PROVE  DocumentInv'
  <1>1. document \in ProjectDocument /\ Fitting(document)
        /\ (deletedPiece # NoValue => deletedPiece \in [id : Pieces, fragment : Shapes])
    BY DEF DocumentInv, DocumentTypeOK
  <1>2. fragment.tags \subseteq labels /\ ValidTiming(document, id, fragment)
        /\ document' = With(document, id, fragment)
        /\ UNCHANGED <<labels, held, deletedPiece, inspection, opened, closing, listing>>
    BY DEF UpdateFragment
  <1>3. With(document, id, fragment) \in ProjectDocument
        /\ With(document, id, fragment).duration = document.duration
    BY <1>1, WithOne
  <1>4. Fitting(With(document, id, fragment))
    BY <1>1, <1>2, ValidFits
  <1> QED
    BY <1>1, <1>2, <1>3, <1>4, DocumentStep

LEMMA DeleteKeeps ==
    ASSUME DocumentInv, NEW id \in Pieces, DeleteFragment(id)
    PROVE  DocumentInv'
  <1>1. document \in ProjectDocument /\ Fitting(document)
    BY DEF DocumentInv, DocumentTypeOK
  <1>2. id \in Present(document) /\ document' = With(document, id, NoValue)
        /\ deletedPiece' = [id |-> id, fragment |-> document.segments[id]]
        /\ UNCHANGED <<labels, held, inspection, opened, closing, listing>>
    BY DEF DeleteFragment
  <1>3. document.segments[id] \in Shapes
    BY <1>1, <1>2 DEF Present, ProjectDocument
  <1>4. With(document, id, NoValue) \in ProjectDocument
        /\ With(document, id, NoValue).duration = document.duration
    BY <1>1, WithOne
  <1>5. Fitting(With(document, id, NoValue))
    BY <1>1, FewerFit
  <1>6. deletedPiece' \in [id : Pieces, fragment : Shapes]
    BY <1>2, <1>3
  <1> QED
    BY <1>2, <1>4, <1>5, <1>6, DocumentStep

LEMMA RestoreKeeps ==
    ASSUME DocumentInv, RestoreFragment
    PROVE  DocumentInv'
  <1>1. PICK id \in Pieces, fragment \in Shapes : deletedPiece = [id |-> id, fragment |-> fragment]
    BY DEF DocumentInv, DocumentTypeOK, RestoreFragment
  <1>2. deletedPiece.id = id /\ deletedPiece.fragment = fragment
    BY <1>1
  <1>3. document \in ProjectDocument /\ Fitting(document)
        /\ deletedPiece \in [id : Pieces, fragment : Shapes]
    BY <1>1 DEF DocumentInv, DocumentTypeOK
  <1>4. Restorable(id, fragment) /\ document' = With(document, id, fragment)
        /\ UNCHANGED <<labels, held, deletedPiece, inspection, opened, closing, listing>>
    BY <1>2, Zenon DEF RestoreFragment
  <1>5. ValidTiming(document, id, fragment) /\ fragment.tags \subseteq labels
    BY <1>4 DEF Restorable
  <1>6. With(document, id, fragment) \in ProjectDocument
        /\ With(document, id, fragment).duration = document.duration
    BY <1>3, WithOne
  <1>7. Fitting(With(document, id, fragment))
    BY <1>3, <1>5, ValidFits
  <1> QED
    BY <1>3, <1>4, <1>6, <1>7, DocumentStep

\* A step of an editor: its own document changes.
LEMMA EditorStep ==
    ASSUME DocumentInv, NEW e \in Editors, NEW now \in ProjectDocument \cup {NoValue},
           held' = [held EXCEPT ![e] = now],
           now # NoValue => Fitting(now) /\ (now.duration # NoValue => document.duration # NoValue),
           UNCHANGED <<document, labels, deletedPiece, inspection, listing>>,
           ClosingHolds'
    PROVE  DocumentInv'
  <1>1. held' \in [Editors -> ProjectDocument \cup {NoValue}] /\ HeldFits'
    BY HeldOne
  <1>2. DocumentTypeOK'
    BY <1>1 DEF DocumentInv, DocumentTypeOK
  <1>3. InspectedHolds' /\ ListingHolds'
    BY DEF DocumentInv, InspectedHolds, ListingHolds
  <1>4. Fitting(document)'
    BY FittingStays
  <1> QED
    BY <1>1, <1>2, <1>3, <1>4 DEF DocumentInv

LEMMA ReadKeepsDocument ==
    ASSUME DocumentInv, NEW e \in Editors, ReadDocument(e)
    PROVE  DocumentInv'
  <1>1. closing = NoValue /\ held' = [held EXCEPT ![e] = document]
        /\ UNCHANGED <<document, labels, deletedPiece, inspection, opened, closing, listing>>
    BY DEF ReadDocument
  <1>2. document \in ProjectDocument /\ Fitting(document)
    BY DEF DocumentInv, DocumentTypeOK
  <1>3. ClosingHolds'
    BY <1>1 DEF ClosingHolds
  <1> QED
    BY <1>1, <1>2, <1>3, EditorStep

LEMMA EditHeldKeeps ==
    ASSUME DocumentInv, NEW e \in Editors, NEW id \in Pieces, NEW fragment \in Shapes \cup {NoValue},
           EditHeld(e, id, fragment)
    PROVE  DocumentInv'
  <1> DEFINE now == With(held[e], id, fragment)
  <1>1. held[e] # NoValue /\ closing # e /\ held' = [held EXCEPT ![e] = now]
        /\ (fragment # NoValue => fragment.tags \subseteq labels /\ ValidTiming(held[e], id, fragment))
        /\ UNCHANGED <<document, labels, deletedPiece, inspection, opened, closing, listing>>
    BY DEF EditHeld
  <1>2. held \in [Editors -> ProjectDocument \cup {NoValue}] /\ held[e] \in ProjectDocument
        /\ Fitting(held[e]) /\ (held[e].duration # NoValue => document.duration # NoValue)
    BY <1>1 DEF DocumentInv, DocumentTypeOK, HeldFits
  <1>3. now \in ProjectDocument /\ now.duration = held[e].duration
    BY <1>2, WithOne
  <1>4. Fitting(now)
    <2>1. CASE fragment = NoValue
      BY <1>2, <2>1, FewerFit
    <2>2. CASE fragment # NoValue
      BY <1>1, <1>2, <2>2, ValidFits
    <2> QED
      BY <2>1, <2>2
  <1> HIDE DEF now
  <1>5. ClosingHolds'
    BY <1>1, <1>2 DEF DocumentInv, ClosingHolds
  <1> QED
    BY <1>1, <1>2, <1>3, <1>4, <1>5, EditorStep

LEMMA SaveKeeps ==
    ASSUME DocumentInv, NEW e \in Editors, SaveProject(e)
    PROVE  DocumentInv'
  <1> DEFINE now == Preserved(held[e])
  <1>1. held[e] # NoValue /\ document' = now /\ held' = [held EXCEPT ![e] = document']
        /\ closing = NoValue
        /\ UNCHANGED <<labels, deletedPiece, inspection, opened, closing, listing>>
    BY DEF SaveProject
  <1>2. now \in ProjectDocument /\ Fitting(now) /\ now.duration = document.duration
    BY <1>1, PreservedFits
  <1> HIDE DEF now
  <1>3. held' = [held EXCEPT ![e] = now]
    BY <1>1
  <1>4. held' \in [Editors -> ProjectDocument \cup {NoValue}] /\ HeldFits'
    BY <1>1, <1>2, <1>3, HeldOne
  <1>5. DocumentTypeOK'
    BY <1>1, <1>2, <1>4 DEF DocumentInv, DocumentTypeOK
  <1>6. ClosingHolds' /\ InspectedHolds' /\ ListingHolds'
    BY <1>1, <1>2 DEF DocumentInv, ClosingHolds, InspectedHolds, ListingHolds
  <1>7. Fitting(document)'
    BY <1>1, <1>2, NowFits
  <1> QED
    BY <1>4, <1>5, <1>6, <1>7 DEF DocumentInv

LEMMA CloseKeeps ==
    ASSUME DocumentInv,
           \/ \E e \in Editors : CloseWithDocument(e)
           \/ CloseFails \/ Reopen \/ InspectionCompletes
    PROVE  DocumentInv'
  <1>1. UNCHANGED <<document, labels, held, deletedPiece, listing>>
    BY DEF CloseWithDocument, CloseFails, Reopen, InspectionCompletes
  <1>2. DocumentTypeOK' /\ ListingHolds'
    BY <1>1 DEF DocumentInv, DocumentTypeOK, ListingHolds
  <1>3. HeldFits' /\ Fitting(document)'
    BY <1>1, HeldStays, FittingStays
  <1>4. ClosingHolds'
    BY <1>1 DEF DocumentInv, ClosingHolds, CloseWithDocument, CloseFails, Reopen, InspectionCompletes
  <1>5. InspectedHolds'
    BY <1>1 DEF DocumentInv, InspectedHolds, CloseWithDocument, CloseFails, Reopen, InspectionCompletes
  <1> QED
    BY <1>2, <1>3, <1>4, <1>5 DEF DocumentInv

LEMMA CloseWritesKeeps ==
    ASSUME DocumentInv, CloseWritesProject \/ CloseWritesWorkspace
    PROVE  DocumentInv'
  <1>1. PICK e \in Editors : closing = e /\ held[e] # NoValue
    BY DEF DocumentInv, ClosingHolds, CloseWritesProject, CloseWritesWorkspace
  <1>2. CASE CloseWritesProject
    <2> DEFINE now == Preserved(held[e])
    <2>1. document' = now
          /\ UNCHANGED <<labels, held, deletedPiece, inspection, opened, closing, listing>>
      BY <1>1, <1>2 DEF CloseWritesProject
    <2>2. now \in ProjectDocument /\ Fitting(now) /\ now.duration = document.duration
      BY <1>1, PreservedFits
    <2>3. deletedPiece' # NoValue => deletedPiece' \in [id : Pieces, fragment : Shapes]
      BY <2>1 DEF DocumentInv, DocumentTypeOK
    <2> HIDE DEF now
    <2> QED
      BY <2>1, <2>2, <2>3, DocumentStep
  <1>3. CASE CloseWritesWorkspace
    <2>1. closing' = NoValue /\ held' = [held EXCEPT ![e] = NoValue]
          /\ UNCHANGED <<document, labels, deletedPiece, inspection, listing>>
      BY <1>1, <1>3 DEF CloseWritesWorkspace
    <2>2. ClosingHolds'
      BY <2>1 DEF ClosingHolds
    <2> QED
      BY <2>1, <2>2, EditorStep
  <1> QED
    BY <1>2, <1>3

LEMMA MetadataKeeps ==
    ASSUME DocumentInv, UpdateSourceMetadata
    PROVE  DocumentInv'
  <1> DEFINE now == [document EXCEPT !.duration = Ticks]
  <1>1. document \in ProjectDocument /\ Fitting(document)
        /\ (deletedPiece # NoValue => deletedPiece \in [id : Pieces, fragment : Shapes])
    BY DEF DocumentInv, DocumentTypeOK
  <1>2. document' = now
        /\ UNCHANGED <<labels, held, deletedPiece, inspection, opened, closing, listing>>
    BY DEF UpdateSourceMetadata
  <1>3. now \in ProjectDocument /\ now.segments = document.segments /\ now.duration = Ticks
    BY <1>1 DEF ProjectDocument
  <1> HIDE DEF now
  <1>4. ASSUME document.duration # NoValue
        PROVE  now.duration # NoValue
    BY <1>1, <1>3, <1>4 DEF ProjectDocument
  <1>5. Present(now) # {} => now.duration # NoValue
    BY <1>1, <1>3, <1>4 DEF Fitting, Present
  <1>6. Fitting(now)
    BY <1>1, <1>3, <1>5 DEF Fitting, Present
  <1> QED
    BY <1>1, <1>2, <1>3, <1>4, <1>6, DocumentStep

LEMMA ListingKeeps ==
    ASSUME DocumentInv, ListTags \/ ListFragments
    PROVE  DocumentInv'
  <1>1. UNCHANGED <<document, labels, held, deletedPiece, inspection, opened, closing>>
    BY DEF ListTags, ListFragments
  <1>2. labels \subseteq Labels /\ Fitting(document)
    BY DEF DocumentInv, DocumentTypeOK
  <1>3. listing' # NoValue => listing' \in Listing /\ labels \subseteq listing'.tags \cup listing'.late
                               /\ listing'.unknown \subseteq listing'.late
    <2>1. CASE ListTags
      <3>1. listing' = [tags |-> labels, late |-> {}, unknown |-> {}]
        BY <2>1 DEF ListTags
      <3> QED
        BY <1>2, <3>1 DEF Listing
    <2>2. CASE ListFragments
      <3> DEFINE used == UNION {document.segments[id].tags : id \in Present(document)}
      <3>1. listing # NoValue /\ listing' = [listing EXCEPT !.unknown = used \ listing.tags]
        BY <2>2 DEF ListFragments
      <3>2. listing \in Listing /\ labels \subseteq listing.tags \cup listing.late
        BY <3>1 DEF DocumentInv, DocumentTypeOK, ListingHolds
      <3>3. used \subseteq labels
        BY <1>2 DEF Fitting
      <3> HIDE DEF used
      <3>4. listing' \in Listing /\ listing'.unknown = used \ listing.tags
            /\ listing'.tags = listing.tags /\ listing'.late = listing.late
        BY <1>2, <3>1, <3>2, <3>3 DEF Listing
      <3> QED
        BY <3>2, <3>3, <3>4
    <2> QED
      BY <2>1, <2>2
  <1>4. DocumentTypeOK'
    BY <1>1, <1>3 DEF DocumentInv, DocumentTypeOK
  <1>5. ListingHolds'
    BY <1>1, <1>3 DEF ListingHolds
  <1>6. ClosingHolds' /\ InspectedHolds'
    BY <1>1 DEF DocumentInv, ClosingHolds, InspectedHolds
  <1>7. HeldFits' /\ Fitting(document)'
    BY <1>1, HeldStays, FittingStays
  <1> QED
    BY <1>4, <1>5, <1>6, <1>7 DEF DocumentInv

LEMMA DocumentStarts == DocumentInit => DocumentInv
  <1> SUFFICES ASSUME DocumentInit
               PROVE  DocumentInv
    OBVIOUS
  <1>1. document = [segments |-> [id \in Pieces |-> NoValue], duration |-> NoValue]
        /\ labels = {} /\ held = [e \in Editors |-> NoValue] /\ deletedPiece = NoValue
        /\ inspection = "queued" /\ closing = NoValue /\ listing = NoValue
    BY DEF DocumentInit
  <1>2. document \in ProjectDocument /\ \A id \in Pieces : document.segments[id] = NoValue
    BY <1>1 DEF ProjectDocument
  <1>3. DocumentTypeOK
    BY <1>1, <1>2 DEF DocumentTypeOK
  <1>4. Present(document) = {}
    BY <1>2 DEF Present
  <1>5. WithinRule(document.segments)
    <2> SUFFICES ASSUME NEW time \in 0..Ticks
                 PROVE  Cardinality({id \in Pieces : /\ document.segments[id] # NoValue
                                                     /\ document.segments[id].start <= time
                                                     /\ time < document.segments[id].end}) <= 2
      BY DEF WithinRule
    <2>1. {id \in Pieces : /\ document.segments[id] # NoValue
                           /\ document.segments[id].start <= time
                           /\ time < document.segments[id].end} = {}
      BY <1>2
    <2>2. Cardinality({}) = 0
      BY FS_EmptySet
    <2> QED
      BY <2>1, <2>2
  <1>6. Fitting(document)
    BY <1>4, <1>5 DEF Fitting
  <1>7. HeldFits
    BY <1>1 DEF HeldFits
  <1> QED
    BY <1>1, <1>3, <1>6, <1>7 DEF DocumentInv, ClosingHolds, InspectedHolds, ListingHolds

\* The server's document and every older one an editor holds keep the rules, so that saving an old
\* one whole cannot break them (services.ts, project-repository.ts).
THEOREM DocumentInvariant == DocumentSpec => []DocumentInv
  <1>1. DocumentInit => DocumentInv
    BY DocumentStarts
  <1>2. DocumentInv /\ [DocumentNext]_documentVars => DocumentInv'
    <2> SUFFICES ASSUME DocumentInv, [DocumentNext]_documentVars
                 PROVE  DocumentInv'
      OBVIOUS
    <2>1. CASE UNCHANGED documentVars
      <3>1. UNCHANGED <<document, labels, held, deletedPiece, inspection, opened, closing, listing>>
        BY <2>1 DEF documentVars
      <3>2. HeldFits' /\ Fitting(document)'
        BY <3>1, HeldStays, FittingStays
      <3> QED
        BY <3>1, <3>2 DEF DocumentInv, DocumentTypeOK, ClosingHolds, InspectedHolds, ListingHolds
    <2>2. CASE \E id \in Pieces : DeleteFragment(id) \/ \E shape \in Shapes : UpdateFragment(id, shape)
      BY <2>2, DeleteKeeps, UpdateKeeps
    <2>3. CASE \E e \in Editors :
                  \/ ReadDocument(e) \/ SaveProject(e) \/ CloseWithDocument(e)
                  \/ \E id \in Pieces, shape \in Shapes \cup {NoValue} : EditHeld(e, id, shape)
      BY <2>3, ReadKeepsDocument, SaveKeeps, CloseKeeps, EditHeldKeeps
    <2> QED
      BY <2>1, <2>2, <2>3, CreateTagKeeps, RestoreKeeps, CloseKeeps, CloseWritesKeeps, MetadataKeeps,
         ListingKeeps
      DEF DocumentNext
  <1> QED
    BY <1>1, <1>2, PTL DEF DocumentSpec

\* The fragments of a project fit into its video, two at a time; what the inspection found stays; a
\* listing names every tag it uses but newer ones: for any fragments, tags and editors (services.ts).
THEOREM DocumentStaysSound == DocumentSpec => []DocumentIsSound
  BY DocumentInvariant, DocumentIsSoundByInv, PTL
=============================================================================
