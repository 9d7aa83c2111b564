---------------------------- MODULE ManagedStore ----------------------------
(***************************************************************************)
(* The JSON store: CatalogRepository's journaled commit of two documents,    *)
(* ImportService and ProjectDeletion, which rename directories around it,     *)
(* the calls that save the workspace alone, and the recovery at startup.      *)
(* Every write may fail without effect, or after it took effect (writeJson-   *)
(* Atomic syncs the directory after the rename), and the server may die       *)
(* between any two of them.  The services' queue runs one operation at a time. *)
(***************************************************************************)
EXTENDS Naturals, FiniteSets

CONSTANTS Projects,      \* project ids, each allocated once
          Sources,       \* what is imported: fingerprints
          Free,          \* an operation or a project that is not there
          MaxSpent       \* bound on failing writes, crashes and folders damaged from outside

VARIABLES disk,        \* library.json and workspace.json: [known, opened]
          journal,     \* [phase, before]
          place,       \* the folder of each project
          marker,      \* the folders that hold an import marker
          origin,      \* the fingerprint each project was imported from
          damaged,     \* the folders whose source or sidecar is unusable
          op,          \* the operation of the queue: [kind, project, at, docs]
          commit,      \* CatalogRepository's call: [at, then, docs, goal]
          exposed,     \* Free, or the lasting documents when a hole opened
          spent        \* failing writes, crashes and damaged folders so far

storeVars == <<disk, journal, place, marker, origin, damaged, op, commit, exposed, spent>>

Docs == [known : SUBSET Projects, opened : SUBSET Projects]

ASSUME FreeAssumption == Free \notin Projects \cup Sources \cup Docs

NoDocs == [known |-> {}, opened |-> {}]
NoJournal == [phase |-> "none", before |-> NoDocs]
NoCommit == [at |-> "none", then |-> "none", docs |-> NoDocs, goal |-> NoDocs]
Idle == [kind |-> "idle", project |-> Free, at |-> "none", docs |-> NoDocs]
Down == [Idle EXCEPT !.kind = "down"]

StoreInit ==
    /\ disk = NoDocs /\ journal = NoJournal
    /\ place = [p \in Projects |-> "none"] /\ marker = {} /\ damaged = {}
    /\ origin = [p \in Projects |-> Free]
    /\ op = Idle /\ commit = NoCommit
    /\ exposed = Free
    /\ spent = 0

\* The documents that will be read once a prepared journal is rolled back.
Lasting == IF journal.phase = "prepared" THEN journal.before ELSE disk

Indexed(p) == [known |-> {p}, opened |-> {p}]
Joined(docs, p) == [known |-> docs.known \cup {p}, opened |-> docs.opened \cup {p}]
Without(docs, p) == [known |-> docs.known \ {p}, opened |-> docs.opened \ {p}]

Fault == spent < MaxSpent /\ spent' = spent + 1

Unexposed == UNCHANGED exposed

----------------------------------------------------------------------------
(* CatalogRepository. *)

MutRecover(then, goal) ==
    commit' = [at |-> IF journal.phase = "none" THEN then ELSE "remove",
               then |-> then, docs |-> journal.before, goal |-> goal]

\* recoverUnlocked, alone ("ok") or first thing in a commit ("prepare"): a prepared
\* journal is rolled back with the same writes a commit uses, a committed one removed.
Recover(then, goal) ==
    commit' = [at |-> CASE journal.phase = "prepared" -> "library"
                        [] journal.phase = "committed" -> "remove"
                        [] OTHER -> then,
               then |-> then, docs |-> journal.before, goal |-> goal]

Commit(goal) == Recover("prepare", goal)

Rollback ==
    commit' = [commit EXCEPT !.at = "library", !.then = "threw", !.docs = journal.before]

\* A write of a commit that goes forward rolls back; any other throws as it is.
WriteThrows ==
    IF commit.then = "sealed" THEN Rollback ELSE commit' = [commit EXCEPT !.at = "threw"]

Quietly == UNCHANGED <<place, marker, origin, damaged, op>>

\* writeJournal, then both documents: outside the try, so a failure rolls nothing back.
Prepare ==
    /\ commit.at = "prepare"
    /\ LET prepared == [phase |-> "prepared", before |-> disk]
       IN  \/ /\ journal' = prepared
              /\ commit' = [commit EXCEPT !.at = "library", !.then = "sealed", !.docs = commit.goal]
              /\ UNCHANGED spent
           \/ /\ Fault
              /\ journal' \in {journal, prepared}
              /\ commit' = [commit EXCEPT !.at = "threw"]
    /\ Unexposed /\ UNCHANGED disk /\ Quietly

SaveLibrary ==
    /\ commit.at = "library"
    /\ LET saved == [disk EXCEPT !.known = commit.docs.known]
       IN  \/ disk' = saved /\ commit' = [commit EXCEPT !.at = "workspace"] /\ UNCHANGED spent
           \/ Fault /\ disk' \in {disk, saved} /\ WriteThrows
    /\ Unexposed /\ UNCHANGED journal /\ Quietly

AfterWorkspace == IF commit.then = "sealed" THEN "seal" ELSE "remove"

SaveWorkspace ==
    /\ commit.at = "workspace"
    /\ LET saved == [disk EXCEPT !.opened = commit.docs.opened]
       IN  \/ disk' = saved /\ commit' = [commit EXCEPT !.at = AfterWorkspace] /\ UNCHANGED spent
           \/ Fault /\ disk' \in {disk, saved} /\ WriteThrows
    /\ Unexposed /\ UNCHANGED journal /\ Quietly

\* The committed journal is the commit point.  A failure after it took effect rolls
\* the documents back under a journal that no longer protects them: a hole.
Seal ==
    /\ commit.at = "seal"
    /\ LET sealed == [journal EXCEPT !.phase = "committed"]
       IN  \/ /\ journal' = sealed /\ commit' = [commit EXCEPT !.at = "clear"]
              /\ UNCHANGED <<spent, exposed>>
           \/ Fault /\ WriteThrows /\ UNCHANGED <<journal, exposed>>
           \/ /\ Fault /\ WriteThrows /\ journal' = sealed
              /\ exposed' = IF exposed = Free THEN Lasting ELSE exposed
    /\ UNCHANGED disk /\ Quietly

\* After a restore the journal must go; a commit's own clean-up is best effort.
RemoveJournal ==
    /\ commit.at \in {"remove", "clear"}
    /\ \/ /\ journal' = NoJournal
          /\ commit' = [commit EXCEPT !.at = IF @ = "clear" THEN "ok" ELSE commit.then]
          /\ UNCHANGED spent
       \/ /\ Fault
          /\ journal' \in {journal, NoJournal}
          /\ commit' = [commit EXCEPT !.at = IF @ = "clear" THEN "ok" ELSE "threw"]
    /\ Unexposed /\ UNCHANGED disk /\ Quietly

Returned == commit.at = "ok"
Threw == commit.at = "threw"
Running(kind, at) == op.kind = kind /\ op.at = at
AtStartup == op.kind = "startup"

----------------------------------------------------------------------------
(* ImportService. *)

Begin(kind, p) == op = Idle /\ op' = [Idle EXCEPT !.kind = kind, !.project = p, !.at = "catalog"]

\* A recovery that throws ends the import, or the startup with the server.
GiveUp == op' = (IF AtStartup THEN Down ELSE Idle) /\ commit' = NoCommit

Import(p, source) ==
    /\ place[p] = "none" /\ origin[p] = Free
    /\ Begin("import", p)
    /\ origin' = [origin EXCEPT ![p] = source]
    /\ Recover("ok", NoDocs)
    /\ UNCHANGED <<disk, journal, place, marker, damaged, exposed, spent>>

CatalogRecovered ==
    /\ op.at = "catalog" /\ (Returned \/ Threw)
    /\ IF Threw THEN GiveUp
       ELSE op' = [op EXCEPT !.at = IF AtStartup THEN "tombstones" ELSE "sweep"] /\ commit' = NoCommit
    /\ UNCHANGED <<disk, journal, place, marker, origin, damaged, exposed, spent>>

Staging == {p \in Projects : place[p] = "importing"}

\* What an interrupted import left is removed; its marker goes with the folder.
Sweep ==
    /\ op.at = "sweep"
    /\ \/ /\ op' = [op EXCEPT !.at = "markers"]
          /\ place' = [p \in Projects |-> IF p \in Staging THEN "none" ELSE place[p]]
          /\ marker' = marker \ Staging
          /\ UNCHANGED <<spent, commit>>
       \/ Staging # {} /\ Fault /\ GiveUp /\ UNCHANGED <<place, marker>>
    /\ UNCHANGED <<disk, journal, origin, damaged, exposed>>

Pending == {p \in marker : place[p] = "managed"}
Unindexed == {p \in Pending : p \notin disk.known}

\* The indexed entry of another project with the same source: recovery refuses it.
Conflicts(p) == \E q \in disk.known : q # p /\ origin[q] = origin[p]

\* reconcileMarker: an indexed project loses its marker (or keeps it, if the unlink
\* fails); one that is not indexed is committed, once its folder is validated.
Reconcile(p) ==
    /\ op.at = "markers" /\ commit = NoCommit /\ p \in Unindexed
    /\ IF Conflicts(p) \/ p \in damaged
       THEN GiveUp
       ELSE Commit(Joined(disk, p)) /\ op' = [op EXCEPT !.docs = Indexed(p)]
    /\ UNCHANGED <<disk, journal, place, marker, origin, damaged, exposed, spent>>

Reconciled ==
    /\ op.at = "markers" /\ (Returned \/ Threw)
    /\ IF Threw THEN GiveUp /\ UNCHANGED marker
       ELSE /\ commit' = NoCommit /\ UNCHANGED op
            /\ marker' \in {marker, marker \ op.docs.known}
    /\ UNCHANGED <<disk, journal, place, origin, damaged, exposed, spent>>

\* The import reads the library; a startup is over.
MarkersDone ==
    /\ op.at = "markers" /\ commit = NoCommit /\ Unindexed = {}
    /\ \E left \in SUBSET (Pending \cap disk.known) : marker' = (marker \ Pending) \cup left
    /\ op' = IF AtStartup THEN Idle ELSE [op EXCEPT !.at = "library", !.docs = disk]
    /\ UNCHANGED <<disk, journal, place, origin, damaged, commit, exposed, spent>>

Usable(p) == place[p] = "managed" /\ p \notin damaged
Duplicates == {p \in op.docs.known : origin[p] = origin[op.project]}

\* A usable duplicate is opened instead; an unusable one leaves both documents.
ReopenDuplicate(p) ==
    /\ Running("import", "library") /\ commit = NoCommit
    /\ p \in Duplicates
    /\ IF Usable(p)
       THEN /\ Commit([known |-> op.docs.known, opened |-> disk.opened \cup {p}])
            /\ op' = [op EXCEPT !.at = "reopen"]
       ELSE /\ Commit([known |-> op.docs.known \ {p}, opened |-> disk.opened \ {p}])
            /\ op' = [op EXCEPT !.at = "discard", !.docs = Without(@, p)]
    /\ UNCHANGED <<disk, journal, place, marker, origin, damaged, exposed, spent>>

DuplicateHandled ==
    /\ op.at \in {"reopen", "discard"} /\ (Returned \/ Threw)
    /\ commit' = NoCommit
    /\ op' = IF Threw \/ op.at = "reopen" THEN Idle ELSE [op EXCEPT !.at = "library"]
    /\ UNCHANGED <<disk, journal, place, marker, origin, damaged, exposed, spent>>

\* Copy, validation, sidecar, job and marker, all in the .importing folder; what
\* fails removes the folder, as best it can.
Stage ==
    /\ Running("import", "library") /\ commit = NoCommit /\ Duplicates = {}
    /\ \/ /\ op' = [op EXCEPT !.at = "staged"]
          /\ place' = [place EXCEPT ![op.project] = "importing"]
          /\ marker' = marker \cup {op.project}
          /\ UNCHANGED spent
       \/ /\ Fault /\ op' = Idle /\ UNCHANGED marker
          /\ \E left \in {"none", "importing"} : place' = [place EXCEPT ![op.project] = left]
    /\ UNCHANGED <<disk, journal, origin, damaged, commit, exposed>>

\* The rename that promotes the folder, the sync of its parent, and the commit.
Promote ==
    /\ Running("import", "staged") /\ commit = NoCommit
    /\ \/ /\ place' = [place EXCEPT ![op.project] = "managed"]
          /\ Commit([known |-> op.docs.known \cup {op.project},
                     opened |-> disk.opened \cup {op.project}])
          /\ op' = [op EXCEPT !.at = "index"]
          /\ UNCHANGED spent
       \/ /\ Fault
          /\ \/ place' = place
             \/ place' = [place EXCEPT ![op.project] = "managed"]
          /\ commit' = [NoCommit EXCEPT !.at = "threw"]
          /\ op' = [op EXCEPT !.at = "index"]
    /\ UNCHANGED <<disk, journal, marker, origin, damaged, exposed>>

\* Done, with its marker removed as best it can.
Imported ==
    /\ Running("import", "index") /\ Returned
    /\ marker' \in {marker, marker \ {op.project}}
    /\ op' = Idle /\ commit' = NoCommit
    /\ UNCHANGED <<disk, journal, place, origin, damaged, exposed, spent>>

\* isIndexed reads the library; when that fails the folder counts as indexed.
KeepPromoted == op.project \in disk.known

\* The folder goes back to .importing and is removed, unless it is indexed: then it
\* stays, with its marker, for the next recovery.
ImportFails ==
    /\ Running("import", "index") /\ Threw
    /\ \/ /\ place[op.project] = "managed"
          /\ KeepPromoted \/ Fault
          /\ UNCHANGED <<place, marker>>
          /\ KeepPromoted => UNCHANGED spent
       \/ /\ place[op.project] = "importing" \/ ~ KeepPromoted
          /\ \/ /\ place' = [place EXCEPT ![op.project] = "none"]
                /\ marker' = marker \ {op.project}
                /\ UNCHANGED spent
             \/ /\ place' = [place EXCEPT ![op.project] = "importing"]
                /\ Fault /\ UNCHANGED marker
    /\ op' = Idle /\ commit' = NoCommit
    /\ UNCHANGED <<disk, journal, origin, damaged, exposed>>

----------------------------------------------------------------------------
(* ProjectDeletion. *)

\* The documents are read before the commit recovers a journal that a failed rollback
\* left prepared, and the commit then writes what was read: the other hole.
Delete(p) ==
    /\ p \in disk.known
    /\ op = Idle
    /\ op' = [kind |-> "delete", project |-> p, at |-> "rename", docs |-> disk]
    /\ exposed' = IF exposed = Free /\ journal.phase = "prepared" THEN Lasting ELSE exposed
    /\ UNCHANGED <<disk, journal, place, marker, origin, damaged, commit, spent>>

\* A folder that is not there, or a rename that fails, ends the deletion.
Bury ==
    /\ Running("delete", "rename")
    /\ \/ /\ place[op.project] = "managed"
          /\ place' = [place EXCEPT ![op.project] = "tombstone"]
          /\ Commit(Without(op.docs, op.project))
          /\ op' = [op EXCEPT !.at = "remove"]
          /\ UNCHANGED spent
       \/ /\ IF place[op.project] = "managed" THEN Fault ELSE UNCHANGED spent
          /\ op' = Idle /\ UNCHANGED <<place, commit>>
    /\ UNCHANGED <<disk, journal, marker, origin, damaged, exposed>>

\* The removal of the tombstone is not awaited, and may not happen.
Deleted ==
    /\ Running("delete", "remove") /\ Returned
    /\ \E left \in {"none", "tombstone"} : place' = [place EXCEPT ![op.project] = left]
    /\ marker' = IF place'[op.project] = "none" THEN marker \ {op.project} ELSE marker
    /\ op' = Idle /\ commit' = NoCommit
    /\ UNCHANGED <<disk, journal, origin, damaged, exposed, spent>>

\* The folder is renamed back; if that fails the next startup does it.
DeleteFails ==
    /\ Running("delete", "remove") /\ Threw
    /\ \/ place' = [place EXCEPT ![op.project] = "managed"] /\ UNCHANGED spent
       \/ Fault /\ UNCHANGED place
    /\ op' = Idle /\ commit' = NoCommit
    /\ UNCHANGED <<disk, journal, marker, origin, damaged, exposed>>

----------------------------------------------------------------------------
(* The calls that save the workspace alone: they neither write nor read the journal. *)

SaveOpened(opened) ==
    /\ op = Idle
    /\ disk' = [disk EXCEPT !.opened = opened]
    /\ UNCHANGED <<journal, place, marker, origin, damaged, op, commit, exposed, spent>>

OpenProject(p) == p \in disk.known \ disk.opened /\ Usable(p) /\ SaveOpened(disk.opened \cup {p})

\* closeProject saves the project's document first, which needs its folder.
CloseProject(p) == p \in disk.opened \cap disk.known /\ Usable(p) /\ SaveOpened(disk.opened \ {p})

----------------------------------------------------------------------------
(* The server dies and starts again; something else damages a folder. *)

Crash ==
    /\ op.kind \notin {"idle", "down"}
    /\ Fault
    /\ op' = Down /\ commit' = NoCommit
    /\ UNCHANGED <<disk, journal, place, marker, origin, damaged, exposed>>

\* services.recover: the deletions first, then the imports.
Startup ==
    /\ op = Down
    /\ op' = [Idle EXCEPT !.kind = "startup", !.at = "catalog"]
    /\ Recover("ok", NoDocs)
    /\ UNCHANGED <<disk, journal, place, marker, origin, damaged, exposed, spent>>

Tombstones == {p \in Projects : place[p] = "tombstone"}

MutHome(p) == "none"

\* ProjectDeletion.recover: back if the project is indexed, away if not.
Home(p) == IF p \in disk.known THEN "managed" ELSE "none"

RecoverTombstone(p) ==
    /\ Running("startup", "tombstones") /\ p \in Tombstones
    /\ \/ /\ place' = [place EXCEPT ![p] = Home(p)]
          /\ marker' = IF Home(p) = "none" THEN marker \ {p} ELSE marker
          /\ UNCHANGED <<op, commit, spent>>
       \/ Fault /\ GiveUp /\ UNCHANGED <<place, marker>>
    /\ UNCHANGED <<disk, journal, origin, damaged, exposed>>

TombstonesDone ==
    /\ Running("startup", "tombstones") /\ Tombstones = {}
    /\ op' = [op EXCEPT !.at = "sweep"]
    /\ UNCHANGED <<disk, journal, place, marker, origin, damaged, commit, exposed, spent>>

Damage(p) ==
    /\ Fault
    /\ place[p] = "managed" /\ p \in disk.known \ damaged /\ op = Idle
    /\ damaged' = damaged \cup {p}
    /\ UNCHANGED <<disk, journal, place, marker, origin, op, commit, exposed>>

StoreNext ==
    \/ Prepare \/ SaveLibrary \/ SaveWorkspace \/ Seal \/ RemoveJournal
    \/ CatalogRecovered \/ Sweep \/ Reconciled \/ MarkersDone
    \/ DuplicateHandled \/ Stage \/ Promote \/ Imported \/ ImportFails
    \/ Bury \/ Deleted \/ DeleteFails
    \/ Crash \/ Startup \/ TombstonesDone
    \/ \E p \in Projects :
        \/ Reconcile(p) \/ ReopenDuplicate(p) \/ Delete(p)
        \/ OpenProject(p) \/ CloseProject(p) \/ RecoverTombstone(p) \/ Damage(p)
        \/ \E source \in Sources : Import(p, source)

StoreSpec == StoreInit /\ [][StoreNext]_storeVars

----------------------------------------------------------------------------
\* Whatever moment the server dies at, what the recovery will find is whole: an
\* indexed project has its folder, as it is or as a tombstone that comes back; no
\* open project is unknown (every later snapshot would fail); a folder that is not
\* indexed has the marker that brings it in, and no other entry for its source, which
\* would refuse every later startup.  Two holes are excepted: a committed journal
\* whose write failed after it took effect, and a deletion that read the documents a
\* failed rollback left; and a damaged folder, whose entry an import drops.
StoreIsWhole ==
    exposed = Free =>
        /\ Lasting.opened \subseteq Lasting.known
        /\ \A p \in Lasting.known : place[p] \in {"managed", "tombstone"}
        /\ \A p \in Projects :
             place[p] = "managed" /\ p \notin Lasting.known \cup damaged =>
                p \in marker /\ ~ \E q \in Lasting.known : origin[q] = origin[p]

\* The documents a recovery leaves change by whole operations.
Catalogue == INSTANCE ManagedLibrary WITH
    known <- IF exposed = Free THEN Lasting.known ELSE exposed.known,
    opened <- IF exposed = Free THEN Lasting.opened ELSE exposed.opened

\* Through failed writes, rollbacks and crashes the two documents change together, by
\* the import, the removal, the opening or the closing of one project.
ImplementsLibrary == Catalogue!LibrarySpec
=============================================================================
