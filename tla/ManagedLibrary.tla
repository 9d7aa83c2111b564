---------------------------- MODULE ManagedLibrary ----------------------------
(***************************************************************************)
(* What the managed store promises of its two documents, the library and     *)
(* the workspace: whatever fails and whenever the server dies, they change    *)
(* together and by whole operations, and no open project is unknown.          *)
(***************************************************************************)
CONSTANT Projects

VARIABLES known,    \* the library's entries
          opened    \* the workspace's open projects

LibraryInit == known = {} /\ opened = {}

\* An import, or the reconciliation of its marker, indexes a project and opens it.
Index(p) ==
    /\ p \notin known
    /\ known' = known \cup {p} /\ opened' = opened \cup {p}

\* A deletion, or an import that finds an entry unusable, removes it from both.
Remove(p) ==
    /\ p \in known
    /\ known' = known \ {p} /\ opened' = opened \ {p}

Open(p) ==
    /\ p \in known \ opened
    /\ opened' = opened \cup {p} /\ UNCHANGED known

Close(p) ==
    /\ p \in opened
    /\ opened' = opened \ {p} /\ UNCHANGED known

LibraryNext == \E p \in Projects : Index(p) \/ Remove(p) \/ Open(p) \/ Close(p)

LibrarySpec == LibraryInit /\ [][LibraryNext]_<<known, opened>>
=============================================================================
