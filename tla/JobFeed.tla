-------------------------------- MODULE JobFeed --------------------------------
(***************************************************************************)
(* How a job's state reaches the browser: the queue's callers change a job,  *)
(* list the jobs and publish the list; the event route subscribes, asks for   *)
(* an initial snapshot and then streams; the client merges what it gets, and  *)
(* the answers of its own requests, by version.  A list is read before it is  *)
(* published, so an older one may be published last.                          *)
(***************************************************************************)
EXTENDS Naturals, Sequences

CONSTANTS Watched,       \* jobs
          Authors,       \* who changes and lists: the worker and a caller
          NoSnapshot,
          MaxChanges,    \* bound on the changes of one job
          MaxDrops       \* bound on lost connections

ASSUME NoSnapshotAssumption == NoSnapshot \notin [Watched -> Nat]

VARIABLES file,        \* the version of each job on disk
          author,      \* [at, read] of each author
          published,   \* snapshotValue
          route,       \* the event route: [at, read, initial, pending]
          stream,      \* snapshots written and not yet handled by the client
          fetched,     \* the answer of a request of the client, on its way
          view,        \* the client's snapshot
          overtaken,   \* an older list was published while the route was not ready
          drops

feedVars == <<file, author, published, route, stream, fetched, view, overtaken, drops>>

Unseen == [j \in Watched |-> 0]
Closed == [at |-> "closed", read |-> NoSnapshot, initial |-> NoSnapshot, pending |-> NoSnapshot]
Resting == [at |-> "idle", read |-> NoSnapshot]

FeedInit ==
    /\ file = Unseen /\ published = Unseen /\ view = Unseen
    /\ author = [a \in Authors |-> Resting]
    /\ route = Closed /\ stream = <<>> /\ fetched = NoSnapshot
    /\ overtaken = FALSE /\ drops = 0

\* updatedAt grows with every transition, so one number stands for the three that
\* compareJobVersion looks at.
Older(a, b) == \E j \in Watched : a[j] < b[j]

MutMerge(current, incoming) == incoming

\* mergeJobSnapshot keeps the newer record of each job, and never drops one.
Merge(current, incoming) == [j \in Watched |-> IF incoming[j] > current[j] THEN incoming[j] ELSE current[j]]

\* setSnapshot and the listener of the route.
Emit(list) ==
    /\ published' = list
    /\ overtaken' = (overtaken \/ (route.at = "subscribed" /\ Older(list, published)))
    /\ stream' = IF route.at = "open" THEN Append(stream, list) ELSE stream

Listened(list) == IF route.at = "subscribed" THEN [route EXCEPT !.pending = list] ELSE route

Change(a, j) ==
    /\ author[a].at = "idle" /\ file[j] < MaxChanges
    /\ file' = [file EXCEPT ![j] = file[j] + 1]
    /\ author' = [author EXCEPT ![a].at = "changed"]
    /\ UNCHANGED <<published, route, stream, fetched, view, overtaken, drops>>

ListJobs(a) ==
    /\ author[a].at = "changed"
    /\ author' = [author EXCEPT ![a] = [at |-> "listed", read |-> file]]
    /\ UNCHANGED <<file, published, route, stream, fetched, view, overtaken, drops>>

PublishList(a) ==
    /\ author[a].at = "listed"
    /\ Emit(author[a].read)
    /\ route' = Listened(author[a].read)
    /\ author' = [author EXCEPT ![a] = Resting]
    /\ UNCHANGED <<file, fetched, view, drops>>

\* The route subscribes first and then asks for the jobs, which lists them ...
Connect ==
    /\ route.at = "closed"
    /\ route' = [Closed EXCEPT !.at = "subscribed", !.read = file]
    /\ UNCHANGED <<file, author, published, stream, fetched, view, overtaken, drops>>

\* ... publishes the list, its own listener included, and answers with it ...
InitialSnapshot ==
    /\ route.at = "subscribed" /\ route.read # NoSnapshot
    /\ Emit(route.read)
    /\ route' = [Listened(route.read) EXCEPT !.initial = route.read, !.read = NoSnapshot]
    /\ UNCHANGED <<file, author, fetched, view, drops>>

\* ... and the last snapshot heard meanwhile follows the initial one on the stream.
OpenStream ==
    /\ route.initial # NoSnapshot
    /\ stream' = stream \o <<route.initial>>
                   \o (IF route.pending = NoSnapshot THEN <<>> ELSE <<route.pending>>)
    /\ route' = [Closed EXCEPT !.at = "open"]
    /\ UNCHANGED <<file, author, published, fetched, view, overtaken, drops>>

\* The client handles the next event of the stream.
Receive ==
    /\ stream # <<>>
    /\ view' = Merge(view, Head(stream)) /\ stream' = Tail(stream)
    /\ UNCHANGED <<file, author, published, route, fetched, overtaken, drops>>

\* The connection is lost, at any moment; the browser connects again.
Drop ==
    /\ route.at # "closed" /\ drops < MaxDrops
    /\ route' = Closed /\ stream' = <<>> /\ drops' = drops + 1
    /\ UNCHANGED <<file, author, published, fetched, view, overtaken>>

\* The initial load, or the record a retry is answered with.
Fetch ==
    /\ fetched = NoSnapshot
    /\ fetched' = file
    /\ UNCHANGED <<file, author, published, route, stream, view, overtaken, drops>>

MergeFetched ==
    /\ fetched # NoSnapshot
    /\ view' = Merge(view, fetched) /\ fetched' = NoSnapshot
    /\ UNCHANGED <<file, author, published, route, stream, overtaken, drops>>

FeedNext ==
    \/ Connect \/ InitialSnapshot \/ OpenStream \/ Receive \/ Drop \/ Fetch \/ MergeFetched
    \/ \E a \in Authors : ListJobs(a) \/ PublishList(a) \/ \E j \in Watched : Change(a, j)

FeedSpec == FeedInit /\ [][FeedNext]_feedVars

----------------------------------------------------------------------------
\* Once every change has been published and the stream is drained, the client shows the
\* jobs as they are, in whatever order lists, stream and answers reached it and however
\* often it reconnected.  The hole: while the route waits for its initial snapshot it
\* keeps the last list it heard, which may be older than one it dropped.
FeedCatchesUp ==
    (\A a \in Authors : author[a].at = "idle") /\ route.at = "open" /\ stream = <<>>
      /\ fetched = NoSnapshot /\ ~ overtaken => view = file
=============================================================================
