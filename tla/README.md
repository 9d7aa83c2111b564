# cut_on_eight: specification, model checking and proofs

`src/cut_on_eight` is an editor for dance videos.  A Node server keeps a catalogue of
videos and fragments in PostgreSQL; an event pipeline (transactional outbox, a relay, NATS
JetStream) feeds projections, of which the search index in Qdrant and the thumbnail
bundles are built by separate processes; a Svelte client edits and saves.  An older
runtime (`services.ts`) keeps the same catalogue in JSON files behind a journal;
`server.ts` no longer starts it, the server's tests do.  This directory models the parts
of it where order, failure and concurrency decide whether the program is right.

Paths below are relative to `src/cut_on_eight/apps/server/src` unless they start
with `apps/` or `docs/`.

## 1. Inventory

| Part | State it keeps | Operations | Talks to | What is hard | What makes it correct |
|---|---|---|---|---|---|
| Event outbox and relay (`events/event-store.ts`, `outbox-relay.ts`, `relay.ts`, `jetstream.ts`, `topology.ts`) | `integration_events`, `event_publications`; a batch per relay; the stream and its duplicate window | append in the writer's transaction; claim under a lease; publish; mark; release | PostgreSQL, JetStream | several relays, leases that run out under a live holder, half-failed calls, crashes | every committed event reaches the stream, nothing else does, nothing is retired unsent, one live holder per event |
| Search indexer (`search/search-indexer.ts`, `search-index-state.ts`, `search-document.ts`, `hybrid-qdrant-store.ts`) | the durable consumer; `semantic_search_index_state`; points of a collection | receive, resolve the alias, check position, load, embed, upsert or delete, record, acknowledge, fail | JetStream, PostgreSQL, embedding service, Qdrant | redelivery, reordering, positions that commit out of order, purges, max_deliver, one message in flight | a fragment recorded ready is indexed as the catalogue shows it; no event is lost; nothing blocks the consumer |
| Search rebuild (`search/rebuild-semantic-search.ts`) | `semantic_search_rebuilds`; a fresh collection; the alias | snapshot, catch up, compare counts, move the alias | PostgreSQL, Qdrant, beside the indexer | the live indexer keeps writing to the old collection | the collection the alias moves to equals the catalogue; a failed run is never active |
| Event replay (`events/replay-command.ts`) | `event_replay_runs`, a replay stream | copy the archive by position, batch by batch | PostgreSQL, JetStream | events that commit below the cursor, gaps in the positions, calls that fail after they took effect | a completed run has everything that was archived when it began, and recorded progress is true |
| Fragment catalogue (`fragments/*`, `domain/fragment-timing.ts`, `jobs/processors/purge-fragment.ts`) | `fragments`, tags, editor state | saveEditor, patch, delete, restore, purge | outbox, job queue | row locks that differ between operations, optimistic revisions | at most two fragments overlap; no accepted edit is lost |
| Video lifecycle (`videos/*`, `jobs/processors/{inspect,delete}-video.ts`, `processing/*`, `blobs/*`) | `videos`, `assets`, blobs | import, inspect, retry, delete | job queue, file system, ffprobe | crashes between file and database, deletion beside an import or an inspection, attempts that expire | no orphan files, a deletion is final, a live video has its source, every job comes to an end |
| Previews (`jobs/processors/{generate-preview,asset-deletion,delete-asset}.ts`, `api/asset-routes.ts`) | `fragment_previews`, assets, blobs | request, render, publish, commit, fail, delete | job queue, ffmpeg, file system | attempts of one job that overlap, edits and deletions during the render | a served picture is of the current span and has its file; no file without an owner |
| Thumbnails (`events/consumers/thumbnail-generator.ts`, `thumbnails/video-thumbnail-generator.ts`, `thumbnail-bundle-store.ts`) | `video_thumbnail_state`, bundle directories | request, render, publish, retire | JetStream, ffmpeg, file system | state read before a render and used after it, removal by timers | a ready row names a bundle on disk; no bundle is left behind |
| Workspace (`workspace/*`) | `workspace_videos`, `workspace_state` | open, close, activate | catalogue | unlocked read-then-write | an active video is open, positions are unique |
| Job infrastructure (`jobs/boss.ts`, `worker-runtime.ts`) | pg-boss queues | register, work | PostgreSQL | at-least-once jobs | modelled as retries of its processors |
| Remote calls (`resilience/remote-call.ts`, `search/embedding-client.ts`) | breaker, attempts | call with deadline and retry | embedding service, Qdrant | a deadline racing an answer | the breaker opens and closes as configured |
| Search queries (`search/search-service.ts`) | none | hybrid or lexical query | Qdrant | - | reads only |
| JSON store (`storage/*`, `imports/*`) | `library.json`, `workspace.json`, the journal, project folders, tombstones, import markers | import, delete, open, close, recover | file system | crashes and failing writes between any two writes | the two documents change together, and folders and markers match them |
| JSON project documents (`services.ts`, `storage/project-repository.ts`, `fragments/fragment-catalogue.ts`) | a sidecar per project, catalogue metadata | fragment edits, whole-document saves, undo, listing | store, job queue | whole documents saved without a revision | fragments fit the video, what the inspection found is kept |
| JSON job queue and feed (`jobs/job-queue.ts`, `job-repository.ts`, `http/job-routes.ts`, `apps/web/src/lib/job-events.ts`) | job files, snapshot, blocked projects; streams | refresh, run, retry, stop, recover; subscribe, merge | file system, SSE | lists published after an await, lost wake-ups, deletions beside the worker, reconnects | every queued job is run, a deletion works alone, the browser catches up |
| Sprite sets (`thumbnails/thumbnail-worker.ts`, `thumbnail-manifest.ts`, `jobs/ffmpeg-runner.ts`) | staging, destination and backup directories | render, validate, exchange | file system | a rename or the way back fails | readers keep the set they had |
| Editor session (`apps/web/src/app/workspace-session.svelte.ts`, `workspace-projections.ts`, `lib/save-controller.ts`) | server copy, drafts, save state | edit, autosave, flush, close, discard, poll | HTTP | late answers, old snapshots, saves in flight | no edit is dropped, "saved" is true, saving ends |
| Fragments panel (`apps/web/src/components/FragmentsPanel.svelte`, `app/fragment-library.svelte.ts`) | drafts, a chain of writes, the catalogue | edit, delete, refresh | HTTP, session | two places edit one fragment | no write reverts another, drafts settle |
| Search box, background polling (`apps/web/src/app/search-model.svelte.ts`, `background-processing.svelte.ts`) | query, answer; polls, manifests, request keys | type, search, clear; poll, ask, retry | HTTP | answers out of order; polls that stop themselves | what is shown is of the query; "Thumbnails..." ends |
| Video editor and timeline (`apps/web/src/components/VideoEditor.svelte`, `PrecisionTimeline.svelte`, `lib/playback-controller.ts`, `segment-constraints.ts`, `two-row-layout.ts`, `timeline-viewport.ts`, `thumbnail-renderer.ts`) | selection, scope, media element, viewport, canvas | select, play, nudge, delete, undo, zoom, pan, paint | session | media events, promises and images that come late | what plays is what is selected, what is painted is what is shown, every list fits two rows |
| HTTP routes, contracts, deployment, gateway scripts | - | - | - | - | not modelled |

The parts talk through PostgreSQL (rows and row locks), the outbox (events written in
the transaction of the change), JetStream (events to the consumers), pg-boss (jobs sent
in the transaction that asks for them), the file system and HTTP.  No part calls another
process synchronously, but for the embedding service and Qdrant, so nearly every hazard
of `PROJECT.json` is an order of commits, deliveries and failures.

## 2. Modules

| Module | What it models | State, and where it lives in the code |
|---|---|---|
| `EventDelivery` | The contract of the event pipeline: a committed event is appended to the stream once or more, in any order, and nothing else is. | `committed` (rows of `integration_events`), `stream` |
| `EventOutbox` | `appendEvent`, `claimPublicationBatch`, `OutboxRelay.publishAvailable` and `publish`, `markPublicationPublished`, `releasePublication`, the loop of `relay.ts`. | `status` and `due` (row of `event_publications`: its status, and whether `available_at` or `locked_until` has passed), `batch` and `phase` (the local array of a relay and the await it stands at), `stream` and `window` (JetStream and its duplicate window); `lapsed` is history |
| `EventOutboxProofs` | Proofs about `EventOutbox`. | |
| `SearchCatalog` | The transactions of `fragment-service.ts`, `video-service.ts`, `purge-fragment.ts` and `delete-video.ts` that write fragments and their events. | `row`, `source`, `lastPosition` (the identity column), `open` (transactions begun), `log` (committed events in commit order); `raced` is history |
| `SearchIndexer` | EXTENDS `SearchCatalog`.  The durable consumer, `runSearchIndexer`, `processSearchIndexMessage`, `handleSearchIndexFailure` and the statements of `search-index-state.ts`, one action per awaited call. | `consumer` (pending delivery and its count), `worker` (the local variables and the await of each indexer), `indexed` (`semantic_search_index_state`), `points` and `alias` (Qdrant) |
| `SearchIndexerProofs` | Proofs about `SearchCatalog`, `SearchIndexer` and `SearchRebuild`. | |
| `SearchRebuild` | EXTENDS `SearchIndexer` with one run of `rebuildSemanticSearch`. | `rebuild`: the row of `semantic_search_rebuilds` and the locals of the run |
| `FragmentCatalog` | `saveEditor`, `patch`, `delete`, `restore` of `fragment-service.ts` and the purge job, with the locks each takes. | `row` (fragments), `open` (transactions that validated and have not committed); `written`, `raced` are history |
| `FragmentCatalogProofs` | Proofs about `FragmentCatalog`. | |
| `OverlapSweep` | The order of boundaries and the sweep over them, which `validateFragmentSet` (server) and `validateSegmentMutation` (browser) each write out. | none |
| `FragmentTiming` | `validateFragmentSet` of `domain/fragment-timing.ts`: its checks and its use of the sweep, against the plain statement of the rule. | `fragments`, the list being checked |
| `VideoLifecycle` | `VideoService.import` and `delete`, `inspect-video.ts`, `delete-video.ts`, the local blob store, and the attempts of pg-boss. | `video`, `asset` (rows), `file` (the source blob), `upload` (the import's next await), `jobs`, `handler` (job handlers, their step and what they read); `marks` is history |
| `VideoLifecycleProofs` | Proofs about `VideoLifecycle`. | |
| `FragmentPreviews` | `generate-preview.ts`, `asset-deletion.ts`, `delete-asset.ts`, and what edits, purge and the deletion of the video do to a preview. | `preview`, `assets`, `fragment`, `owner` (rows), `files` (blobs), `tries` and `renders` (the job and its attempts), `assetJobs`, `videoJob` |
| `VideoThumbnails` | `processThumbnailMessage`, the bundle store and its `deleteLater`, the part of the video's deletion that concerns them. | `row` (`video_thumbnail_state`), `stored` (directories), `generator` (locals and await), `request` (message), `timers`, `purge` (the deletion's job, whose commit may fail or half-fail, and whose process may die); `leaked` is history |
| `VideoWorkspace` | `workspace-repository.ts` and `workspace-service.ts`, statement by statement. | `position`, `active` (rows), `call` (locals of each call) |
| `EventReplay` | `replay-command.ts`. | `archived` (rows), `given`, `pending` (the identity column and open transactions), `replay` (locals), `runRow`, `copied` (the stream) |
| `ServicesProofs` | Proofs about `VideoWorkspace`, `ThumbnailSwap`, `VideoThumbnails`, `FragmentPreviews`, `EventReplay`, `OverlapSweep`, `FragmentTiming` and `TimelineEdits`. | |
| `ManagedLibrary` | What the JSON store promises: library and workspace change together, by whole operations. | `known`, `opened` |
| `ManagedStore` | `CatalogRepository`, `ImportService`, `ProjectDeletion`, the workspace's own saves, and the recovery at startup. | `disk`, `journal`, `place`, `marker`, `origin` (files), `op`, `commit` (the running calls) |
| `ProjectDocuments` | The project operations of `services.ts` on one sidecar, the listing of fragments, and editors that hold whole documents. | `document`, `labels`, `inspection`, `held`, `listing` |
| `ManagedStoreProofs` | Proofs about `ManagedStore` and `ProjectDocuments`. | |
| `JobQueue` | `JobQueue` and `JobRepository`, `deleteProject` and the recovery of jobs. | `jobs`, `folder` (files), `seen` (`snapshotValue`), `blocked`, `worker`, `refresher`, `deleters` (locals and awaits of the calls); `strays` is history.  Each write, rename or list may throw, the writes also after they took effect |
| `JobFeed` | `job-routes.ts` and `job-events.ts` over the published snapshots. | `file`, `published`, `route`, `stream`, `fetched`, `view` |
| `JobQueueProofs` | Proofs about `JobQueue` and `JobFeed`. | |
| `ThumbnailSwap` | `ThumbnailWorker.generate`. | `folders` (three directories), `attempt` |
| `EditorSession` | `WorkspaceSession`, `SaveController` and the projections, beside the server's revision checks. | `copy`, `draft`, `ctl`, `save`, `call`, `poll` (fields of the two classes and their requests), `server` |
| `FragmentWrites` | `FragmentsPanel.svelte` and `FragmentLibrary`. | `listed`, `fragmentDraft`, `writes`, `request`, `openSegment`, `stored` |
| `SearchBox` | `search-model.svelte.ts`. | `query`, `searchState`, `response`, `debounce`, `searches` |
| `BackgroundPolling` | `background-processing.svelte.ts` as `app-model.svelte.ts` wires it. | `seen`, `manifests`, `errors`, `keys`, `asking`, `pollTimer`, `polled`, `catalog` |
| `EditorPlayback` | Selection, focus and playback of `VideoEditor.svelte` over `playback-controller.ts` and `trim-controller.ts`. | `selected`, `focus`, `playback`, `media`, `plays`, `frame` |
| `TimelineEdits` | `validateSegmentMutation`, `createSegment`, boundary moves, removal and undo, `assignSegmentRows`. | `timeline`, `removed`; `restoredOver` is history |
| `TimelineView` | The viewport of `PrecisionTimeline.svelte` and the painting of thumbnails, while segments are edited and the video's length becomes known or changes. | `lens` (`timelineZoom`, `timelineOffsetSeconds`), `duration`, `width`, `places` (boundaries), `chosen`, `ensured` (`lastEnsuredSegmentId`), `bundle`, `loads`, `canvas`, `viewTimer`, `saved`; `drifted` is history |
| `ClientProofs` | Proofs about `SearchBox`, `TimelineView`, `FragmentWrites`, `EditorPlayback` and `EditorSession`. | |
| `MCClient`, `MCServices` | Several of the modules above in one behaviour each: `part` picks one in the initial state and the others rest. | `part` |
| `MC*`, `*.cfg` | The instances TLC checks. | |

How they are put together:

* `EventOutbox` refines `EventDelivery` (`ImplementsDelivery`, with `committed` mapped to
  the events that have a publication row).  `SearchIndexer` takes its messages through
  `EventDelivery!Deliver`, so what is checked of it holds for any relay that keeps the
  contract, and the outbox is shown to be one.
* `FragmentCatalog` uses the plain statement of the overlap rule as its
  `ValidateFragmentSet`; `FragmentTiming` shows that the sweep of the code accepts
  exactly the lists that keep it.
* `SearchCatalog` sees fragments as what the index shows of them (a revision),
  `FragmentCatalog` as spans under validation: two views of one table, each with the
  detail its properties need.
* `ManagedStore` refines `ManagedLibrary` (`ImplementsLibrary`), with the two documents
  mapped to what a recovery would leave at that moment (`Lasting`).  `JobQueue` takes the
  store's operations as they look from outside (a folder is there, renamed away or gone);
  `JobFeed` takes a job as a version, and begins where the queue publishes a list.
* The deletion of a video is in four modules, each with what it does to that module's
  rows and files: `VideoLifecycle`, `VideoThumbnails`, `VideoWorkspace`, `FragmentPreviews`.
* On the browser's side `EditorSession` and `FragmentWrites` are composed with the part of
  the server that answers them.
* `FragmentTiming` and `TimelineEdits` share `OverlapSweep`: the sweeps of
  `domain/fragment-timing.ts:24-47` and of `apps/web/src/lib/segment-constraints.ts:47-69`
  are one algorithm written out twice, with the same order of boundaries.
* An operator whose name begins with `Mut` is the operator it precedes with one mistake
  in it.  It is used by nothing; it records a bug the property it is listed with under
  `mutants` would catch.

How code became actions.  A statement of a transaction that nobody can see before the
commit is not a step.  A transaction is one step where it takes all its locks at the
start of what it reads (`delete`, `restore`, the purge, the claim), and a begin and a
commit where it reads rows it does not lock (`saveEditor`, `patch`) or takes a position
of the identity column that others can overtake (`SearchCatalog`).  Outside a
transaction every awaited call is a step.  A call that throws without effect, or throws
although it took effect, is a step of its own where the code tells them apart.

Abstractions worth knowing:

* Time is what a WHERE clause or a timer compares: a row is due or not, a duplicate id is
  inside the window or not, an undo window is open or not.
* The attempt counter of a publication row only sets the length of the backoff, and is
  left out.  All positions of a transaction are allocated when it begins.
* The acknowledgement wait that matters is `backoff[0]` of `topology.ts`, which replaces
  `ack_wait` in JetStream; the model only knows that it may pass while an indexer works
  (fault `slow`).
* A fragment is its span or its revision.  Text fields, tags, previews and editor state
  are left out.  A client sends the revisions the transaction finds, for a request with
  others is refused and changes nothing.
* Times in the editor are whole ticks and zooms are powers of two, so that divisions are
  exact; rounding of floating-point times is left out.
* A variable such as `exposed`, `strays`, `crossed`, `leaked`, `raced`, `overtaken`,
  `stale`, `missed`, `drifted`, `unsure` or `spilled` is history: it records that one of the code's
  holes (section 5) has opened, so that the properties can say what holds otherwise.
* A row purged under an open save makes the save's later statement fail and roll back.

## 3. Runs

All runs finish within five minutes, all but `services` within three; the bounds are constants of the modules.

| Run | Instance | What it shows |
|---|---|---|
| `outbox` | two relays, two events, batches of two, a stream of three | No lease that has not run out is shared (`LeaseIsExclusive`); a row is marked published only when its message was stored (`PublishedIsOnStream`); a published row is not taken up again by a relay within its lease (`PublishedIsSettled`); the outbox refines the contract; once faults cease, every committed event reaches the stream (`EventuallyOnStream`). |
| `indexer` | one fragment, one indexer, three positions, one change of the video's title, two deliveries, throws and crashes | A fragment recorded ready at its newest event is indexed as the catalogue shows it; when everything is processed the index equals the catalogue, but for fragments given up and fragments written during a save of the whole video; a stale delivery changes nothing in Qdrant. |
| `indexer_pair` | two indexers, two positions, slow calls, throws, crashes, purges, aborts | The applied position of a fragment never moves back, and no message holds the consumer for ever (`Drains`). |
| `indexer_lost` (violation) | no faults at all | `NoChangeIsLost`, without the excuse of `indexer`, fails: see section 5. |
| `indexer_purged` (violation) | no faults, a purge | `ExhaustionIsRecorded` fails: see section 5. |
| `rebuild` | one fragment, two collections, three positions, throws and crashes | What the catch-up has read is in the target as the catalogue shows it when the alias moves, and a switch can only lose fragments written after that read. |
| `fragments` | three fragments, two instants, two revisions, every operation | The lock on the video's row keeps the overlap rule among the fragments saves wrote; a revision names one version of a fragment, but where a save raced another writer. |
| `fragments_overlap` (violation) | create, delete, restore | The whole rule (`OverlapBound`) fails: see section 5. |
| `fragments_overwritten` (violation) | create, edit, patch of one fragment | `NoVersionIsOverwritten` fails: see section 5. |
| `video` | two handlers, two attempts of each job, four revisions, every fault | A live video has its source, and only a crash of the import, a failed unlink or a commit answered with an error leaves a file or an asset row nobody owns (`FilesMatchTheRow`); an accepted deletion stands (`DeletionIsFinal`) and is carried out (`DeletionCompletes`); an inspection comes to an end (`InspectionSettles`). |
| `client` | `MCClient`: session, panel, search box, polling, one at a time | Unsaved edits are on their way and saved ones arrived (`SaveStateIsTrue`); the view shows the last edit (`ViewShowsEdits`); closing loses none (`ClosingKeepsEdits`) and saving ends (`SavingEnds`); a write of the panel takes no field back (`NoEditIsReverted`), a quiet panel shows what is stored (`QuietPanelIsTrue`) and drafts settle (`DraftsSettle`); results are of the query in the box (`ResultsAreOfTheQuery`); "Thumbnails..." ends (`GeneratingEnds`). |
| `services` | `MCServices`: thirteen other parts, one at a time | Store: whatever moment the server dies at, recovery finds a whole store (`StoreIsWhole`) and the store is an atomic library (`ImplementsLibrary`). Queue: no wake-up is lost and a deletion works alone (`QueueIsSound`). Feed: the browser catches up (`FeedCatchesUp`). Thumbnails: `BundlesMatchTheRow`. Workspace: `ActiveIsOpen`. Timing: the sweep accepts exactly the lists that keep the rule (`AcceptsExactlyTheRule`). Documents: fragments fit, the inspection stays, a listing is closed (`DocumentIsSound`). Sprite sets: a failed exchange keeps the old set (`SetSurvives`). Previews: what is served is current and stored, no file is without an owner, a preview that was made is not reported failed (`PreviewsAreTrue`). Replay: `ReplayIsComplete`. Editor: `PlaybackIsTrue`, `EditsFitTwoRows`, `TimelineIsTrue`. |

### Why the bounds are enough

The theorems of section 4 drop the bounds for every safety property the passing runs
check; what follows is for liveness, for the runs that end in a violation, and for the
states the mutants must reach.

* Outbox.  A shared event takes two relays, the order inside a batch two events.  The
  stream may hold one message more than there are events, so that an id can leave the
  window and its event be stored twice.  Failures, lapses and crashes are unbounded.
* Indexer.  Fragments meet only in the consumer's one pending message and in a save of
  the whole video, and both are there with one fragment: creation, a change and a
  deletion (or a restore) need three positions.  Two deliveries distinguish the last
  from the others; the code allows ten.  Two indexers multiply the states, so that run
  has two positions.
* Rebuild.  One fragment may be listed, edited, deleted and restored around every step;
  a message is delivered once, because a redelivery only repeats what `indexer` covers.
* Fragments.  Three fragments are the fewest that can break the rule, and one instant
  each the smallest span that can; two revisions allow one rewrite of each fragment.
* Client.  Two fragments tell an edited one from one that a snapshot or another video's
  deletion touches; two edits fall before and into a save; one call, one poll and one
  failure can be placed at every point.  The panel has three edits (of two fields, from
  two places), a refresh and a loss.  Three searches can be under way.  Two videos can
  change places as the active one.
* Store.  Two projects of one source or of two, and two faults: a failing write and the
  crash or the damaged folder that follows.
* Queue and feed.  One project has both kinds of jobs; two deletions may overlap, and one
  mishap makes a call throw, or ends or kills the server: what it leaves is met by every
  other call.  Two authors and two jobs let an older list overtake.  The run takes the two
  deletions as alike, and so the two processes that render thumbnails or previews
  (`SYMMETRY` in `MCServices.cfg`): the calls of `deleteProject` differ only in the
  project they delete and the processes in nothing, no definition names one of them or
  chooses among them, and no liveness is checked in this run.
* Thumbnails.  Two processes, two bundles, three deliveries (the code allows five) and two
  troubles: a bundle is replaced, retired, delivered again, to the other process too, and
  left behind; a deletion fails half-way.
* Workspace.  Two calls overlap on three videos: one to close, one active, one to fall back to.
* Documents.  One editor holds a document while the server changes it; of two shapes that
  overlap and one more, three make the set illegal.
* Sprite sets.  Four attempts and four failing calls: the second attempt finds what the
  first one left, and its own way back fails.
* Previews.  Two attempts, two tries of a job, two revisions (before and after an edit)
  and two flaws: a duplicate attempt and a failure of the other.
* Replay.  Five positions and batches of two: gaps, a batch that is full, one that is not.
* Editor.  Two segments that touch on a source of two ticks, one nudge, two queued media
  events and one older promise; a timeline of three ticks takes three segments.
* Timeline's view.  A length that is unknown at first and becomes four ticks, two zooms, a
  saved offset of zero or of half the video, and a width of zero (before the layout) or
  two pixels.  Two segments may each lie beside a half view or be longer than one, and
  move between these places; one manifest comes and goes, and two loads of its images may
  be under way.  A change from one known length to another is left to the theorem.
* Timing.  Four fragments are needed for a set that is crowded but never three deep;
  three ticks give every order of two boundaries, ties and points outside the video.  Of
  ids only equality matters: a list is extended if it has them in one order.
* Video.  Two handlers can share an expired job or cross an inspection and a deletion;
  with two attempts the first may fail and the last be used up; four revisions hold an
  inspection, a save and two deletions.

Deadlock is not checked where a bound or the end of an import lets the instance stop:
every run has such a bound (positions, revisions, lists, attempts).

### Fairness, and why the code justifies it

* `EventOutbox`: weak fairness of the clock (a backoff and a lease pass) and, for each
  relay, of its claim and of the step it stands at: `relay.ts` polls for ever.  None is
  asked of writers or of successful publishes.  `EventuallyOnStream` is conditional on
  `FaultsCease`: with failures for ever it is false, since the code retries without a
  bound on attempts and a batch is sent in order of position.
* `SearchIndexer`: transactions end, the outbox keeps its contract, the wait of an
  unacknowledged message passes, and an indexer goes on with the message it holds.  An
  error never recurs for ever on one message, as `max_deliver` bounds its deliveries.
* `VideoLifecycle`: pg-boss hands out what waits and a handler goes on.  No fairness is
  asked of requests or of an import.  `retryLimit` bounds the attempts, so the faults
  that end them are finite, and the properties name the outcome "attempts used up".
* `EditorSession`, `FragmentWrites`, `BackgroundPolling`: the browser runs its timers and
  callbacks, and requests are answered or fail; none is asked of the user.  In `MCClient`
  each condition is that of the part that runs (`ClientFairness`), because the resting
  parts stand in states in which their steps are enabled.  That a request fails for ever
  cannot keep a save from ending, because a failure is one of its ends.
* The others are checked for safety only.

## 4. Proofs

The theorems hold for every value of the constants that the named assumptions allow: any
sets of positions, relays, fragments, videos, handlers, clients, editors, queries, any
bounds on attempts, revisions, faults, lists and messages.  An assumption states a limit
or type the code has (`BatchLimitAssumption`, `ReplayBatchAssumption`,
`AttemptsAssumption`, `RevisionAssumption`, `RevisionsAssumption`,
`BundlesAssumption`, `MaxPositionAssumption`, `PositionsAssumption`,
`SegmentsAssumption`, `FragmentsAssumption`, `PiecesAssumption`, `TimingAssumption`,
`EditsAssumption`), or that a model value
for "nothing" is not one of the things it stands beside (`FreeAssumption`,
`NoOwnerAssumption`, `NoneAssumption`, `GoneAssumption`, `NoSnapshotAssumption`,
`NotRecordedAssumption`).  The others type the bounds of the
instances (`MaxStreamAssumption`, `BoundsAssumption`, `SessionAssumption`,
`VideoRevisionAssumption`, `MaxDeliverAssumption`), name the operations and faults that
are modelled (`OperationsAssumption`, `FragmentOperationsAssumption`, `FaultsAssumption`,
`VideoFaultsAssumption`), or tell a rebuild's fresh collection from the one in use
(`InitialAssumption`, `TargetAssumption`).  `TimelineAssumption` says that lengths, offsets and
widths are natural numbers and that a segment begins before it ends.  One hypothesis needs
a word: the theorems of `SearchIndexerProofs` about what is indexed in the active
collection have `OneIndexer`, for `deploy/compose.yaml` starts one `search-indexer`, and
with two they are false (section 5).
`PositionsNeverGoBack`, the invariant of the pipeline and what is said of a rebuild's
collection until the alias moves hold for any number.

Every theorem of the form `Spec => []Inv` goes by an inductive invariant, which is a
theorem of its own where it is more than the property.  What each adds to the property,
and why the property alone is not inductive:

* `EventOutboxProofs`.  A claim takes what is due, so exclusion needs that an event in a
  relay's hands, no lease of which ran out, is not claimable (`LeaseProtects`), and
  `PublishedIsSettled`, because marks and releases go by event id alone.  A mark follows
  an acknowledgement, so `AckedIsOnStream`; an acknowledgement may be for a duplicate, so
  `WindowIsOnStream`; a fresh claim starts unacknowledged, so `IdleIsReady`.  With
  `BatchIsCommitted` every step is a commit, a delivery or a stutter of the contract
  (`OutboxImplementsDelivery`).
* `FragmentCatalogProofs`.  Two versions with one number need two writers that read the
  same revision: `WritersAreCurrent`, `VersionsReached` and `WritersExclude` (the locks
  admit one save and one patch of a row).  A save validates a list and writes later:
  `SavesWillKeep` says that the fragments saves wrote would keep the rule if an open save
  committed now, and `OneSave` that no second save adds to them meanwhile.
* `SearchIndexerProofs`.  `CatalogInv`: positions are given once; transactions that touch
  one fragment exclude each other; the last event of a fragment says what the catalog
  shows, but for a fragment that a save of the source raced.  `PipelineInv` adds that what
  is delivered, held and recorded was committed.  From it `PositionsNeverGoBack`.
  `IndexerInv` adds, for the last event of a fragment, what the worker has loaded at each
  of its awaits (`WorkerHolds`), what a recorded position means for the point
  (`AppliedHolds`) and what is left once the consumer is past the message
  (`SettledHolds`); `ReadyIsCurrent`, `StaleChangesNothing` and `QuietIsCurrent` follow.
  Of the rebuild, `RebuildInv`: only the run writes to its collection while the alias is
  elsewhere (`AliasHolds`), and a fragment all of whose events the run has read is there
  as the catalog shows it unless it is still to be indexed or a save of the whole video
  raced it (`CopyHolds`).  It speaks of the set of positions the run has read, not of its
  cursor, because a transaction with a lower position may commit later.  `SwitchIsCurrent`
  follows.  After the move `IndexerInv` is stated with a set of fragments left out, those
  with events the run had not read at the move (`ServedInv`): a worker that resolved the
  alias before the move writes to the old collection, but then the event it holds is of
  one of these, or its result is in the new collection already (`ElsewhereShows`).
  `RebuildIsSound` (`SwitchIsSound`) follows.
* `VideoLifecycleProofs`.  The file follows the import until its commit and the asset row
  after it (`FileHolds`, `SourceHolds`); a handler that may still purge has read the asset
  row as it is (`DeletionHolds`).  `DeletionStaysFinal` needs `ImportHolds`: the
  only way back from a deletion is the last update of an import.
* `ManagedStoreProofs`.  `JournalHolds` says what the two files may contain in each phase
  of the journal, so that a recovery leaves one of two whole states; `GoalHolds` that the
  running commit ends there; `ImportHolds`, `DeletionHolds` and `OneIsLoose` say where the
  one operation under way has left its folder, marker or tombstone.  On the same
  invariant every step is an operation of `ManagedLibrary` or a stutter
  (`StoreImplementsLibrary`).  Of the documents, `HeldFits`: the rules must hold of every
  document an editor holds as well, and it must not know a length the server lacks, for
  the editor may save it at any later time.
* `JobQueueProofs`.  `QueueIsShown`: unless `missed` is set, a queued job is in the last
  snapshot or whoever publishes the next one is on its way, so a call that throws between
  the two must have set it (`RefreshThrows`); `RestIsEarned`: the worker rests only under a
  snapshot with nothing for it; `BlocksHold`: a deletion at work keeps its project
  blocked.  Of the feed, `OnItsWay`: what the browser does not show yet is with an author,
  in the route or on the stream, and nothing listed is ahead of the files
  (`NothingIsAhead`).
* `ServicesProofs`.  Workspace: what a call has read still holds when it writes
  (`CallHolds`), with distinct positions.  Sprite sets: what each of the three directories
  holds at each stage (`StageHolds`).  Thumbnails: which bundles the row, a message, a
  timer and each process know of (`RowHolds`, `GeneratorHolds`, `Owned`).  Previews: the
  row, the assets and files of each revision and the attempts on it (`AttemptHolds`,
  `FileHolds`, `NotTriedAgain`).  Replay: what is owed below the cursor is copied, and the
  batch that was read goes on there without a gap (`CommandHolds`).  The sweep: its
  boundaries are sorted (`Sorted`), and its count after a boundary is the starts minus the
  ends among those passed (`ActiveCounts`).  If three spans cover an instant, the count
  after the last boundary not later exceeds two (`CoveredIsFound`); the first boundary
  after which it does is a start, and all three cover its instant (`FoundIsCovered`).
  Hence `SweepIsTheRule`.  The editor: the greedy layout gives up exactly on the lists
  with three segments at one instant, and what it lays out does not overlap within a row
  (`LayoutAlways`, `LayoutIsRight`); the list it holds is accepted, and so is that list
  with the deleted segment brought back, until an edit comes between (`EditsHold`); hence
  `EditsAreDrawn`.  Both definitions are recursive functions over the list.  Induction is
  out of the prover's reach, so the proofs take the least index at which the claim would
  fail (`LeastNumber`, from the well-foundedness of `<`).
* `ClientProofs`.  Search: at most the last search is current.  Timeline: a load that is
  fresh is of the manifest, view and length of now (`LoadsAreCurrent`), and the segment
  that was last brought into view is in view, selected or not (`EnsuredIsShown`), because
  selecting it again moves nothing.  Panel: the queued writes each carry the edits
  before them (`WritesAreOfTheDraft`), and what the client knows of the row is behind the
  row by revision (`SnapshotsAreEarlier`, `RowIsKnown`).  Playback: a playing element is
  followed by a frame, an event in its queue or the promise of the last command
  (`PlayingIsFollowed`).  Session: all readings of a fragment (server, copy, draft, save,
  call, poll) are in the order of their revisions (`ReadingsAgree`), and the last edit is
  in every document that will still be sent or merged (`EditsArrive`).

`TypeOK` of `EventOutbox` and of `FragmentCatalog` is proved and no longer run; the other
types are the first conjunct of their invariant.

Every safety property of a passing run is stated by a theorem.  Only model-checked is
liveness (`EventuallyOnStream`, `Drains`, `InspectionSettles`, `DeletionCompletes`,
`SavingEnds`, `DraftsSettle`, `GeneratingEnds`), which needs `ENABLED` and fairness, both
out of the prover's reach.  `EditorSession` is narrower than
the code in one place that proofs do not remove: a poll that reopens a video waits until
the save of its cancelled controller is over (`PollApplied`), as the model has one save.

## 5. Where the code and its documents disagree

Each is a run that TLC finds violated, without any fault injected.

* `indexer_lost`.  Positions are allocated before the commit and a save of the whole video
  appends events for fragments it has not locked.  A deletion with a lower position that
  commits after such a save was indexed is skipped by `isAlreadyApplied`, and the deleted
  fragment stays searchable.
* `indexer_purged`.  A deletion event handled after the purge of its fragment breaks the
  foreign key of `semantic_search_index_state` on every delivery, and so does the record
  of the final failure.
* `fragments_overlap`.  `restore` validates nothing.
* `fragments_overwritten`.  `saveEditor` compares revisions on rows it did not lock and
  updates by id: a patch in between is overwritten, and both answers carry one revision.

Two more without a run of their own:

* A rebuild loses events at the cut-over: one that the live indexer applies to the old
  collection between the last read of the catch-up and the move of the alias is missing
  from the new one (`docs/architecture.md:81-83` says the rebuild catches up and then
  moves the alias atomically).  `SwitchIsSound` bounds the loss to the fragments written
  after that read.
* `plans/phase-04-catalog-and-search-foundation/design.md:271` says a change of timing
  enqueues the replacement of the preview.  No code sends that job any more (and
  `test/editor-fragment-api.test.ts:238` asserts that a patch does not): a changed
  fragment's preview row stays "pending" for ever.

Behaviours the models have and no run states:

* A rebuild whose last update throws after the alias moved is recorded failed although
  its collection is the active one.
* Two patches of different fragments validate lists that lack each other's change, so
  three may overlap (`OverlapBound` fails this way too).
* With two indexers, the upsert is not guarded by position as the recorded position is: a
  slow indexer may write an old document over a new one.  `ReadyMeansCurrent` is therefore
  checked with the one indexer the deployment starts.
* `LeaseIsExclusive` says nothing of an event whose lease ran out under a live relay: two
  relays may then send it, and a release by the slower one may reopen a published row.
  The duplicate window and the indexer's position check absorb it; that nothing is retired
  unsent (`PublishedIsOnStream`) and everything is sent in the end holds of these too.
* The last update of an import looks at no status (`videos/video-service.ts:101`): a
  deletion accepted while the video was received is undone, and if its job had read the
  asset row by then, the file goes while the video is queued.  `marks` records
  "revived", and `SourceIsStored` and `DeletionIsFinal` leave that case out.
* A failed video cannot be deleted: `VideoService.delete` keeps the failure columns,
  which the table's CHECK refuses for status `deleting`.
* An import whose commit took effect and was answered with an error removes the file of a
  video that stays queued (mark "damaged").
* A crash during an import leaves a `receiving` row, and perhaps a file, for ever: the
  reconciliation at startup of `plans/phase-04-catalog-and-search-foundation/design.md`
  is not in the code.
* An inspection that finds the advisory lock taken completes its job; if the holder then
  dies, the video stays `processing`.  So it does when the last attempt dies.
* Previews.  A title edit or a restore raises the revision and strands a pending request
  (`generate-preview.ts:50`).  With two attempts of one job, the later failure writes
  "failed" over a ready row (line 171 looks at no status), the second asset breaks the
  unique key on every retry, and the attempt that finds its revision past deletes the file
  a ready row shows (line 156).  A crash between the reservation of a file and its rename
  leaves an empty file, and every retry fails on it (`blobs/local-blob-store.ts:67`).  A
  crash or a failure after publishing leaks the file.
* Thumbnails.  Timers die with the process, the worker that deletes the video included.  A
  deletion whose commit took effect and threw finds no video when it is retried and
  returns without removing the bundle (`delete-video.ts:24-30`).  A second process overwrites the row of the
  first (`backoff[0]` is five seconds, the heartbeat thirty); a bundle published during
  the deletion of its video stays; a late failure writes "failed" over a ready row; a crash
  in the last delivery leaves "generating".
* Workspace.  A close that overlaps another call may leave a closed video active
  (`crossed`; `ActiveIsOpen` says nothing of the active video after it), and a close
  activates the video with the highest position although another was active
  (`workspace-repository.ts:71-89` is not a transaction).
* Replay.  An event that commits below the cursor is in no run; a run whose process dies
  stays "running".
* JSON store.  If the journal's write of "committed" throws after it took effect, the
  rollback undoes the documents and the recovery redoes nothing
  (`storage/catalog-repository.ts:150-153`); a deletion reads the documents before the
  recovery of its own commit (`project-deletion.ts:52-58`); a save of the workspace under a
  prepared journal is undone by the next recovery; a damaged folder that is not indexed
  and has its marker makes every startup throw.
* JSON job queue.  An older list published over a newer one hides a job until the next
  refresh.  So does a retry, an import or a refresh that throws once its job is queued
  (`jobs/job-queue.ts:103-110,126-130`: the directory sync after the rename of
  `job-repository.ts:221`, the reconciliation or the list): no list is published, no
  worker is started, and the caller is told that it failed.  A deletion whose commit fails
  brings back a project whose queued jobs the last list may not show.  `markRunning`,
  `markFailed` and the lists outside the worker's try end it with `job_queue_failed`.  A
  deletion that waits for a call that throws throws too.  Of two deletions of one project the first one's end unblocks it
  under the second.  The feed's route keeps the last list it heard while it waits, which
  may be the older one (`job-routes.ts:70`).
* JSON documents.  Whole-document saves carry no revision and overwrite fragment edits
  (`services.ts:622-637`; `DocumentIsSound` says what they leave intact, and is no claim
  that an edit survives them); `getFragments` reads the tags before the sidecars.
* Sprite sets.  A crash between the two renames leaves no set in place, and nobody looks
  at the `.previous` directory again.
* Editor session.  A snapshot read before a save and applied after its answer takes the
  edit out of the view (`workspace-session.svelte.ts:386`; `exposed`, which
  `ViewShowsEdits` excepts); deleting another video drops
  the drafts of all (line 224).
* Fragments panel.  Its base is the catalogue's fragment while its revision is that of the
  open video: when the catalogue is behind, a write silently reverts the other fields.  A
  refresh that was asked for before a mutation may be applied after it.
* Background polling.  Whether to go on is decided of the video that was active before
  (`background-processing.svelte.ts:246-254`), and a start during a poll does nothing:
  after such a last poll "Thumbnails..." stays
  (`plans/phase-04-catalog-and-search-foundation` stops polling only when all are terminal).
* Timeline.  The effect that brings the selection into view looks at its id alone
  (`PrecisionTimeline.svelte:88`): a boundary that is nudged or dragged past the edge
  (`VideoEditor.svelte:389-404`), or a length that becomes known or changes, is not
  followed (`drifted`).  And while no length is known every view is clamped to offset
  zero, so that a selection or a zoom before the metadata are loaded replaces the offset
  the document was saved with, and the timer saves that.
* Editor.  `removeFragment` remembers across its await whether the segment was selected
  (`VideoEditor.svelte:633`); an undo restores a segment without validating it, and three
  may then overlap (`restoredOver`, which `EditsFitTwoRows` excepts), which the timeline
  reports instead of a layout.

## 6. Not modelled

* Remote calls: policies of the library `cockatiel`, whose code is not in the repository.
  Every caller is modelled with calls that answer, throw, or throw after they took effect.
* Search queries read only, and their ranking is Qdrant's.  `ensureCollection` leaves a
  collection without payload indexes when it fails half-way; filters still answer.
* Of the parts marked "partly" in `PROJECT.json`: text fields, tags and editor state of
  fragments in PostgreSQL, collections and dance figures of the JSON documents, the import
  dialog and the file picker, the filters of the fragments panel, keyboard shortcuts and
  drawing.
* HTTP routes, contracts, deployment files and scripts hold no state of their own.

## 7. Plan

Done: the event pipeline with its consumers, rebuild and replay; the catalogue in
PostgreSQL with its jobs; the JSON runtime; the browser's session, panel, search,
polling, playback and timeline; and the theorems of section 4, which state every safety
property of the passing runs.

Left: liveness, for a prover that takes `ENABLED`; the parts of section 6 that are marked
"partly"; and, if the code is changed at one of the places of section 5, the run that
shows the disagreement becomes a passing one and its property the next theorem.
