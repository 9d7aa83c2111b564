---------------------------- MODULE VideoThumbnails ----------------------------
(***************************************************************************)
(* The thumbnails of one video: the consumer of the thumbnail requests, the  *)
(* bundles it renders and publishes, the row that names the bundle in use,    *)
(* and the deletion of the video, which removes the row and the bundle.       *)
(* A request is delivered again when it is not acknowledged in time, perhaps  *)
(* to a second process; database calls fail with and without effect.          *)
(***************************************************************************)
EXTENDS Naturals, FiniteSets

CONSTANTS Generators,        \* processes that consume the requests
          MaxBundles,        \* bound on the bundles rendered
          MaxDeliver,        \* max_deliver
          MaxTroubles        \* bound on failing calls and crashes

ASSUME BundlesAssumption == MaxBundles \in Nat

VARIABLES video,       \* "ready", "deleting" or "gone"
          row,         \* video_thumbnail_state: [status, key]
          stored,      \* the bundles on disk
          made,        \* the number of bundles made: the next key
          generator,   \* processThumbnailMessage: [at, previous, key, delivery]
          request,     \* the message: [state, deliveries]
          timers,      \* deleteLater: <<process, key>>
          purge,       \* the delete-video job: [at, key]
          leaked,      \* bundles the code has no way to remove
          troubles

thumbnailVars == <<video, row, stored, made, generator, request, timers, purge, leaked, troubles>>

Bundles == 1..MaxBundles
NoBundle == 0

NoRow == [status |-> "none", key |-> NoBundle]
Waiting == [at |-> "idle", previous |-> NoRow, key |-> NoBundle, delivery |-> 0]
NoPurge == [at |-> "none", key |-> NoBundle]

ThumbnailInit ==
    /\ video = "ready" /\ row = NoRow
    /\ stored = {} /\ made = 0 /\ timers = {} /\ leaked = {}
    /\ generator = [g \in Generators |-> Waiting]
    /\ request = [state |-> "waiting", deliveries |-> 0]
    /\ purge = NoPurge /\ troubles = 0

Trouble == troubles < MaxTroubles /\ troubles' = troubles + 1

At(g, at) == generator[g].at = at
Goes(g, at) == generator' = [generator EXCEPT ![g].at = at]
Handled(g) == generator' = [generator EXCEPT ![g] = Waiting]
Key(g) == generator[g].key
Previous(g) == generator[g].previous

Real(keys) == keys \ {NoBundle}
DeleteLater(process, keys) == timers' = timers \cup ({process} \X Real(keys))
Leak(keys) == leaked' = leaked \cup Real(keys)

Fixed == UNCHANGED <<video, made, purge>>

----------------------------------------------------------------------------
(* The request. *)

TakeRequest(g) ==
    /\ At(g, "idle")
    /\ request.state = "waiting" /\ request.deliveries < MaxDeliver
    /\ request' = [state |-> "out", deliveries |-> request.deliveries + 1]
    /\ generator' = [generator EXCEPT ![g] = [Waiting EXCEPT !.at = "load", !.delivery = request'.deliveries]]
    /\ UNCHANGED <<row, stored, timers, leaked, troubles>> /\ Fixed

\* Not acknowledged in time: the first backoff is five seconds, the heartbeat thirty.
AckWaitPasses ==
    /\ request.state = "out"
    /\ request' = [request EXCEPT !.state = "waiting"]
    /\ UNCHANGED <<row, stored, generator, timers, leaked, troubles>> /\ Fixed

Acknowledge == request' = [request EXCEPT !.state = "acked"]

\* The last delivery is terminated; any other is asked for again.
NakOrTerm(g) ==
    request' = IF request.state = "acked" THEN request
               ELSE [request EXCEPT !.state = IF generator[g].delivery >= MaxDeliver THEN "termed" ELSE "waiting"]

----------------------------------------------------------------------------
(* processThumbnailMessage. *)

Load(g) ==
    /\ At(g, "load")
    /\ \/ video = "ready" /\ Goes(g, "previous") /\ UNCHANGED request
       \/ video # "ready" /\ Handled(g) /\ Acknowledge
    /\ UNCHANGED <<row, stored, timers, leaked, troubles>> /\ Fixed

LoadPrevious(g) ==
    /\ At(g, "previous")
    /\ \/ /\ row.status = "ready" /\ Handled(g) /\ Acknowledge
       \/ /\ row.status # "ready" /\ UNCHANGED request
          /\ generator' = [generator EXCEPT ![g].at = "mark", ![g].previous = row]
    /\ UNCHANGED <<row, stored, timers, leaked, troubles>> /\ Fixed

\* The upsert keeps the key of a row that exists; of a video that is gone it fails.
MarkGenerating(g) ==
    /\ At(g, "mark")
    /\ \/ /\ video # "gone"
          /\ row' = [status |-> "generating", key |-> IF row = NoRow THEN Previous(g).key ELSE row.key]
          /\ Goes(g, "render") /\ UNCHANGED request
       \/ video = "gone" /\ UNCHANGED row /\ Handled(g) /\ NakOrTerm(g)
    /\ UNCHANGED <<stored, timers, leaked, troubles>> /\ Fixed

\* The staging directory is renamed into bundles when it is whole, or discarded.
Render(g) ==
    /\ At(g, "render")
    /\ \/ /\ made < MaxBundles
          /\ made' = made + 1 /\ stored' = stored \cup {made'}
          /\ generator' = [generator EXCEPT ![g].at = "store", ![g].key = made']
          /\ UNCHANGED troubles
       \/ Trouble /\ Goes(g, "fail") /\ UNCHANGED <<made, stored>>
    /\ UNCHANGED <<video, purge, row, request, timers, leaked>>

\* The row is written by video id alone: a row another process wrote is replaced, and
\* one that is gone is not; either way a bundle is left that nothing names.
Written(g) == IF row = NoRow THEN NoRow ELSE [status |-> "ready", key |-> Key(g)]
Unnamed(g) == IF row = NoRow THEN {Key(g)} ELSE {row.key} \ {Previous(g).key}

Store(g) ==
    /\ At(g, "store")
    /\ \/ row' = Written(g) /\ Leak(Unnamed(g)) /\ Goes(g, "stored") /\ UNCHANGED troubles
       \/ /\ Trouble /\ Goes(g, "fail")
          /\ \/ UNCHANGED <<row, leaked>>
             \/ row' = Written(g) /\ Leak(Unnamed(g) \cup {Previous(g).key})
    /\ UNCHANGED <<stored, request, timers>> /\ Fixed

\* The bundle the row named before goes in an hour; an acknowledgement that fails
\* brings the request back, to be found done.
Finish(g) ==
    /\ At(g, "stored")
    /\ DeleteLater(g, {Previous(g).key} \ {Key(g)})
    /\ \/ Acknowledge /\ UNCHANGED troubles
       \/ /\ Trouble
          /\ request' = IF request.state = "acked" THEN request ELSE [request EXCEPT !.state = "waiting"]
    /\ Handled(g)
    /\ UNCHANGED <<row, stored, leaked>> /\ Fixed

\* The row says so before the bundle goes: if that write throws the bundle stays.
Fail(g) ==
    /\ At(g, "fail")
    /\ \/ /\ row' = IF row = NoRow THEN NoRow ELSE [row EXCEPT !.status = "failed"]
          /\ DeleteLater(g, {Key(g)})
          /\ UNCHANGED <<leaked, troubles>>
       \/ Trouble /\ Leak({Key(g)}) /\ UNCHANGED <<row, timers>>
    /\ NakOrTerm(g) /\ Handled(g)
    /\ UNCHANGED stored /\ Fixed

TimerFires(process, key) ==
    /\ <<process, key>> \in timers
    /\ timers' = timers \ {<<process, key>>} /\ stored' = stored \ {key}
    /\ UNCHANGED <<row, generator, request, leaked, troubles>> /\ Fixed

\* A process takes its timers with it, and the bundle it had not recorded.
ProcessDies(g) ==
    /\ Trouble
    /\ LET mine == {t \in timers : t[1] = g}
       IN  timers' = timers \ mine /\ Leak({t[2] : t \in mine} \cup {Key(g), Previous(g).key})
    /\ Handled(g)
    /\ UNCHANGED <<row, stored, request>> /\ Fixed

----------------------------------------------------------------------------
(* The deletion of the video. *)

DeleteVideo ==
    /\ video = "ready" /\ video' = "deleting"
    /\ UNCHANGED <<row, stored, made, generator, request, timers, purge, leaked, troubles>>

PurgeReads ==
    /\ video = "deleting" /\ purge.at = "none"
    /\ purge' = [at |-> "purge", key |-> row.key]
    /\ UNCHANGED <<video, row, stored, made, generator, request, timers, leaked, troubles>>

MutPurgeVideo ==
    /\ purge.at = "purge" /\ purge' = NoPurge
    /\ DeleteLater("worker", {purge.key})
    /\ \/ video' = "gone" /\ row' = NoRow /\ Leak({row.key} \ {purge.key}) /\ UNCHANGED troubles
       \/ Trouble /\ UNCHANGED <<video, row, leaked>>
    /\ UNCHANGED <<stored, made, generator, request>>

\* The rows go in a transaction, the bundle that was read after it.  An attempt that
\* fails is made again; if its commit took effect, the next finds no video and returns.
PurgeVideo ==
    /\ purge.at = "purge" /\ purge' = NoPurge
    /\ \/ /\ video' = "gone" /\ row' = NoRow
          /\ \/ /\ DeleteLater("worker", {purge.key}) /\ Leak({row.key} \ {purge.key})
                /\ UNCHANGED troubles
             \/ Trouble /\ Leak({row.key}) /\ UNCHANGED timers
       \/ Trouble /\ UNCHANGED <<video, row, timers, leaked>>
    /\ UNCHANGED <<stored, made, generator, request>>

PurgerDies ==
    /\ Trouble /\ purge' = NoPurge
    /\ LET mine == {t \in timers : t[1] = "worker"}
       IN  timers' = timers \ mine /\ Leak({t[2] : t \in mine})
    /\ UNCHANGED <<video, row, stored, made, generator, request>>

ThumbnailNext ==
    \/ AckWaitPasses \/ DeleteVideo \/ PurgeReads \/ PurgeVideo \/ PurgerDies
    \/ \E p \in Generators \cup {"worker"}, k \in Bundles : TimerFires(p, k)
    \/ \E g \in Generators :
        \/ TakeRequest(g) \/ Load(g) \/ LoadPrevious(g) \/ MarkGenerating(g) \/ Render(g)
        \/ Store(g) \/ Finish(g) \/ Fail(g) \/ ProcessDies(g)

ThumbnailSpec == ThumbnailInit /\ [][ThumbnailNext]_thumbnailVars

----------------------------------------------------------------------------
\* A row that is ready names a bundle that is on disk, whatever fails, is delivered
\* twice or is deleted meanwhile; and with nothing under way every bundle on disk is
\* named by the row, but for those the code cannot know of any more: a process died with
\* its timers, the commit of the deletion took effect and threw, a second process or the
\* deletion replaced or removed the row, or a write was answered with an error.
BundlesMatchTheRow ==
    /\ row.status = "ready" => row.key \in stored
    /\ (\A g \in Generators : At(g, "idle")) /\ timers = {} /\ purge = NoPurge =>
         stored \subseteq {row.key} \cup leaked
=============================================================================
