------------------------------ MODULE EventReplay ------------------------------
(***************************************************************************)
(* replay-command.ts: the archive of events, in PostgreSQL, is copied to a    *)
(* JetStream stream of its own in order of position, batch by batch, while    *)
(* transactions append events whose positions were given before they commit.  *)
(***************************************************************************)
EXTENDS Naturals, Sequences, Functions

CONSTANTS MaxArchive,     \* bound on the positions given
          ReplayBatch,    \* events read at once
          NotRecorded     \* no row in event_replay_runs

ASSUME ReplayBatchAssumption == ReplayBatch \in Nat \ {0}

\* A row of event_replay_runs.
RunRow == [status : {"running", "completed", "failed"}, through : Nat]

ASSUME NotRecordedAssumption == NotRecorded \notin RunRow

VARIABLES given,      \* the identity column of integration_events
          pending,    \* positions given and neither committed nor rolled back
          archived,   \* rows of integration_events
          replay,     \* the command: [at, last, next, batch]
          runRow,     \* its row in event_replay_runs: [status, through]
          copied,     \* the messages of the replay stream
          owed        \* what was archived when the bounds were read

replayVars == <<given, pending, archived, replay, runRow, copied, owed>>

ReplayInit ==
    /\ given = 0 /\ pending = {} /\ archived = {}
    /\ replay = [at |-> "bounds", last |-> 0, next |-> 0, batch |-> <<>>]
    /\ runRow = NotRecorded /\ copied = <<>> /\ owed = {}

----------------------------------------------------------------------------
(* The transactions that append events. *)

GivePosition ==
    /\ given < MaxArchive
    /\ given' = given + 1 /\ pending' = pending \cup {given'}
    /\ UNCHANGED <<archived, replay, runRow, copied, owed>>

AppendCommits(position) ==
    /\ position \in pending
    /\ pending' = pending \ {position} /\ archived' = archived \cup {position}
    /\ UNCHANGED <<given, replay, runRow, copied, owed>>

AppendRollsBack(position) ==
    /\ position \in pending
    /\ pending' = pending \ {position}
    /\ UNCHANGED <<given, archived, replay, runRow, copied, owed>>

----------------------------------------------------------------------------
(* The command. *)

ReplayAt(at) == replay.at = at
Archive == UNCHANGED <<given, pending, archived>>

\* Without events there is no run.
ReadBounds ==
    /\ ReplayAt("bounds")
    /\ \/ archived = {} /\ replay' = [replay EXCEPT !.at = "over"]
       \/ \E first, last \in archived :
             /\ \A p \in archived : first <= p /\ p <= last
             /\ replay' = [replay EXCEPT !.at = "begin", !.last = last, !.next = first]
    /\ owed' = archived
    /\ Archive /\ UNCHANGED <<runRow, copied>>

\* The stream is new, and its row comes after it.
BeginRun ==
    /\ ReplayAt("begin")
    /\ runRow' = [status |-> "running", through |-> 0]
    /\ replay' = [replay EXCEPT !.at = "read"]
    /\ Archive /\ UNCHANGED <<copied, owed>>

MutBetween(position, next, last) == next < position /\ position <= last

Between(position, next, last) == next <= position /\ position <= last

\* The first rows of a result, in order of position: ORDER BY position LIMIT ReplayBatch.
FirstOf(found) ==
    {batch \in UNION {[1..size -> found] : size \in 0..ReplayBatch} :
        /\ \A n, k \in DOMAIN batch : n < k => batch[n] < batch[k]
        /\ \A p \in found \ Range(batch) :
              Len(batch) = ReplayBatch /\ \A n \in DOMAIN batch : batch[n] < p}

ReadBatch ==
    /\ ReplayAt("read")
    /\ \E batch \in FirstOf({p \in archived : Between(p, replay.next, replay.last)}) :
          replay' = [replay EXCEPT !.at = IF batch = <<>> THEN "complete" ELSE "publish",
                                   !.batch = batch]
    /\ Archive /\ UNCHANGED <<runRow, copied, owed>>

PublishArchived ==
    /\ ReplayAt("publish")
    /\ copied' = Append(copied, Head(replay.batch))
    /\ replay' = [at |-> IF Len(replay.batch) = 1 THEN "record" ELSE "publish",
                  last |-> replay.last, next |-> Head(replay.batch) + 1,
                  batch |-> Tail(replay.batch)]
    /\ Archive /\ UNCHANGED <<runRow, owed>>

RecordProgress ==
    /\ ReplayAt("record")
    /\ runRow' = [runRow EXCEPT !.through = replay.next - 1]
    /\ replay' = [replay EXCEPT !.at = "read"]
    /\ Archive /\ UNCHANGED <<copied, owed>>

CompleteRun ==
    /\ ReplayAt("complete")
    /\ runRow' = [runRow EXCEPT !.status = "completed"]
    /\ replay' = [replay EXCEPT !.at = "over"]
    /\ Archive /\ UNCHANGED <<copied, owed>>

\* A call that throws, without effect or after it took effect; the failure is recorded
\* whatever the row says by then.
ReplayThrows ==
    /\ replay.at \in {"bounds", "begin", "read", "publish", "record", "complete"}
    /\ \/ UNCHANGED <<runRow, copied>>
       \/ ReplayAt("begin") /\ runRow' = [status |-> "running", through |-> 0] /\ UNCHANGED copied
       \/ ReplayAt("publish") /\ copied' = Append(copied, Head(replay.batch)) /\ UNCHANGED runRow
       \/ ReplayAt("record") /\ runRow' = [runRow EXCEPT !.through = replay.next - 1] /\ UNCHANGED copied
       \/ ReplayAt("complete") /\ runRow' = [runRow EXCEPT !.status = "completed"] /\ UNCHANGED copied
    /\ replay' = [replay EXCEPT !.at = "failed"]
    /\ Archive /\ UNCHANGED owed

\* The update may fail too, and its error is dropped.
RecordRunFailure ==
    /\ ReplayAt("failed")
    /\ \/ runRow # NotRecorded /\ runRow' = [runRow EXCEPT !.status = "failed"]
       \/ UNCHANGED runRow
    /\ replay' = [replay EXCEPT !.at = "over"]
    /\ Archive /\ UNCHANGED <<copied, owed>>

\* A run whose process dies stays "running".
ReplayDies ==
    /\ ~ ReplayAt("over")
    /\ replay' = [replay EXCEPT !.at = "over"]
    /\ Archive /\ UNCHANGED <<runRow, copied, owed>>

ReplayNext ==
    \/ GivePosition \/ \E p \in pending : AppendCommits(p) \/ AppendRollsBack(p)
    \/ ReadBounds \/ BeginRun \/ ReadBatch \/ PublishArchived \/ RecordProgress \/ CompleteRun
    \/ ReplayThrows \/ RecordRunFailure \/ ReplayDies

ReplaySpec == ReplayInit /\ [][ReplayNext]_replayVars

----------------------------------------------------------------------------
\* A completed run has copied everything that was archived when it began, each event
\* once and in order, however commits, gaps of the positions and batches fall; and the
\* recorded progress is true of every run, the failed ones included.  An event that
\* commits below the cursor while the run is on is in neither.
ReplayIsComplete ==
    /\ \A n, k \in DOMAIN copied : n < k => copied[n] < copied[k]
    /\ runRow # NotRecorded =>
         LET claimed == IF runRow.status = "completed" THEN owed
                        ELSE {p \in owed : p <= runRow.through}
         IN  claimed \subseteq Range(copied)
=============================================================================
