------------------------------ MODULE EventOutbox ------------------------------
(***************************************************************************)
(* The transactional outbox: event-store.ts and outbox-relay.ts.  A        *)
(* catalog transaction inserts an event and its publication row; relay     *)
(* processes claim due rows under a lease, publish them to JetStream one   *)
(* by one, then mark each row published or release it for a later attempt. *)
(*                                                                         *)
(* Time is abstracted to what the WHERE clause of the claim compares: a    *)
(* row is "due" when available_at (pending) or locked_until (leased) has   *)
(* passed.  The attempt counter, which only sets the length of the         *)
(* backoff, is left out, so the state space is finite without bounding     *)
(* failures.  A relay may fail, stall past its lease, or crash, at any     *)
(* step.                                                                   *)
(***************************************************************************)
EXTENDS Integers, FiniteSets, Sequences, SequencesExt

CONSTANTS Positions,    \* positions of integration_events a run may commit
          Relays,       \* relay processes
          BatchLimit,   \* rows one claim takes (32 in the code)
          MaxStream     \* bound: no message id leaves the window past this length

ASSUME PositionsAssumption == Positions \subseteq Int
ASSUME BatchLimitAssumption == BatchLimit \in Nat \ {0}
ASSUME MaxStreamAssumption == MaxStream \in Nat

VARIABLES
    \* PostgreSQL
    status,   \* status[p]: status of the publication row, "none" before commit
    due,      \* positions whose available_at or locked_until has passed
    \* relay processes
    batch,    \* batch[r]: claimed events relay r has not finished with
    phase,    \* phase[r]: where r is with the first event of its batch
    \* JetStream
    stream,   \* messages stored in the stream, oldest first
    window,   \* message ids inside the duplicate window
    \* history
    lapsed    \* positions a lease of which has ever run out

vars == <<status, due, batch, phase, stream, window, lapsed>>

Statuses == {"none", "pending", "leased", "published"}
Phases == {"ready", "acked", "failed"}

Committed == {p \in Positions : status[p] # "none"}

Init ==
    /\ status = [p \in Positions |-> "none"]
    /\ due = {}
    /\ batch = [r \in Relays |-> {}]
    /\ phase = [r \in Relays |-> "ready"]
    /\ stream = <<>>
    /\ window = {}
    /\ lapsed = {}

----------------------------------------------------------------------------
(* The catalog and the clock.                                              *)

\* appendEvent, at the commit of the transaction it runs in.  Positions come
\* from an identity column and may commit out of order.
AppendEvent(p) ==
    /\ status[p] = "none"
    /\ status' = [status EXCEPT ![p] = "pending"]
    /\ due' = due \cup {p}
    /\ UNCHANGED <<batch, phase, stream, window, lapsed>>

\* The backoff of a released row passes.
BackoffPasses(p) ==
    /\ status[p] = "pending" /\ p \notin due
    /\ due' = due \cup {p}
    /\ UNCHANGED <<status, batch, phase, stream, window, lapsed>>

\* The 60 s lease of a claimed row runs out, its holder alive or not.
LeaseLapses(p) ==
    /\ status[p] = "leased" /\ p \notin due
    /\ due' = due \cup {p}
    /\ lapsed' = lapsed \cup {p}
    /\ UNCHANGED <<status, batch, phase, stream, window>>

\* JetStream forgets a message id ten minutes after it stored the message.
WindowPasses(p) ==
    /\ p \in window /\ Len(stream) < MaxStream
    /\ window' = window \ {p}
    /\ UNCHANGED <<status, due, batch, phase, stream, lapsed>>

----------------------------------------------------------------------------
(* A relay process.                                                        *)

MutClaimIgnoresLease == {p \in Positions : status[p] \in {"pending", "leased"}}
MutClaimPendingOnly == {p \in due : status[p] = "pending"}
MutClaimUncommitted == {p \in Positions : status[p] \in {"none", "pending"}}

Claimable == {p \in due : status[p] \in {"pending", "leased"}}

\* The lowest BatchLimit claimable positions, as ORDER BY and LIMIT take them.
ClaimBatch ==
    {p \in Claimable : Cardinality({q \in Claimable : q < p}) < BatchLimit}

\* claimPublicationBatch, called by an idle relay.
Claim(r) ==
    /\ batch[r] = {} /\ ClaimBatch # {}
    /\ batch' = [batch EXCEPT ![r] = ClaimBatch]
    /\ status' = [p \in Positions |->
                    IF p \in ClaimBatch THEN "leased" ELSE status[p]]
    /\ due' = due \ ClaimBatch
    /\ UNCHANGED <<phase, stream, window, lapsed>>

IsFirst(r, p) == p \in batch[r] /\ \A q \in batch[r] : p <= q

\* JetStream stores a message unless its id is inside the duplicate window.
Store(p) ==
    /\ stream' = IF p \in window THEN stream ELSE Append(stream, p)
    /\ window' = window \cup {p}

\* The broker acknowledges the publish.
PublishAcked(r, p) ==
    /\ phase[r] = "ready" /\ IsFirst(r, p)
    /\ Store(p)
    /\ phase' = [phase EXCEPT ![r] = "acked"]
    /\ UNCHANGED <<status, due, batch, lapsed>>

MutPublishErrorIgnored(r, p) ==
    /\ phase[r] = "ready" /\ IsFirst(r, p)
    /\ phase' = [phase EXCEPT ![r] = "acked"]
    /\ UNCHANGED <<status, due, batch, stream, window, lapsed>>

\* The publish throws: the message, or only its acknowledgement, is lost.
PublishThrows(r, p) ==
    /\ phase[r] = "ready" /\ IsFirst(r, p)
    /\ Store(p) \/ UNCHANGED <<stream, window>>
    /\ phase' = [phase EXCEPT ![r] = "failed"]
    /\ UNCHANGED <<status, due, batch, lapsed>>

Finish(r, p) ==
    /\ batch' = [batch EXCEPT ![r] = @ \ {p}]
    /\ phase' = [phase EXCEPT ![r] = "ready"]

MutMarkKeepsEvent(r, p) ==
    /\ phase[r] = "acked" /\ IsFirst(r, p)
    /\ status' = [status EXCEPT ![p] = "published"]
    /\ due' = due \cup {p}
    /\ phase' = [phase EXCEPT ![r] = "ready"]
    /\ UNCHANGED <<batch, stream, window, lapsed>>

\* markPublicationPublished: by event id alone, whoever holds the lease.
MarkPublished(r, p) ==
    /\ phase[r] = "acked" /\ IsFirst(r, p)
    /\ status' = [status EXCEPT ![p] = "published"]
    /\ due' = due \ {p}
    /\ Finish(r, p)
    /\ UNCHANGED <<stream, window, lapsed>>

\* The update throws, applied or not, and the same catch block takes over.
MarkThrows(r, p) ==
    /\ phase[r] = "acked" /\ IsFirst(r, p)
    /\ \/ status' = [status EXCEPT ![p] = "published"] /\ due' = due \ {p}
       \/ UNCHANGED <<status, due>>
    /\ phase' = [phase EXCEPT ![r] = "failed"]
    /\ UNCHANGED <<batch, stream, window, lapsed>>

\* releasePublication: by event id alone, with a backoff of at least 2 s.
ReleasePublication(r, p) ==
    /\ phase[r] = "failed" /\ IsFirst(r, p)
    /\ status' = [status EXCEPT ![p] = "pending"]
    /\ due' = due \ {p}
    /\ Finish(r, p)
    /\ UNCHANGED <<stream, window, lapsed>>

\* The process dies, or releasePublication throws, which ends the relay loop;
\* its successor starts with nothing and the leases have to run out.
Crash(r) ==
    /\ batch[r] # {}
    /\ batch' = [batch EXCEPT ![r] = {}]
    /\ phase' = [phase EXCEPT ![r] = "ready"]
    /\ UNCHANGED <<status, due, stream, window, lapsed>>

----------------------------------------------------------------------------

Environment(p) ==
    AppendEvent(p) \/ BackoffPasses(p) \/ LeaseLapses(p) \/ WindowPasses(p)

Relay(r) ==
    \/ Claim(r) \/ Crash(r)
    \/ \E p \in Positions :
        \/ PublishAcked(r, p) \/ PublishThrows(r, p)
        \/ MarkPublished(r, p) \/ MarkThrows(r, p)
        \/ ReleasePublication(r, p)

Next == (\E p \in Positions : Environment(p)) \/ (\E r \in Relays : Relay(r))

Spec == Init /\ [][Next]_vars

\* Clocks advance, and relays keep polling and go on with what they claimed.
Fairness ==
    /\ \A p \in Positions :
        WF_vars(BackoffPasses(p)) /\ WF_vars(LeaseLapses(p))
    /\ \A r \in Relays :
        /\ WF_vars(Claim(r))
        /\ WF_vars(\E p \in Positions :
            PublishAcked(r, p) \/ MarkPublished(r, p) \/ ReleasePublication(r, p))

FairSpec == Spec /\ Fairness

----------------------------------------------------------------------------
(* Properties.                                                             *)

TypeOK ==
    /\ status \in [Positions -> Statuses]
    /\ due \subseteq Positions
    /\ batch \in [Relays -> SUBSET Positions]
    /\ phase \in [Relays -> Phases]
    /\ stream \in Seq(Positions)
    /\ window \subseteq Positions
    /\ lapsed \subseteq Positions

\* A row says "published" only when the event is in the stream: no failed or
\* unacknowledged publish, by any relay, may retire a row (outbox-relay.ts
\* marks after the acknowledgement only).
PublishedIsOnStream ==
    \A p \in Positions : status[p] = "published" => p \in ToSet(stream)

\* While no lease of an event has run out, at most one relay is working on it:
\* claims by several relays, releases, republications and crashes never put one
\* event into two batches (FOR UPDATE SKIP LOCKED with locked_until).
LeaseIsExclusive ==
    \A p \in Positions \ lapsed : \A r, s \in Relays :
        p \in batch[r] \cap batch[s] => r = s

\* A published row whose leases never ran out is in no relay's hands, except the
\* relay whose mark was applied but threw: markPublished and release update by
\* event id alone, so whoever else held it could put a sent event back into the
\* queue.
PublishedIsSettled ==
    \A p \in Positions \ lapsed : status[p] = "published" =>
        \A r \in Relays : p \in batch[r] => phase[r] = "failed" /\ IsFirst(r, p)

Fault ==
    \/ \E r \in Relays :
        \/ Crash(r)
        \/ \E p \in Positions : PublishThrows(r, p) \/ MarkThrows(r, p)
    \/ \E p \in UNION {batch[r] : r \in Relays} : LeaseLapses(p)

FaultsCease == <>[][~Fault]_vars

\* Once the broker, the database and the relays stop failing, every committed
\* event reaches the stream: none was lost, retired or stranded by the failures
\* before.  A fault that recurs for ever on an earlier event may starve a later
\* one, since a batch is published in order of position.
EventuallyOnStream ==
    FaultsCease =>
        \A p \in Positions : status[p] # "none" ~> p \in ToSet(stream)

Contract == INSTANCE EventDelivery WITH committed <- Committed

\* Every step of the outbox is a commit or a delivery of the contract, or leaves
\* both the committed events and the stream alone: leases, failures, releases
\* and crashes never show, and nothing reaches the stream before it committed.
ImplementsDelivery == Contract!SafeSpec
=============================================================================
