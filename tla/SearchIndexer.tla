----------------------------- MODULE SearchIndexer -----------------------------
(***************************************************************************)
(* The search indexer (search-indexer.ts, search-index-state.ts) between   *)
(* the durable JetStream consumer search-indexer-v1 and Qdrant, composed   *)
(* with the catalog it reads (SearchCatalog) and with the delivery         *)
(* contract that EventOutbox implements (EventDelivery).                   *)
(*                                                                         *)
(* One action per call the indexer awaits, so that catalog writes, purges, *)
(* redeliveries and other indexers fall between any two of them.  An error *)
(* thrown by a call, a crash, and an acknowledgement wait that passes are  *)
(* actions of their own; a call that took effect and still threw is that   *)
(* call followed by the failure of the next one.                           *)
(***************************************************************************)
EXTENDS SearchCatalog, FiniteSets

CONSTANTS Indexers,       \* search-indexer processes (one in deploy/compose.yaml)
          Collections,    \* Qdrant collections
          Initial,        \* the collection the alias names at first
          MaxDeliver,     \* max_deliver of the consumer (10 in topology.ts)
          MaxStream,      \* bound: no duplicates in the stream past this length
          Faults          \* the faults a run injects

ASSUME InitialAssumption == Initial \in Collections
ASSUME MaxDeliverAssumption == MaxDeliver \in Nat \ {0}
ASSUME FaultsAssumption == Faults \subseteq {"throw", "crash", "slow"}

VARIABLES
    \* JetStream
    stream,     \* positions of the messages, oldest first
    consumer,   \* the durable consumer: at most one message outstanding
    \* the processes
    worker,     \* worker[i]: where indexer i is with its message
    \* PostgreSQL and Qdrant
    indexed,    \* indexed[f]: row of semantic_search_index_state, position 0 for null
    points,     \* points[c][f]: the document of f in collection c
    alias,      \* the collection the active alias names
    \* history
    termed,     \* positions given up with a failed state recorded
    dropped     \* positions JetStream gave up after max_deliver deliveries

indexVars == <<consumer, worker, indexed, points, termed, dropped>>
vars == <<catalogVars, stream, alias, indexVars>>

Steps == {"idle", "resolve", "check", "load", "pend", "write", "erase",
          "apply", "ack", "failed"}
Documents == {NoDocument} \cup ((1..MaxPosition) \X (0..MaxTitle))

Idle == [step |-> "idle", seq |-> 0, delivery |-> 0, target |-> Initial,
         loaded |-> NoDocument]
NoState == [status |-> "none", position |-> 0]

Init ==
    /\ CatalogInit
    /\ stream = <<>>
    /\ consumer = [next |-> 1, deliveries |-> 0, state |-> "none"]
    /\ worker = [i \in Indexers |-> Idle]
    /\ indexed = [f \in Fragments |-> NoState]
    /\ points = [c \in Collections |-> [f \in Fragments |-> NoDocument]]
    /\ alias = Initial
    /\ termed = {}
    /\ dropped = {}

----------------------------------------------------------------------------
(* Deliveries into the stream, and the durable consumer.                   *)

Delivery == INSTANCE EventDelivery
                WITH Positions <- 1..MaxPosition, committed <- CommittedPositions

\* The outbox appends a committed event, once or more.
Deliver(p) ==
    /\ UNCHANGED <<catalogVars, indexVars, alias>>
    /\ p \notin ToSet(stream) \/ Len(stream) < MaxStream
    /\ Delivery!Deliver(p)

Settled == [next |-> consumer.next + 1, deliveries |-> 0, state |-> "none"]

MutReofferForEver(n) ==
    IF n = consumer.next /\ consumer.state = "out"
    THEN /\ consumer' = [consumer EXCEPT !.state = "again",
                                         !.deliveries = IF @ = MaxDeliver THEN @ - 1 ELSE @]
         /\ UNCHANGED dropped
    ELSE UNCHANGED <<consumer, dropped>>

\* JetStream offers message n again, or drops it when it is out of deliveries.
Reoffer(n) ==
    IF n # consumer.next \/ consumer.state # "out"
    THEN UNCHANGED <<consumer, dropped>>
    ELSE IF consumer.deliveries < MaxDeliver
    THEN /\ consumer' = [consumer EXCEPT !.state = "again"]
         /\ UNCHANGED dropped
    ELSE /\ consumer' = Settled
         /\ dropped' = dropped \cup {stream[n]}

\* An acknowledgement of any delivery of message n settles it.
Settle(n) == consumer' = IF n = consumer.next THEN Settled ELSE consumer

\* ack_wait passes: the holder crashed, or is slow.
AckWaitPasses ==
    /\ consumer.state = "out"
    /\ "slow" \in Faults \/ \A i \in Indexers : worker[i].seq # consumer.next
    /\ Reoffer(consumer.next)
    /\ UNCHANGED <<catalogVars, stream, alias, worker, indexed, points, termed>>

\* consumer.next(): max_ack_pending = 1 keeps every later message waiting.
Receive(i) ==
    /\ worker[i].step = "idle"
    /\ \/ consumer.state = "none" /\ consumer.next <= Len(stream)
       \/ consumer.state = "again"
    /\ consumer' = [consumer EXCEPT !.deliveries = @ + 1, !.state = "out"]
    /\ worker' = [worker EXCEPT ![i] = [Idle EXCEPT
                    !.step = "resolve", !.seq = consumer.next,
                    !.delivery = consumer.deliveries + 1]]
    /\ UNCHANGED <<catalogVars, stream, alias, indexed, points, termed, dropped>>

----------------------------------------------------------------------------
(* processSearchIndexMessage, one awaited call at a time.                  *)

EventOf(i) == EventAt(stream[worker[i].seq])
FragmentOf(i) == EventOf(i).fragment
PositionOf(i) == EventOf(i).position

\* Indexer i is at step `from` and goes to step `to`.
Goto(i, from, to) ==
    /\ worker[i].step = from
    /\ worker' = [worker EXCEPT ![i].step = to]

ExceptWorker == <<catalogVars, stream, alias, consumer, indexed, points, termed, dropped>>
ExceptState == <<catalogVars, stream, alias, consumer, points, termed, dropped>>
ExceptPoints == <<catalogVars, stream, alias, consumer, indexed, termed, dropped>>

\* resolveCollection and ensureCollection.
Resolve(i) ==
    /\ worker[i].step = "resolve"
    /\ worker' = [worker EXCEPT ![i].step = "check", ![i].target = alias]
    /\ UNCHANGED ExceptWorker

MutAppliedIfEqual(i) == indexed[FragmentOf(i)].position = PositionOf(i)

\* isAlreadyApplied, and the branch on the type of the event.
AlreadyApplied(i) == indexed[FragmentOf(i)].position >= PositionOf(i)

MutCheckNothing(i) ==
    /\ worker[i].step = "check"
    /\ Goto(i, "check", IF EventOf(i).type = "deleted" THEN "erase" ELSE "load")
    /\ UNCHANGED ExceptWorker

Check(i) ==
    /\ worker[i].step = "check"
    /\ Goto(i, "check",
            IF AlreadyApplied(i) THEN "ack"
            ELSE IF EventOf(i).type = "deleted" THEN "erase" ELSE "load")
    /\ UNCHANGED ExceptWorker

\* loadSearchDocument.
Load(i) ==
    LET document == Document(FragmentOf(i)) IN
    /\ worker[i].step = "load"
    /\ worker' = [worker EXCEPT
                    ![i].step = IF document = NoDocument THEN "erase" ELSE "pend",
                    ![i].loaded = document]
    /\ UNCHANGED ExceptWorker

\* The foreign key of semantic_search_index_state on fragments.
RowExists(f) == row[f].state # "absent"

MutAlwaysNewer(f, p) == indexed[f].position # p

\* The WHERE clause of the three upserts: a newer applied position wins.
Newer(f, p) == indexed[f].position < p

RecordPending(i) ==
    LET f == FragmentOf(i) IN
    /\ Goto(i, "pend", "write")
    /\ RowExists(f)
    /\ indexed' = IF Newer(f, PositionOf(i))
                  THEN [indexed EXCEPT ![f].status = "pending"] ELSE indexed
    /\ UNCHANGED ExceptState

\* store.upsert, after an embedding call that changes no state.
Upsert(i) ==
    /\ Goto(i, "write", "apply")
    /\ points' = [points EXCEPT ![worker[i].target][FragmentOf(i)] = worker[i].loaded]
    /\ UNCHANGED ExceptPoints

\* store.delete.
Erase(i) ==
    /\ Goto(i, "erase", "apply")
    /\ points' = [points EXCEPT ![worker[i].target][FragmentOf(i)] = NoDocument]
    /\ UNCHANGED ExceptPoints

RecordApplied(i) ==
    LET f == FragmentOf(i) IN
    /\ Goto(i, "apply", "ack")
    /\ RowExists(f)
    /\ indexed' = IF Newer(f, PositionOf(i))
                  THEN [indexed EXCEPT ![f] = [status |-> "ready", position |-> PositionOf(i)]]
                  ELSE indexed
    /\ UNCHANGED ExceptState

\* message.ackAck() settles the message; its own reply may still be lost.
Ack(i) ==
    /\ worker[i].step = "ack"
    /\ Settle(worker[i].seq)
    /\ \/ worker' = [worker EXCEPT ![i] = Idle]
       \/ "throw" \in Faults /\ worker' = [worker EXCEPT ![i].step = "failed"]
    /\ UNCHANGED <<catalogVars, stream, alias, indexed, points, termed, dropped>>

\* The insert into semantic_search_index_state breaks its foreign key.
ForeignKeyFails(i) ==
    /\ worker[i].step \in {"pend", "apply"} /\ ~RowExists(FragmentOf(i))
    /\ worker' = [worker EXCEPT ![i].step = "failed"]
    /\ UNCHANGED ExceptWorker

\* PostgreSQL, Qdrant, the embedding service or the broker fails a call.
Throw(i) ==
    /\ "throw" \in Faults
    /\ worker[i].step \notin {"idle", "failed"}
    /\ worker' = [worker EXCEPT ![i].step = "failed"]
    /\ UNCHANGED ExceptWorker

----------------------------------------------------------------------------
(* handleSearchIndexFailure.                                               *)

\* A delivery is left: nak after 5 s.
Retry(i) ==
    /\ worker[i].step = "failed" /\ worker[i].delivery < MaxDeliver
    /\ Reoffer(worker[i].seq)
    /\ worker' = [worker EXCEPT ![i] = Idle]
    /\ UNCHANGED <<catalogVars, stream, alias, indexed, points, termed>>

\* The last delivery failed: record it and terminate the message.
RecordFailed(i) ==
    LET f == FragmentOf(i) IN
    /\ worker[i].step = "failed" /\ worker[i].delivery = MaxDeliver
    /\ RowExists(f)
    /\ indexed' = IF Newer(f, PositionOf(i))
                  THEN [indexed EXCEPT ![f].status = "failed"] ELSE indexed
    /\ Settle(worker[i].seq)
    /\ termed' = IF worker[i].seq = consumer.next
                 THEN termed \cup {PositionOf(i)} ELSE termed
    /\ worker' = [worker EXCEPT ![i] = Idle]
    /\ UNCHANGED <<catalogVars, stream, alias, points, dropped>>

\* Recording the failure fails too: a nak of a message out of deliveries.
RecordFailedThrows(i) ==
    /\ worker[i].step = "failed" /\ worker[i].delivery = MaxDeliver
    /\ "throw" \in Faults \/ ~RowExists(FragmentOf(i))
    /\ Reoffer(worker[i].seq)
    /\ worker' = [worker EXCEPT ![i] = Idle]
    /\ UNCHANGED <<catalogVars, stream, alias, indexed, points, termed>>

\* The process dies and starts again; its message waits for ack_wait.
Crash(i) ==
    /\ "crash" \in Faults /\ worker[i].step # "idle"
    /\ worker' = [worker EXCEPT ![i] = Idle]
    /\ UNCHANGED ExceptWorker

----------------------------------------------------------------------------

\* semantic_search_index_state goes with the fragment row (on delete cascade).
PurgeCascades ==
    /\ Purge
    /\ indexed' = [f \in Fragments |-> IF row'[f].state = "absent"
                                       THEN NoState ELSE indexed[f]]
    /\ UNCHANGED <<stream, alias, consumer, worker, points, termed, dropped>>

Catalog == (Write /\ UNCHANGED <<stream, alias, indexVars>>) \/ PurgeCascades

Process(i) ==
    \/ Receive(i) \/ Resolve(i) \/ Check(i) \/ Load(i) \/ RecordPending(i)
    \/ Upsert(i) \/ Erase(i) \/ RecordApplied(i) \/ Ack(i) \/ ForeignKeyFails(i)
    \/ Retry(i) \/ RecordFailed(i) \/ RecordFailedThrows(i)

Pipeline ==
    \/ \E p \in CommittedPositions : Deliver(p)
    \/ AckWaitPasses
    \/ \E i \in Indexers : Process(i) \/ Throw(i) \/ Crash(i)

Next == Catalog \/ Pipeline

Spec == Init /\ [][Next]_vars

\* Transactions end, the outbox keeps its contract, clocks advance, and every
\* indexer goes on with the message it holds.
Fairness ==
    /\ WF_vars(\E t \in open : Commit(t) /\ UNCHANGED <<stream, alias, indexVars>>)
    /\ \A p \in 1..MaxPosition : WF_vars(p \in CommittedPositions \ ToSet(stream) /\ Deliver(p))
    /\ WF_vars(AckWaitPasses)
    /\ \A i \in Indexers : WF_vars(Process(i))

FairSpec == Spec /\ Fairness

----------------------------------------------------------------------------
(* Properties.                                                             *)

TypeOK ==
    /\ CatalogTypeOK
    /\ stream \in Seq(1..MaxPosition)
    /\ consumer \in [next : 1..(Len(stream) + 1), deliveries : 0..MaxDeliver,
                     state : {"none", "out", "again"}]
    /\ worker \in [Indexers -> [step : Steps, seq : 0..Len(stream),
                                delivery : 0..MaxDeliver, target : Collections,
                                loaded : Documents]]
    /\ indexed \in [Fragments -> [status : {"none", "pending", "ready", "failed"},
                                  position : 0..MaxPosition]]
    /\ points \in [Collections -> [Fragments -> Documents]]
    /\ alias \in Collections
    /\ termed \cup dropped \subseteq 1..MaxPosition

\* A fragment recorded ready at the position of its latest committed event is in
\* the active collection exactly as the catalog shows it: whatever was
\* redelivered, reordered, retried or cut short by a crash, no older document
\* and no deletion overtaken by a restore is left behind.
ReadyMeansCurrent ==
    \A f \in Fragments \ raced :
        /\ indexed[f].status = "ready"
        /\ \A n \in DOMAIN log :
            log[n].fragment = f => log[n].position <= indexed[f].position
        => points[alias][f] = Document(f)

\* The position recorded as applied to a fragment never goes back while its row
\* lives, even with two indexers on redeliveries of different messages.
AppliedPositionIsMonotone ==
    [][\A f \in Fragments :
        row'[f].state # "absent" => indexed'[f].position >= indexed[f].position]_vars

\* A delivery that is a duplicate of, or older than, what was applied to its
\* fragment changes nothing in Qdrant.
StaleDeliveryChangesNothing ==
    [][\A i \in Indexers :
        (Upsert(i) \/ Erase(i)) => ~AlreadyApplied(i)]_vars

Quiet ==
    /\ open = {}
    /\ CommittedPositions \subseteq ToSet(stream)
    /\ consumer.next > Len(stream)
    /\ \A i \in Indexers : worker[i].step = "idle"

GivenUp(f) == \E p \in termed \cup dropped : EventAt(p).fragment = f

\* Once everything committed has been delivered and processed, the active
\* collection equals the catalog, but for fragments given up after max_deliver
\* deliveries and fragments written during a save of their whole source.
QuietMeansCurrent ==
    Quiet => \A f \in Fragments \ raced :
                GivenUp(f) \/ points[alias][f] = Document(f)

\* The same with no fragment excused: the promise of the design.
NoChangeIsLost == Quiet => \A f \in Fragments : points[alias][f] = Document(f)

\* A message that fails to the last is never just dropped by JetStream: its
\* failure was recorded, or it was acknowledged.
ExhaustionIsRecorded == dropped = {}

\* The pipeline drains: no message, and no failure, holds the consumer for ever.
Drains == <>[](consumer.next > Len(stream) /\ CommittedPositions \subseteq ToSet(stream))
=============================================================================
