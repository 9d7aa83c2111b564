----------------------------- MODULE SearchRebuild -----------------------------
(***************************************************************************)
(* A search rebuild (rebuild-semantic-search.ts) running beside the live   *)
(* indexer and the catalog: it fills a fresh collection from a snapshot,   *)
(* catches up with the event log, compares two counts, and moves the       *)
(* active alias, which the indexer resolves once per delivery.             *)
(***************************************************************************)
EXTENDS SearchIndexer

CONSTANT Target     \* the fresh collection of the run

ASSUME TargetAssumption == Target \in Collections \ {Initial}

VARIABLE rebuild    \* the run: its program counter, its data, its row

rebuildVars == <<vars, rebuild>>

RebuildInit ==
    /\ Init
    /\ rebuild = [step |-> "off", status |-> "none", cursor |-> 0, todo |-> <<>>,
                  loaded |-> NoDocument, counts |-> <<>>,
                  seen |-> {}, exposed |-> {}]

PositionsOf(f) == {p \in CommittedPositions : EventAt(p).fragment = f}

At(step) == rebuild.step = step /\ UNCHANGED <<catalogVars, stream, indexVars>>

IndexedCount == Cardinality({f \in Fragments : points[Target][f] # NoDocument})
VisibleCount == Cardinality(Visible)

\* currentHighWaterPosition, the insert of the run's row, ensureCollection.
StartRebuild ==
    /\ At("off")
    /\ rebuild' = [rebuild EXCEPT !.step = "snapshot", !.status = "running",
                                  !.cursor = HighWater]
    /\ UNCHANGED alias

\* The query of indexSnapshot; `seen` remembers what had committed by then.
ListSnapshot ==
    /\ At("snapshot")
    /\ rebuild' = [rebuild EXCEPT !.step = "read", !.todo = SetToSeq(Visible),
                                  !.seen = CommittedPositions]
    /\ UNCHANGED alias

\* indexCurrentDocument: loadSearchDocument, then upsert or delete.
ReadDocument ==
    /\ At("read") /\ rebuild.todo # <<>>
    /\ rebuild' = [rebuild EXCEPT !.step = "store",
                                  !.loaded = Document(Head(rebuild.todo))]
    /\ UNCHANGED alias

StoreDocument ==
    /\ rebuild.step = "store"
    /\ points' = [points EXCEPT ![Target][Head(rebuild.todo)] = rebuild.loaded]
    /\ rebuild' = [rebuild EXCEPT !.step = "read", !.todo = Tail(@)]
    /\ UNCHANGED <<catalogVars, stream, alias, consumer, worker, indexed, termed, dropped>>

\* The committed events past the cursor, in order of position.
Missing == {p \in CommittedPositions : p > rebuild.cursor}

MutCatchUpTrustsSnapshot ==
    /\ At("read") /\ rebuild.todo = <<>> /\ Missing # {}
    /\ rebuild' = [rebuild EXCEPT !.cursor = HighWater, !.seen = @ \cup Missing]
    /\ UNCHANGED alias

\* catchUpEvents reads the next events; each is indexed from current state.
CatchUp ==
    /\ At("read") /\ rebuild.todo = <<>> /\ Missing # {}
    /\ \E order \in [1..Cardinality(Missing) -> Missing] :
        /\ \A m, n \in DOMAIN order : m < n => order[m] < order[n]
        /\ rebuild' = [rebuild EXCEPT
                        !.cursor = HighWater,
                        !.todo = [n \in DOMAIN order |-> EventAt(order[n]).fragment],
                        !.seen = rebuild.seen \cup Missing]
    /\ UNCHANGED alias

\* Nothing is left past the cursor.
CaughtUp ==
    /\ At("read") /\ rebuild.todo = <<>> /\ Missing = {}
    /\ rebuild' = [rebuild EXCEPT !.step = "count"]
    /\ UNCHANGED alias

\* The two counts are asked for together and answered in any order.
Count(which) ==
    /\ At("count") /\ which \notin DOMAIN rebuild.counts
    /\ LET count == IF which = 1 THEN IndexedCount ELSE VisibleCount
           counts == [k \in DOMAIN rebuild.counts \cup {which} |->
                        IF k = which THEN count ELSE rebuild.counts[k]]
       IN  rebuild' = [rebuild EXCEPT
                        !.counts = counts,
                        !.step = IF DOMAIN counts = {1, 2} THEN "switch" ELSE "count"]
    /\ UNCHANGED alias

\* setAlias, one atomic alias operation of Qdrant.  `exposed` remembers the
\* fragments with committed events the run had not read.
SwitchAlias ==
    /\ At("switch") /\ rebuild.counts[1] = rebuild.counts[2]
    /\ alias' = Target
    /\ rebuild' = [rebuild EXCEPT
                    !.step = "mark",
                    !.exposed = {f \in Fragments : ~(PositionsOf(f) \subseteq rebuild.seen)}]

MarkReady ==
    /\ At("mark")
    /\ rebuild' = [rebuild EXCEPT !.step = "over", !.status = "ready"]
    /\ UNCHANGED alias

\* The counts differ, or any call of the run throws: the catch block.
FailRebuild ==
    /\ rebuild.step \notin {"off", "over"}
    /\ At(rebuild.step)
    /\ \/ "throw" \in Faults
       \/ rebuild.step = "switch" /\ rebuild.counts[1] # rebuild.counts[2]
    /\ rebuild' = [rebuild EXCEPT !.step = "over", !.status = "failed"]
    /\ UNCHANGED alias

\* The process dies, or the catch block itself throws: the row stays "running".
CrashRebuild ==
    /\ rebuild.step \notin {"off", "over"}
    /\ At(rebuild.step) /\ "crash" \in Faults
    /\ rebuild' = [rebuild EXCEPT !.step = "over"]
    /\ UNCHANGED alias

RunRebuild ==
    \/ StartRebuild \/ ListSnapshot \/ ReadDocument \/ StoreDocument \/ CatchUp
    \/ CaughtUp \/ (\E which \in {1, 2} : Count(which)) \/ SwitchAlias \/ MarkReady
    \/ FailRebuild \/ CrashRebuild

RebuildNext == (Next /\ UNCHANGED rebuild) \/ RunRebuild

RebuildSpec == RebuildInit /\ [][RebuildNext]_rebuildVars

----------------------------------------------------------------------------
(* Properties.                                                             *)

\* When the alias moves, every fragment whose committed events the run has read
\* is in the new collection exactly as the catalog shows it: documents loaded
\* before an edit, deletions between listing and loading, and events committed
\* while others were indexed are all made good by the catch-up.
TargetIsCurrentAtSwitch ==
    [][SwitchAlias => \A f \in Fragments \ raced :
        PositionsOf(f) \subseteq rebuild.seen => points[Target][f] = Document(f)]_rebuildVars

\* A rebuild can make the active index differ from the catalog for good only in
\* the fragments written between its last read of the log and the alias move.
SwitchLosesOnlyExposed ==
    Quiet => \A f \in Fragments \ (raced \cup rebuild.exposed) :
                GivenUp(f) \/ points[alias][f] = Document(f)

\* The move of the alias is sound: what the run has read is in the new collection, and
\* what it has not read is all that can be missing afterwards.
SwitchIsSound == TargetIsCurrentAtSwitch /\ []SwitchLosesOnlyExposed
=============================================================================
