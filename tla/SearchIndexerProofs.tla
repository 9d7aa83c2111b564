-------------------------- MODULE SearchIndexerProofs --------------------------
(***************************************************************************)
(* Proofs about SearchCatalog, SearchIndexer and SearchRebuild for any      *)
(* finite set of fragments, any number of collections, any bounds and any  *)
(* of the faults; where a theorem needs it, for the one indexer that is    *)
(* deployed.                                                               *)
(*                                                                         *)
(* The transactions that touch a fragment that was not raced follow each   *)
(* other, so that the position of its latest event is its highest and the  *)
(* catalog has not changed since (CatalogInv); what the worker holds, or   *)
(* the index records, of that latest event is then what the catalog shows  *)
(* (WorkerHolds, AppliedHolds, SettledHolds).                              *)
(*                                                                         *)
(* Until the alias moves nobody but the run of the rebuild writes to its   *)
(* collection (AliasHolds), which is current in all the events the run has *)
(* read, but for what it is about to index (CopyHolds); afterwards the     *)
(* indexer keeps current what was current at the move (ServedInv).         *)
(***************************************************************************)
EXTENDS SearchRebuild, FiniteSetTheorems, SequenceTheorems, TLAPS

Log == ToSet(log)
Events(t) == ToSet(t.events)
EventsOf(f) == {e \in Log : e.fragment = f}

\* The event is the last one committed of its fragment.
Latest(e) == \A d \in EventsOf(e.fragment) : d.position <= e.position

Touches(t, f) == t.kind \in SourceWide \/ f \in t.locks

Row == [state : {"absent", "live", "deleted"}, revision : Nat]
Transaction == [kind : Kinds, locks : SUBSET Fragments, events : Seq(Event)]

CatalogTypes ==
    /\ row \in [Fragments -> Row]
    /\ source \in [title : Nat, deleting : BOOLEAN]
    /\ lastPosition \in Nat
    /\ open \subseteq Transaction
    /\ log \in Seq(Event)
    /\ raced \subseteq Fragments

\* No position is given twice.
PositionsHold ==
    /\ \A e \in Log : e.position <= lastPosition
    /\ \A t \in open : \A e \in Events(t) : e.position <= lastPosition
    /\ \A d, e \in Log : d.position = e.position => d = e
    /\ \A t \in open : \A d, e \in Events(t) : d.position = e.position => d = e
    /\ \A t \in open : \A d \in Log, e \in Events(t) : d.position # e.position
    /\ \A t, u \in open : \A d \in Events(t), e \in Events(u) : d.position = e.position => t = u

\* The events of a transaction say what it does to the fragments it touches.
TransactionsHold ==
    \A t \in open :
        /\ t.kind \in SourceWide => t.locks = {}
        /\ \A e \in Events(t) : /\ Touches(t, e.fragment)
                                /\ e.type = "deleted" => t.kind \in {"delete", "discard"} \/ source.deleting
                                /\ \A d \in Events(t) : d.fragment = e.fragment => d = e
        /\ \A f \in t.locks : \E e \in Events(t) : e.fragment = f

\* One transaction at a time touches a fragment that was not raced, and tells of it.
OneTouches ==
    \A f \in Fragments \ raced : \A t \in open : Touches(t, f) =>
        /\ \A u \in open : Touches(u, f) => u = t
        /\ Document(f) # NoDocument => \E e \in Events(t) : e.fragment = f
        /\ \A e \in Events(t) : e.fragment = f => \A d \in EventsOf(f) : d.position < e.position

\* The latest event of a fragment that was not raced tells what the catalog shows of it.
LatestHolds ==
    \A f \in Fragments \ raced :
        /\ Document(f) # NoDocument => EventsOf(f) # {}
        /\ EventsOf(f) # {} => \E e \in EventsOf(f) : Latest(e)
        /\ \A e \in EventsOf(f) : Latest(e) /\ e.type = "deleted" => Document(f) = NoDocument

CatalogInv == CatalogTypes /\ PositionsHold /\ TransactionsHold /\ OneTouches /\ LatestHolds

States == {"none", "pending", "ready", "failed"}
Contents == {NoDocument} \cup (Nat \X Nat)
Work == [step : Steps, seq : Nat, delivery : Nat, target : Collections, loaded : Contents]
Applied == [status : States, position : Nat]
Consumer == [next : Nat \ {0}, deliveries : Nat, state : {"none", "out", "again"}]

IndexTypes ==
    /\ stream \in Seq(Nat) /\ ToSet(stream) \subseteq CommittedPositions
    /\ consumer \in Consumer
    /\ worker \in [Indexers -> Work]
    /\ indexed \in [Fragments -> Applied]
    /\ points \in [Collections -> [Fragments -> Contents]]
    /\ alias \in Collections
    /\ termed \cup dropped \subseteq CommittedPositions

\* The consumer is at a message of the stream, or past the last.
Queued ==
    /\ consumer.next \in 1..(Len(stream) + 1)
    /\ consumer.state # "none" => consumer.next \in 1..Len(stream)

\* An indexer at work holds a message of the stream.
IndexHolds ==
    /\ Queued
    /\ \A i \in Indexers : worker[i].step # "idle" => worker[i].seq \in 1..Len(stream)
    /\ \A f \in Fragments :
         /\ indexed[f].position # 0 => \E e \in EventsOf(f) : e.position = indexed[f].position
         /\ indexed[f].status = "ready" => indexed[f].position # 0

PipelineInv == CatalogInv /\ IndexTypes /\ IndexHolds

----------------------------------------------------------------------------
Shows(f) == points[alias][f] = Document(f)

\* The event is settled: the consumer is past a message of it.
SettledEvent(e) == \E n \in 1..(consumer.next - 1) : n \in DOMAIN stream /\ stream[n] = e.position

\* The indexer works for a collection that the alias does not name any more.
Elsewhere(w) == w.step \in Steps \ {"idle", "resolve", "failed"} /\ w.target # alias

\* What the worker has is what the catalog shows; if it works for another collection, there
\* is nothing to be done for that of the alias.
Holds(i) ==
    LET f == FragmentOf(i)
    IN  /\ Elsewhere(worker[i]) => Shows(f)
        /\ worker[i].step \in {"pend", "write"} => worker[i].loaded = Document(f)
        /\ worker[i].step = "erase" => Document(f) = NoDocument
        /\ worker[i].step \in {"apply", "ack"} => Shows(f)
        /\ worker[i].step = "ack" => AlreadyApplied(i) \/ ~ RowExists(f)

\* What the worker does is newer than what was applied; of the latest event, it has what
\* the catalog shows, also when that event has been settled before.  Nothing is said of the
\* fragments E, which a move of the alias has exposed.
WorkerHolds(E) ==
    \A i \in Indexers : worker[i].step # "idle" =>
        /\ worker[i].step \in {"load", "pend", "write", "erase", "apply"} => ~ AlreadyApplied(i)
        /\ FragmentOf(i) \notin raced \cup E =>
             \A e \in EventsOf(FragmentOf(i)) :
               Latest(e) /\ (e = EventOf(i) \/ (SettledEvent(e) /\ ~ GivenUp(FragmentOf(i)))) => Holds(i)

\* The latest event, once applied, is what the active collection shows, as is the absence
\* of any event.
AppliedHolds(E) ==
    \A f \in Fragments \ (raced \cup E) :
        /\ EventsOf(f) = {} => Shows(f)
        /\ \A e \in EventsOf(f) : Latest(e) /\ indexed[f].position = e.position => Shows(f)

\* So it is once it is settled and nothing of the fragment was given up; it was applied
\* unless the row has gone.
SettledHolds(E) ==
    \A f \in Fragments \ (raced \cup E) : \A e \in EventsOf(f) :
        Latest(e) /\ SettledEvent(e) /\ ~ GivenUp(f) =>
            /\ Shows(f)
            /\ indexed[f].position = e.position \/ ~ RowExists(f)

----------------------------------------------------------------------------
(* The operators of the model.                                             *)

LEMMA ToSetConcat ==
    ASSUME NEW S, NEW s \in Seq(S), NEW u \in Seq(S)
    PROVE  s \o u \in Seq(S) /\ ToSet(s \o u) = ToSet(s) \cup ToSet(u)
  <1>1. ToSet(s) = Range(s) /\ ToSet(u) = Range(u) /\ ToSet(s \o u) = Range(s \o u)
    BY DEF ToSet, Range
  <1> QED
    BY <1>1, RangeConcatenation, ConcatProperties

LEMMA ToSetAppend ==
    ASSUME NEW S, NEW s \in Seq(S), NEW e \in S
    PROVE  /\ Append(s, e) \in Seq(S) /\ ToSet(Append(s, e)) = ToSet(s) \cup {e}
           /\ Len(Append(s, e)) = Len(s) + 1
           /\ \A n \in 1..Len(s) : Append(s, e)[n] = s[n]
  <1>1. Append(s, e) = s \o <<e>> /\ <<e>> \in Seq(S)
    BY AppendIsConcat
  <1>2. ToSet(<<e>>) = {e}
    BY DEF ToSet
  <1>3. ToSet(s \o <<e>>) = ToSet(s) \cup ToSet(<<e>>)
    BY <1>1, ToSetConcat
  <1>4. ToSet(Append(s, e)) = ToSet(s) \cup {e}
    BY <1>1, <1>2, <1>3
  <1> QED
    BY <1>4, AppendProperties

\* SetToSeq lists each member of a finite set once.
LEMMA Listed ==
    ASSUME NEW S, IsFiniteSet(S)
    PROVE  /\ SetToSeq(S) \in Seq(S) /\ Len(SetToSeq(S)) = Cardinality(S)
           /\ \A m, n \in DOMAIN SetToSeq(S) : SetToSeq(S)[m] = SetToSeq(S)[n] => m = n
           /\ \A e \in S : \E n \in DOMAIN SetToSeq(S) : SetToSeq(S)[n] = e
  <1> DEFINE C == Cardinality(S)
             s == SetToSeq(S)
  <1>1. C \in Nat /\ \E b \in [1..C -> S] : IsInjective(b)
    BY FS_CardinalityType DEF ExistsBijection, Bijection, Injection
  <1>2. s \in [1..C -> S] /\ IsInjective(s)
    BY <1>1 DEF SetToSeq
  <1>3. s \in Injection(1..C, S) /\ IsFiniteSet(1..C) /\ Cardinality(1..C) = C
    BY <1>1, <1>2, FS_Interval DEF Injection
  <1>4. s \in Surjection(1..C, S)
    BY <1>3, FS_Injection
  <1> HIDE DEF C, s
  <1>5. s \in Seq(S) /\ Len(s) = C /\ DOMAIN s = 1..C
    BY <1>1, <1>2
  <1> USE DEF C, s
  <1> QED
    BY <1>2, <1>4, <1>5 DEF IsInjective, Surjection

----------------------------------------------------------------------------
(* The catalog.                                                            *)

LEMMA CatalogInitHolds == CatalogInit => CatalogInv
  <1> SUFFICES ASSUME CatalogInit PROVE CatalogInv
    OBVIOUS
  <1>1. Log = {} /\ \A f : EventsOf(f) = {}
    BY DEF CatalogInit, Log, EventsOf, ToSet
  <1>2. CatalogTypes
    BY DEF CatalogInit, CatalogTypes, Row
  <1>3. \A f \in Fragments : Document(f) = NoDocument
    BY DEF CatalogInit, Document
  <1>4. PositionsHold /\ TransactionsHold /\ OneTouches /\ LatestHolds
    BY <1>1, <1>3 DEF CatalogInit, PositionsHold, TransactionsHold, OneTouches, LatestHolds
  <1> QED
    BY <1>2, <1>4 DEF CatalogInv

\* A transaction that begins holds one event of each fragment it affects, at positions
\* nobody had before.
Started(t, kind, locks, affected, type) ==
    /\ t.kind = kind /\ t.locks = locks /\ open' = open \cup {t}
    /\ locks \cap Locked = {} /\ raced' = raced \cup RacedWith(kind, locks)
    /\ lastPosition' \in Nat /\ lastPosition' >= lastPosition
    /\ UNCHANGED <<row, source, log>>
    /\ \A e \in Events(t) : /\ e.position > lastPosition /\ e.position <= lastPosition'
                            /\ e.fragment \in affected
                            /\ e.type = IF source.deleting THEN "deleted" ELSE type
    /\ \A f \in affected : \E e \in Events(t) : e.fragment = f
    /\ \A d, e \in Events(t) : d.position = e.position \/ d.fragment = e.fragment => d = e

LEMMA BeginFacts ==
    ASSUME CatalogTypes, NEW kind \in Kinds, NEW locks \in SUBSET Fragments,
           NEW affected \in SUBSET Fragments, NEW type \in {"changed", "deleted"},
           Begin(kind, locks, affected, type)
    PROVE  \E t \in Transaction : Started(t, kind, locks, affected, type)
  <1> DEFINE order == SetToSeq(affected)
             kindOf == IF source.deleting THEN "deleted" ELSE type
             events == [n \in DOMAIN order |-> [position |-> lastPosition + n, fragment |-> order[n],
                                                type |-> kindOf]]
             t == [kind |-> kind, locks |-> locks, events |-> events]
  <1>1. IsFiniteSet(affected)
    BY FragmentsAssumption, FS_Subset
  <1>2. /\ order \in Seq(affected)
        /\ \A m, n \in DOMAIN order : order[m] = order[n] => m = n
        /\ \A f \in affected : \E n \in DOMAIN order : order[n] = f
    BY <1>1, Listed
  <1>3. lastPosition \in Nat /\ lastPosition + Len(order) <= MaxPosition /\ MaxPosition \in Nat
        /\ lastPosition' = lastPosition + Len(order)
    BY BoundsAssumption DEF Begin, CatalogTypes
  <1>4. DOMAIN order = 1..Len(order) /\ Len(order) \in Nat /\ \A n \in DOMAIN order : order[n] \in affected
    BY <1>2
  <1> HIDE DEF order
  <1>5. kindOf \in {"changed", "deleted"}
    OBVIOUS
  <1> HIDE DEF kindOf
  <1>6. \A n \in DOMAIN order : [position |-> lastPosition + n, fragment |-> order[n], type |-> kindOf] \in Event
    BY <1>3, <1>4, <1>5 DEF Event
  <1>7. events \in Seq(Event) /\ DOMAIN events = DOMAIN order
    BY <1>4, <1>6
  <1>8. t \in Transaction /\ t.kind = kind /\ t.locks = locks /\ t.events = events
    BY <1>7 DEF Transaction
  <1>9. \A e \in Events(t) : \E n \in DOMAIN order :
          e.position = lastPosition + n /\ e.fragment = order[n] /\ e.type = kindOf /\ e = events[n]
    BY <1>7, <1>8 DEF Events, ToSet
  <1>10. \A n \in DOMAIN order : events[n] \in Events(t) /\ events[n].fragment = order[n]
    BY <1>7, <1>8 DEF Events, ToSet
  <1>11. /\ open' = open \cup {t} /\ locks \cap Locked = {}
         /\ raced' = raced \cup RacedWith(kind, locks) /\ UNCHANGED <<row, source, log>>
    BY DEF Begin, order, kindOf
  <1> HIDE DEF events, t
  <1>12. \A e \in Events(t) : /\ e.position > lastPosition /\ e.position <= lastPosition'
                              /\ e.fragment \in affected /\ e.type = kindOf
    BY <1>3, <1>4, <1>9
  <1>13. \A f \in affected : \E e \in Events(t) : e.fragment = f
    BY <1>2, <1>10
  <1>14. \A d, e \in Events(t) : d.position = e.position \/ d.fragment = e.fragment => d = e
    <2> SUFFICES ASSUME NEW d \in Events(t), NEW e \in Events(t),
                        d.position = e.position \/ d.fragment = e.fragment
                 PROVE  d = e
      OBVIOUS
    <2>1. PICK m \in DOMAIN order : d.position = lastPosition + m /\ d.fragment = order[m] /\ d = events[m]
      BY <1>9
    <2>2. PICK n \in DOMAIN order : e.position = lastPosition + n /\ e.fragment = order[n] /\ e = events[n]
      BY <1>9
    <2>3. m = n
      BY <1>2, <1>3, <1>4, <2>1, <2>2
    <2> QED
      BY <2>1, <2>2, <2>3
  <1>15. lastPosition' \in Nat /\ lastPosition' >= lastPosition
    BY <1>3, <1>4
  <1> QED
    BY <1>8, <1>11, <1>12, <1>13, <1>14, <1>15 DEF kindOf, Started

LEMMA BeginKeeps ==
    ASSUME CatalogInv, NEW kind \in Kinds, NEW locks \in SUBSET Fragments,
           NEW affected \in SUBSET Fragments, NEW type \in {"changed", "deleted"},
           Begin(kind, locks, affected, type),
           type = "deleted" => kind \in {"delete", "discard"},
           IF kind \in SourceWide THEN locks = {} /\ affected = Visible /\ ~ SourceLocked
                                  ELSE affected = locks
    PROVE  CatalogInv'
  <1> USE DEF CatalogInv
  <1>0. CatalogTypes
    OBVIOUS
  <1>a. PICK t \in Transaction : Started(t, kind, locks, affected, type)
    BY <1>0, BeginFacts
  <1>1. /\ t \in Transaction /\ t.kind = kind /\ t.locks = locks /\ open' = open \cup {t}
        /\ locks \cap Locked = {} /\ raced' = raced \cup RacedWith(kind, locks)
        /\ lastPosition' \in Nat /\ lastPosition' >= lastPosition
        /\ UNCHANGED <<row, source, log>>
        /\ \A e \in Events(t) : /\ e.position > lastPosition /\ e.position <= lastPosition'
                                /\ e.fragment \in affected
                                /\ e.type = IF source.deleting THEN "deleted" ELSE type
        /\ \A f \in affected : \E e \in Events(t) : e.fragment = f
        /\ \A d, e \in Events(t) : d.position = e.position \/ d.fragment = e.fragment => d = e
    BY <1>a DEF Started
  <1>2. /\ lastPosition \in Nat
        /\ \A u \in Transaction : u.events \in Seq(Event) /\ u.locks \subseteq Fragments
        /\ open \subseteq Transaction /\ log \in Seq(Event)
    BY DEF CatalogTypes, Transaction
  <1>3. \A s \in Seq(Event) : \A e \in ToSet(s) : e \in Event
    BY DEF ToSet
  <1>4. /\ \A e \in Log : e.position \in Nat
        /\ \A u \in Transaction : \A e \in Events(u) : e.position \in Nat
    <2>1. \A e \in Event : e.position \in Nat
      BY BoundsAssumption DEF Event
    <2> QED
      BY <1>2, <1>3, <2>1 DEF Log, Events
  <1>5. /\ Log' = Log /\ \A f : EventsOf(f)' = EventsOf(f) /\ Document(f)' = Document(f)
        /\ \A e : Latest(e)' = Latest(e)
    BY <1>1 DEF Log, EventsOf, Document, Latest
  <1>6. CatalogTypes'
    <2>1. RacedWith(kind, locks) \subseteq Fragments
      BY <1>2 DEF RacedWith, Locked
    <2> QED
      BY <1>1, <2>1 DEF CatalogTypes
  <1>7. PositionsHold'
    <2>1. \A e \in Log : e.position <= lastPosition'
      BY <1>1, <1>2, <1>4 DEF PositionsHold
    <2>2. \A u \in open : \A e \in Events(u) : e.position <= lastPosition'
      BY <1>1, <1>2, <1>4 DEF PositionsHold
    <2>3. \A d \in Log, e \in Events(t) : d.position # e.position
      BY <1>1, <1>2, <1>4 DEF PositionsHold
    <2>4. \A u \in open : \A d \in Events(u), e \in Events(t) : d.position # e.position
      BY <1>1, <1>2, <1>4 DEF PositionsHold
    <2> QED
      BY <1>1, <1>5, <2>1, <2>2, <2>3, <2>4 DEF PositionsHold
  <1>8. TransactionsHold'
    BY <1>1 DEF TransactionsHold, Touches
  <1>9. OneTouches'
    <2> SUFFICES ASSUME NEW f \in Fragments \ raced', NEW u \in open', Touches(u, f)
                 PROVE  /\ \A v \in open' : Touches(v, f) => v = u
                        /\ Document(f) # NoDocument => \E e \in Events(u) : e.fragment = f
                        /\ \A e \in Events(u) : e.fragment = f => \A d \in EventsOf(f) : d.position < e.position
      BY <1>5 DEF OneTouches
    <2>1. f \notin raced /\ f \notin RacedWith(kind, locks)
      BY <1>1
    <2>2. Touches(t, f) => \A v \in open : ~ Touches(v, f)
      <3> SUFFICES ASSUME Touches(t, f), NEW v \in open, Touches(v, f) PROVE FALSE
        OBVIOUS
      <3>1. CASE kind \in SourceWide
        <4>1. v.kind \notin SourceWide
          BY <3>1 DEF SourceLocked
        <4>2. f \in Locked
          BY <4>1 DEF Touches, Locked
        <4> QED
          BY <2>1, <3>1, <4>2 DEF RacedWith
      <3>2. CASE kind \notin SourceWide
        <4>1. f \in locks
          BY <1>1, <3>2 DEF Touches
        <4>2. f \notin v.locks
          BY <1>1, <4>1 DEF Locked
        <4> QED
          BY <2>1, <3>2, <4>1, <4>2 DEF RacedWith, Touches
      <3> QED
        BY <3>1, <3>2
    <2>3. CASE u = t
      <3>1. \A v \in open' : Touches(v, f) => v = u
        BY <1>1, <2>2, <2>3
      <3>2. Document(f) # NoDocument => \E e \in Events(u) : e.fragment = f
        BY <1>1, <2>3 DEF Touches, Visible
      <3>3. \A e \in Events(u) : \A d \in EventsOf(f) : d.position < e.position
        BY <1>1, <1>2, <1>4, <2>3 DEF PositionsHold, EventsOf
      <3> QED
        BY <3>1, <3>2, <3>3
    <2>4. CASE u # t
      BY <1>1, <2>1, <2>2, <2>4 DEF OneTouches
    <2> QED
      BY <2>3, <2>4
  <1>10. LatestHolds'
    BY <1>1, <1>5 DEF LatestHolds
  <1> QED
    BY <1>6, <1>7, <1>8, <1>9, <1>10

LEMMA BeginStep ==
    ASSUME CatalogInv,
           \/ \E f \in Fragments : BeginCreate(f) \/ BeginEdit(f) \/ BeginDelete(f) \/ BeginRestore(f)
           \/ BeginRetitle \/ BeginDiscard
    PROVE  CatalogInv'
  <1>1. ASSUME NEW f \in Fragments, BeginCreate(f) \/ BeginEdit(f) \/ BeginDelete(f) \/ BeginRestore(f)
        PROVE  CatalogInv'
    BY <1>1, BeginKeeps DEF BeginCreate, BeginEdit, BeginDelete, BeginRestore, Kinds, SourceWide
  <1>2. CASE BeginRetitle \/ BeginDiscard
    <2>1. Visible \subseteq Fragments
      BY DEF Visible
    <2> QED
      BY <1>2, <2>1, BeginKeeps DEF BeginRetitle, BeginDiscard, Kinds, SourceWide
  <1> QED
    BY <1>1, <1>2

\* A commit shows its events, and changes what the catalog shows of a fragment that was
\* not raced only with an event that becomes its latest.
Told(t, f) ==
    \/ /\ \A e \in Events(t) : e.fragment # f
       /\ EventsOf(f)' = EventsOf(f) /\ Document(f)' = Document(f) /\ row'[f] = row[f]
    \/ \E e \in Events(t) :
         /\ e.fragment = f /\ EventsOf(f)' = EventsOf(f) \cup {e}
         /\ \A d \in EventsOf(f) : d.position < e.position
         /\ e.type = "deleted" => Document(f)' = NoDocument

LEMMA CommitFacts ==
    ASSUME CatalogInv, NEW t \in open, Commit(t)
    PROVE  /\ Log' = Log \cup Events(t) /\ CatalogTypes'
           /\ \A f \in Fragments : ~ Touches(t, f) => Document(f)' = Document(f) /\ EventsOf(f)' = EventsOf(f)
           /\ source.deleting => source'.deleting
           /\ \A f \in Fragments \ raced : Told(t, f)
           /\ \A f \in Fragments : row[f].state # "absent" => row'[f].state # "absent"
  <1> USE DEF CatalogInv
  <1>1. /\ open' = open \ {t} /\ row' = Effect(t) /\ source' = SourceEffect(t)
        /\ log' = log \o t.events /\ lastPosition' = lastPosition /\ raced' = raced
    BY DEF Commit
  <1>2. /\ t.kind \in Kinds /\ t.locks \subseteq Fragments /\ t.events \in Seq(Event)
        /\ row \in [Fragments -> Row] /\ source \in [title : Nat, deleting : BOOLEAN]
        /\ log \in Seq(Event) /\ raced \subseteq Fragments
    BY DEF CatalogTypes, Transaction
  <1>3. Log' = Log \cup Events(t) /\ log' \in Seq(Event)
    BY <1>1, <1>2, ToSetConcat DEF Log, Events
  <1>4. \A f : EventsOf(f)' = EventsOf(f) \cup {e \in Events(t) : e.fragment = f}
    BY <1>3 DEF EventsOf
  <1>5. /\ t.kind \in SourceWide => t.locks = {}
        /\ \A e \in Events(t) : /\ Touches(t, e.fragment)
                                /\ e.type = "deleted" => t.kind \in {"delete", "discard"} \/ source.deleting
                                /\ \A d \in Events(t) : d.fragment = e.fragment => d = e
        /\ \A f \in t.locks : \E e \in Events(t) : e.fragment = f
    BY DEF TransactionsHold
  <1>6. ASSUME NEW f \in Fragments
        PROVE  /\ row'[f] \in Row
               /\ f \notin t.locks => row'[f] = row[f]
               /\ t.kind = "delete" /\ f \in t.locks => row'[f].state = "deleted"
               /\ row[f].state # "absent" => row'[f].state # "absent"
    <2>1. row[f] \in Row /\ row[f].revision + 1 \in Nat
      BY <1>2 DEF Row
    <2>2. CASE f \notin t.locks
      BY <1>1, <2>1, <2>2 DEF Effect
    <2>3. CASE f \in t.locks
      <3>1. t.kind \in {"create", "edit", "restore"} \/ t.kind = "delete"
        BY <1>2, <1>5, <2>3 DEF Kinds, SourceWide
      <3>2. CASE t.kind \in {"create", "edit", "restore"}
        <4>1. row'[f] = [state |-> "live", revision |-> row[f].revision + 1]
          BY <1>1, <2>3, <3>2 DEF Effect
        <4> QED
          BY <2>1, <2>3, <3>2, <4>1 DEF Row
      <3>3. CASE t.kind = "delete"
        <4>1. row'[f] = [row[f] EXCEPT !.state = "deleted"]
          BY <1>1, <2>3, <3>3 DEF Effect
        <4> QED
          BY <2>1, <2>3, <3>3, <4>1 DEF Row
      <3> QED
        BY <3>1, <3>2, <3>3
    <2> QED
      BY <2>2, <2>3
  <1>7. row' \in [Fragments -> Row]
    BY <1>1, <1>6 DEF Effect
  <1>8. /\ source' \in [title : Nat, deleting : BOOLEAN]
        /\ t.kind \notin SourceWide => source' = source
        /\ source'.deleting = (source.deleting \/ t.kind = "discard")
    <2>1. CASE t.kind = "retitle"
      <3>1. source' = [source EXCEPT !.title = source.title + 1]
        BY <1>1, <2>1 DEF SourceEffect
      <3> QED
        BY <1>2, <2>1, <3>1 DEF SourceWide
    <2>2. CASE t.kind = "discard"
      BY <1>1, <1>2, <2>2 DEF SourceEffect, SourceWide
    <2>3. CASE t.kind \notin {"retitle", "discard"}
      BY <1>1, <1>2, <2>3 DEF SourceEffect
    <2> QED
      BY <2>1, <2>2, <2>3
  <1>9. CatalogTypes'
    BY <1>1, <1>3, <1>7, <1>8 DEF CatalogTypes
  <1>10. ASSUME NEW f \in Fragments, ~ Touches(t, f)
         PROVE  Document(f)' = Document(f) /\ EventsOf(f)' = EventsOf(f)
    <2>1. f \notin t.locks /\ t.kind \notin SourceWide
      BY <1>10 DEF Touches
    <2>2. \A e \in Events(t) : e.fragment # f
      BY <1>5, <1>10
    <2> QED
      BY <1>4, <1>6, <1>8, <2>1, <2>2 DEF Document
  <1>11. \A f \in Fragments : source'.deleting \/ row'[f].state # "live" => Document(f)' = NoDocument
    BY DEF Document
  <1>12. ASSUME NEW f \in Fragments \ raced PROVE Told(t, f)
    <2>1. CASE \A e \in Events(t) : e.fragment # f
      <3>1. EventsOf(f)' = EventsOf(f)
        BY <1>4, <2>1
      <3>2. f \notin t.locks
        BY <1>5, <2>1
      <3>3. CASE Touches(t, f)
        <4>1. Document(f) = NoDocument
          BY <2>1, <3>3 DEF OneTouches
        <4>2. <<row[f].revision, source.title>> # NoDocument
          BY DEF NoDocument
        <4>3. source.deleting \/ row[f].state # "live"
          BY <1>2, <4>1, <4>2 DEF Document
        <4>4. source'.deleting \/ row'[f].state # "live"
          BY <1>6, <1>8, <3>2, <4>3
        <4> QED
          BY <1>6, <1>11, <2>1, <3>1, <3>2, <4>1, <4>4 DEF Told
      <3> QED
        BY <1>6, <1>10, <2>1, <3>1, <3>2, <3>3 DEF Told
    <2>2. CASE \E e \in Events(t) : e.fragment = f
      <3>1. PICK e \in Events(t) : e.fragment = f
        BY <2>2
      <3>2. \A d \in Events(t) : d.fragment = f => d = e
        BY <1>5, <3>1
      <3>3. EventsOf(f)' = EventsOf(f) \cup {e}
        BY <1>4, <3>1, <3>2
      <3>4. Touches(t, f) /\ (e.type = "deleted" => t.kind \in {"delete", "discard"} \/ source.deleting)
        BY <1>5, <3>1
      <3>5. \A d \in EventsOf(f) : d.position < e.position
        BY <3>1, <3>4 DEF OneTouches
      <3>6. e.type = "deleted" => source'.deleting \/ row'[f].state # "live"
        BY <1>6, <1>8, <3>4 DEF Touches, SourceWide
      <3> QED
        BY <1>11, <3>1, <3>3, <3>5, <3>6 DEF Told
    <2> QED
      BY <2>1, <2>2
  <1> QED
    BY <1>3, <1>6, <1>8, <1>9, <1>10, <1>12

LEMMA CommitStep ==
    ASSUME CatalogInv, NEW t \in open, Commit(t)
    PROVE  CatalogInv'
  <1> USE DEF CatalogInv
  <1>1. open' = open \ {t} /\ lastPosition' = lastPosition /\ raced' = raced
    BY DEF Commit
  <1>2. /\ Log' = Log \cup Events(t) /\ CatalogTypes'
        /\ \A f \in Fragments : ~ Touches(t, f) => Document(f)' = Document(f) /\ EventsOf(f)' = EventsOf(f)
        /\ source.deleting => source'.deleting
        /\ \A f \in Fragments \ raced : Told(t, f)
    BY CommitFacts
  <1>3. PositionsHold'
    BY <1>1, <1>2 DEF PositionsHold
  <1>4. TransactionsHold'
    BY <1>1, <1>2 DEF TransactionsHold, Touches
  <1>5. OneTouches'
    <2> SUFFICES ASSUME NEW f \in Fragments \ raced, NEW u \in open', Touches(u, f)
                 PROVE  /\ \A v \in open' : Touches(v, f) => v = u
                        /\ Document(f)' # NoDocument => \E e \in Events(u) : e.fragment = f
                        /\ \A e \in Events(u) : e.fragment = f => \A d \in EventsOf(f)' : d.position < e.position
      BY <1>1 DEF OneTouches, Touches, Events
    <2>1. u \in open /\ u # t
      BY <1>1
    <2>2. ~ Touches(t, f)
      BY <2>1 DEF OneTouches
    <2>3. Document(f)' = Document(f) /\ EventsOf(f)' = EventsOf(f)
      BY <1>2, <2>2
    <2> QED
      BY <1>1, <2>1, <2>3 DEF OneTouches
  <1>6. LatestHolds'
    <2> SUFFICES ASSUME NEW f \in Fragments \ raced
                 PROVE  /\ Document(f)' # NoDocument => EventsOf(f)' # {}
                        /\ EventsOf(f)' # {} => \E e \in EventsOf(f)' : Latest(e)'
                        /\ \A e \in EventsOf(f)' : Latest(e)' /\ e.type = "deleted" => Document(f)' = NoDocument
      BY <1>1 DEF LatestHolds
    <2>1. \A e \in EventsOf(f)' : e.fragment = f /\ (Latest(e)' <=> \A d \in EventsOf(f)' : d.position <= e.position)
      BY DEF Latest, EventsOf
    <2>2. \A e \in EventsOf(f) : e.fragment = f /\ (Latest(e) <=> \A d \in EventsOf(f) : d.position <= e.position)
      BY DEF Latest, EventsOf
    <2>3. \A e \in EventsOf(f)' : e.position \in Nat
      <3>1. \A e \in Event : e.position \in Nat
        BY BoundsAssumption DEF Event
      <3> QED
        BY <1>2, <3>1 DEF CatalogTypes, EventsOf, Log, ToSet
    <2>4. CASE EventsOf(f)' = EventsOf(f) /\ Document(f)' = Document(f)
      BY <2>1, <2>2, <2>4 DEF LatestHolds
    <2>5. ASSUME NEW e \in Events(t), e.fragment = f, EventsOf(f)' = EventsOf(f) \cup {e},
                 \A d \in EventsOf(f) : d.position < e.position,
                 e.type = "deleted" => Document(f)' = NoDocument
          PROVE  /\ \E d \in EventsOf(f)' : Latest(d)'
                 /\ \A d \in EventsOf(f)' : Latest(d)' => d = e
      BY <2>1, <2>3, <2>5
    <2> QED
      BY <1>2, <2>4, <2>5 DEF Told
  <1> QED
    BY <1>2, <1>3, <1>4, <1>5, <1>6

LEMMA AbortStep ==
    ASSUME CatalogInv, NEW t \in open, Abort(t)
    PROVE  CatalogInv'
  <1> USE DEF CatalogInv
  <1>1. open' = open \ {t} /\ UNCHANGED <<row, source, lastPosition, log, raced>>
    BY DEF Abort
  <1>2. /\ Log' = Log /\ \A f : EventsOf(f)' = EventsOf(f) /\ Document(f)' = Document(f)
        /\ \A e : Latest(e)' = Latest(e)
    BY <1>1 DEF Log, EventsOf, Document, Latest
  <1>3. CatalogTypes'
    BY <1>1 DEF CatalogTypes
  <1>4. PositionsHold' /\ TransactionsHold'
    BY <1>1, <1>2 DEF PositionsHold, TransactionsHold, Touches
  <1>5. OneTouches'
    BY <1>1, <1>2 DEF OneTouches, Touches, Events
  <1>6. LatestHolds'
    BY <1>1, <1>2 DEF LatestHolds
  <1> QED
    BY <1>3, <1>4, <1>5, <1>6

\* A purge takes away rows of fragments that the catalog shows no more.
LEMMA PurgeFacts ==
    ASSUME CatalogTypes, Purge
    PROVE  /\ CatalogTypes' /\ UNCHANGED <<source, lastPosition, open, log, raced>>
           /\ \A f \in Fragments : /\ Document(f)' = Document(f)
                                   /\ row[f].state = "absent" => row'[f].state = "absent"
                                   /\ row'[f].state = "absent" => Document(f)' = NoDocument
  <1>1. row \in [Fragments -> Row] /\ \A f \in Fragments : row[f] \in Row
    BY DEF CatalogTypes
  <1>2. \A r \in Row : [r EXCEPT !.state = "absent"] \in Row /\ [r EXCEPT !.state = "absent"].state = "absent"
    BY DEF Row
  <1>3. \A f \in Fragments : row'[f].state = "absent" => Document(f)' = NoDocument
    BY DEF Document
  <1>4. CASE PurgeVideo
    <2>1. /\ source.deleting /\ row' = [f \in Fragments |-> [row[f] EXCEPT !.state = "absent"]]
          /\ UNCHANGED <<source, lastPosition, open, log, raced>>
      BY <1>4 DEF PurgeVideo
    <2>2. row' \in [Fragments -> Row] /\ \A f \in Fragments : row'[f].state = "absent"
      BY <1>1, <1>2, <2>1
    <2>3. \A f \in Fragments : Document(f) = NoDocument /\ Document(f)' = NoDocument
      BY <2>1 DEF Document
    <2> QED
      BY <2>1, <2>2, <2>3 DEF CatalogTypes
  <1>5. CASE \E g \in Fragments : PurgeFragment(g)
    <2>1. PICK g \in Fragments : PurgeFragment(g)
      BY <1>5
    <2>2. /\ row[g].state = "deleted" /\ row' = [row EXCEPT ![g].state = "absent"]
          /\ UNCHANGED <<source, lastPosition, open, log, raced>>
      BY <2>1 DEF PurgeFragment
    <2>3. row' = [row EXCEPT ![g] = [row[g] EXCEPT !.state = "absent"]]
      BY <1>1, <2>2
    <2>4. /\ row' \in [Fragments -> Row] /\ row'[g].state = "absent"
          /\ \A f \in Fragments : f # g => row'[f] = row[f]
      BY <1>1, <1>2, <2>3
    <2>5. \A f \in Fragments : Document(f)' = Document(f)
      BY <2>2, <2>4 DEF Document
    <2> QED
      BY <1>3, <2>2, <2>4, <2>5 DEF CatalogTypes
  <1> QED
    BY <1>4, <1>5 DEF Purge

LEMMA SameCatalog ==
    ASSUME CatalogInv, CatalogTypes', UNCHANGED <<source, lastPosition, open, log, raced>>,
           \A f \in Fragments : Document(f)' = Document(f)
    PROVE  CatalogInv'
  <1>1. Log' = Log /\ (\A f : EventsOf(f)' = EventsOf(f)) /\ \A e : Latest(e)' = Latest(e)
    BY DEF Log, EventsOf, Latest
  <1>2. PositionsHold' /\ TransactionsHold'
    BY <1>1 DEF CatalogInv, PositionsHold, TransactionsHold, Touches
  <1>3. OneTouches'
    BY <1>1 DEF CatalogInv, OneTouches, Touches, Events
  <1>4. LatestHolds'
    BY <1>1 DEF CatalogInv, LatestHolds
  <1> QED
    BY <1>2, <1>3, <1>4 DEF CatalogInv

LEMMA CatalogStep ==
    ASSUME CatalogInv, Write \/ Purge \/ UNCHANGED catalogVars
    PROVE  CatalogInv'
  <1>1. CASE Write
    BY <1>1, BeginStep, CommitStep, AbortStep DEF Write
  <1>2. CASE Purge
    <2>1. CatalogTypes
      BY DEF CatalogInv
    <2> QED
      BY <1>2, <2>1, PurgeFacts, SameCatalog
  <1>3. CASE UNCHANGED catalogVars
    <2>1. UNCHANGED <<source, lastPosition, open, log, raced>> /\ CatalogTypes'
          /\ \A f \in Fragments : Document(f)' = Document(f)
      BY <1>3 DEF catalogVars, CatalogInv, CatalogTypes, Document
    <2> QED
      BY <2>1, SameCatalog
  <1> QED
    BY <1>1, <1>2, <1>3

----------------------------------------------------------------------------
(* The pipeline, with any number of indexers.                              *)

\* Every committed position is the position of one event.
LEMMA EventAtIs ==
    ASSUME CatalogInv
    PROVE  /\ CommittedPositions = {e.position : e \in Log}
           /\ \A e \in Log : EventAt(e.position) = e /\ e \in Event
           /\ \A p \in CommittedPositions : EventAt(p) \in Log /\ EventAt(p).position = p
  <1>1. log \in Seq(Event) /\ \A d, e \in Log : d.position = e.position => d = e
    BY DEF CatalogInv, CatalogTypes, PositionsHold
  <1>2. Log = {log[n] : n \in DOMAIN log}
    BY DEF Log, ToSet
  <1>3. CommittedPositions = {e.position : e \in Log}
    BY <1>2 DEF CommittedPositions
  <1>4. ASSUME NEW p \in CommittedPositions
        PROVE  EventAt(p) \in Log /\ EventAt(p).position = p
    <2>1. \E n \in DOMAIN log : log[n].position = p
      BY <1>4 DEF CommittedPositions
    <2> QED
      BY <1>2, <2>1 DEF EventAt
  <1>5. \A e \in Log : EventAt(e.position) = e
    BY <1>1, <1>3, <1>4
  <1>6. \A e \in Log : e \in Event
    BY <1>1, <1>2
  <1> QED
    BY <1>3, <1>4, <1>5, <1>6

\* The message an indexer holds is of a committed event.
LEMMA AtWork ==
    ASSUME PipelineInv, NEW i \in Indexers, worker[i].step # "idle"
    PROVE  /\ worker[i].seq \in 1..Len(stream) /\ stream[worker[i].seq] \in CommittedPositions
           /\ EventOf(i) \in Log /\ PositionOf(i) = stream[worker[i].seq] /\ PositionOf(i) \in Nat \ {0}
           /\ FragmentOf(i) \in Fragments /\ EventOf(i) \in EventsOf(FragmentOf(i))
  <1>1. CatalogInv /\ stream \in Seq(Nat) /\ ToSet(stream) \subseteq CommittedPositions
    BY DEF PipelineInv, IndexTypes
  <1>2. worker[i].seq \in 1..Len(stream)
    BY DEF PipelineInv, IndexHolds
  <1>3. stream[worker[i].seq] \in CommittedPositions
    BY <1>1, <1>2 DEF ToSet
  <1>4. EventOf(i) \in Log /\ PositionOf(i) = stream[worker[i].seq] /\ EventOf(i) \in Event
    BY <1>1, <1>3, EventAtIs DEF EventOf, PositionOf
  <1>5. PositionOf(i) \in 1..MaxPosition /\ FragmentOf(i) \in Fragments
    BY <1>4 DEF Event, PositionOf, FragmentOf
  <1>6. EventOf(i) \in EventsOf(FragmentOf(i))
    BY <1>4 DEF EventsOf, FragmentOf
  <1>7. PositionOf(i) \in Nat \ {0}
    BY <1>5, BoundsAssumption
  <1> QED
    BY <1>2, <1>3, <1>4, <1>5, <1>6, <1>7

LEMMA ReofferFacts ==
    ASSUME consumer \in Consumer, stream \in Seq(Nat), Queued, NEW n, Reoffer(n), stream' = stream
    PROVE  /\ consumer' \in Consumer /\ Queued'
           /\ \/ consumer'.next = consumer.next /\ dropped' = dropped
              \/ /\ n = consumer.next /\ consumer'.next = consumer.next + 1
                 /\ n \in 1..Len(stream) /\ dropped' = dropped \cup {stream[n]}
  <1>1. [consumer EXCEPT !.state = "again"] \in Consumer /\ [consumer EXCEPT !.state = "again"].next = consumer.next
    BY DEF Consumer
  <1>2. Settled \in Consumer /\ Settled.next = consumer.next + 1 /\ Settled.state = "none"
    BY DEF Consumer, Settled
  <1>3. CASE consumer' = consumer /\ dropped' = dropped
    BY <1>3 DEF Queued
  <1>4. CASE /\ n = consumer.next /\ consumer.state = "out"
             /\ consumer' = [consumer EXCEPT !.state = "again"] /\ dropped' = dropped
    BY <1>1, <1>4 DEF Queued
  <1>5. CASE /\ n = consumer.next /\ consumer.state = "out"
             /\ consumer' = Settled /\ dropped' = dropped \cup {stream[n]}
    <2>1. consumer.next \in 1..Len(stream) /\ Len(stream) \in Nat
      BY <1>5 DEF Queued
    <2>2. Queued'
      BY <1>2, <1>5, <2>1 DEF Queued
    <2> QED
      BY <1>2, <1>5, <2>1, <2>2
  <1> QED
    BY <1>3, <1>4, <1>5 DEF Reoffer

LEMMA SettleFacts ==
    ASSUME consumer \in Consumer, stream \in Seq(Nat), Queued, NEW n \in 1..Len(stream),
           Settle(n), stream' = stream
    PROVE  /\ consumer' \in Consumer /\ Queued'
           /\ \/ n # consumer.next /\ consumer'.next = consumer.next
              \/ n = consumer.next /\ consumer'.next = consumer.next + 1
  <1>1. Settled \in Consumer /\ Settled.next = consumer.next + 1 /\ Settled.state = "none"
    BY DEF Consumer, Settled
  <1>2. CASE n = consumer.next
    <2>1. consumer' = Settled
      BY <1>2 DEF Settle
    <2> QED
      BY <1>1, <1>2, <2>1 DEF Queued
  <1>3. CASE n # consumer.next
    BY <1>3 DEF Settle, Queued
  <1> QED
    BY <1>2, <1>3

\* An indexer goes on with the message it holds, takes the next one, or lets go of its own.
Moves(i, w) ==
    /\ w \in Work /\ worker' = [worker EXCEPT ![i] = w]
    /\ w.step # "idle" => w.seq \in 1..Len(stream)
    /\ w.step # "idle" /\ worker[i].step # "idle" => w.seq = worker[i].seq
    /\ w.target \in {Initial, alias, worker[i].target}
    /\ Elsewhere(w) => Elsewhere(worker[i])

\* The state of a fragment changes without its position, or takes a later one of its events.
Records(f, v) ==
    /\ f \in Fragments /\ v \in Applied /\ indexed' = [indexed EXCEPT ![f] = v]
    /\ \/ v.position = indexed[f].position /\ v.status # "ready"
       \/ v.position > indexed[f].position /\ \E e \in EventsOf(f) : e.position = v.position

Puts(c, f, d) ==
    /\ c \in Collections /\ f \in Fragments /\ d \in Contents
    /\ points' = [points EXCEPT ![c][f] = d]

\* A step of the pipeline that leaves catalog and stream alone.
LEMMA PipelineKeeps ==
    ASSUME PipelineInv, UNCHANGED <<catalogVars, stream, alias>>, consumer' \in Consumer, Queued',
           worker' = worker \/ \E i \in Indexers : \E w \in Work : Moves(i, w),
           indexed' = indexed \/ \E f \in Fragments : \E v \in Applied : Records(f, v),
           points' = points \/ \E c \in Collections : \E f \in Fragments : \E d \in Contents : Puts(c, f, d),
           termed' \cup dropped' \subseteq CommittedPositions
    PROVE  PipelineInv'
  <1>1. /\ CatalogInv /\ worker \in [Indexers -> Work] /\ indexed \in [Fragments -> Applied]
        /\ points \in [Collections -> [Fragments -> Contents]]
        /\ stream \in Seq(Nat) /\ ToSet(stream) \subseteq CommittedPositions /\ alias \in Collections
    BY DEF PipelineInv, IndexTypes
  <1>2. /\ \A i \in Indexers : worker[i].step # "idle" => worker[i].seq \in 1..Len(stream)
        /\ \A f \in Fragments :
             /\ indexed[f].position # 0 => \E e \in EventsOf(f) : e.position = indexed[f].position
             /\ indexed[f].status = "ready" => indexed[f].position # 0
    BY DEF PipelineInv, IndexHolds
  <1>3. CatalogInv'
    BY <1>1, CatalogStep
  <1>4. CommittedPositions' = CommittedPositions /\ \A f : EventsOf(f)' = EventsOf(f)
    BY DEF catalogVars, CommittedPositions, EventsOf, Log
  <1>5. /\ worker' \in [Indexers -> Work]
        /\ \A i \in Indexers : worker'[i].step # "idle" => worker'[i].seq \in 1..Len(stream)
    <2>1. CASE worker' = worker
      BY <1>1, <1>2, <2>1
    <2>2. CASE \E i \in Indexers : \E w \in Work : Moves(i, w)
      <3>1. PICK i \in Indexers, w \in Work : Moves(i, w)
        BY <2>2
      <3>2. worker' = [worker EXCEPT ![i] = w] /\ (w.step # "idle" => w.seq \in 1..Len(stream))
        BY <3>1 DEF Moves
      <3> QED
        BY <1>1, <1>2, <3>2
    <2> QED
      BY <2>1, <2>2
  <1>6. /\ indexed' \in [Fragments -> Applied]
        /\ \A f \in Fragments :
             /\ indexed'[f].position # 0 => \E e \in EventsOf(f) : e.position = indexed'[f].position
             /\ indexed'[f].status = "ready" => indexed'[f].position # 0
    <2>1. CASE indexed' = indexed
      BY <1>1, <1>2, <2>1
    <2>2. CASE \E f \in Fragments : \E v \in Applied : Records(f, v)
      <3>1. PICK g \in Fragments, v \in Applied : Records(g, v)
        BY <2>2
      <3>2. /\ indexed' = [indexed EXCEPT ![g] = v]
            /\ \/ v.position = indexed[g].position /\ v.status # "ready"
               \/ v.position > indexed[g].position /\ \E e \in EventsOf(g) : e.position = v.position
        BY <3>1 DEF Records
      <3>3. indexed' \in [Fragments -> Applied] /\ indexed'[g] = v /\ \A f \in Fragments : f # g => indexed'[f] = indexed[f]
        BY <1>1, <3>2
      <3>4. indexed[g].position \in Nat /\ v.position \in Nat
        BY <1>1 DEF Applied
      <3> QED
        BY <1>2, <3>2, <3>3, <3>4
    <2> QED
      BY <2>1, <2>2
  <1>7. points' \in [Collections -> [Fragments -> Contents]]
    <2>1. CASE points' = points
      BY <1>1, <2>1
    <2>2. CASE \E c \in Collections : \E f \in Fragments : \E d \in Contents : Puts(c, f, d)
      <3>1. PICK c \in Collections, f \in Fragments, d \in Contents : points' = [points EXCEPT ![c][f] = d]
        BY <2>2 DEF Puts
      <3> QED
        BY <1>1, <3>1
    <2> QED
      BY <2>1, <2>2
  <1>8. IndexTypes'
    BY <1>1, <1>4, <1>5, <1>6, <1>7 DEF IndexTypes
  <1>9. IndexHolds'
    BY <1>4, <1>5, <1>6, <1>7 DEF IndexHolds
  <1> QED
    BY <1>3, <1>8, <1>9 DEF PipelineInv

----------------------------------------------------------------------------
(* What each call of an indexer does.                                      *)

Only(i, w) == Moves(i, w) /\ UNCHANGED ExceptWorker

LEMMA ReceiveFacts ==
    ASSUME PipelineInv, NEW i \in Indexers, Receive(i)
    PROVE  /\ \E w \in Work : Moves(i, w) /\ w.step = "resolve"
           /\ consumer' \in Consumer /\ Queued' /\ consumer'.next = consumer.next
           /\ UNCHANGED <<catalogVars, stream, alias, indexed, points, termed, dropped>>
  <1>1. /\ consumer \in Consumer /\ stream \in Seq(Nat) /\ worker \in [Indexers -> Work]
        /\ Queued
    BY DEF PipelineInv, IndexTypes, IndexHolds
  <1>2. consumer.next \in Nat \ {0} /\ consumer.deliveries \in Nat /\ Len(stream) \in Nat
    BY <1>1 DEF Consumer
  <1>3. consumer.next \in 1..Len(stream)
    BY <1>1, <1>2 DEF Receive, Queued
  <1> DEFINE d == consumer.deliveries + 1
             c == [consumer EXCEPT !.deliveries = d, !.state = "out"]
             w == [Idle EXCEPT !.step = "resolve", !.seq = consumer.next, !.delivery = d]
  <1>4. d \in Nat
    BY <1>2
  <1>5. consumer' = c /\ worker' = [worker EXCEPT ![i] = w] /\ worker[i].step = "idle"
    BY DEF Receive
  <1> HIDE DEF d
  <1>6. c \in Consumer /\ c.next = consumer.next /\ c.state = "out"
    BY <1>1, <1>4 DEF Consumer
  <1>7. Idle \in Work /\ Idle.target = Initial
    BY InitialAssumption DEF Idle, Work, Steps, Contents
  <1>8. w \in Work /\ w.step = "resolve" /\ w.seq = consumer.next /\ w.target = Initial
    BY <1>2, <1>4, <1>7 DEF Work, Steps
  <1> HIDE DEF c, w
  <1>9. Moves(i, w)
    BY <1>3, <1>5, <1>8 DEF Moves, Elsewhere
  <1>10. Queued'
    BY <1>1, <1>3, <1>5, <1>6 DEF Queued, Receive
  <1> QED
    BY <1>5, <1>6, <1>8, <1>9, <1>10 DEF Receive

\* An indexer at work that changes its step only.
LEMMA StepTo ==
    ASSUME PipelineInv, NEW i \in Indexers, NEW s \in Steps, worker[i].step # "idle",
           s = "failed" \/ worker[i].step \in Steps \ {"idle", "resolve", "failed"},
           worker' = [worker EXCEPT ![i].step = s]
    PROVE  \E w \in Work : Moves(i, w) /\ w.step = s /\ w.loaded = worker[i].loaded
  <1>1. worker \in [Indexers -> Work] /\ worker[i] \in Work
    BY DEF PipelineInv, IndexTypes
  <1>2. worker[i].seq \in 1..Len(stream)
    BY AtWork
  <1> DEFINE w == [worker[i] EXCEPT !.step = s]
  <1>3. worker' = [worker EXCEPT ![i] = w]
    BY <1>1
  <1>4. w \in Work /\ w.step = s /\ w.seq = worker[i].seq /\ w.target = worker[i].target /\ w.loaded = worker[i].loaded
    BY <1>1 DEF Work
  <1> QED
    BY <1>2, <1>3, <1>4 DEF Moves, Elsewhere

LEMMA StepToIdle ==
    ASSUME PipelineInv, NEW i \in Indexers, worker' = [worker EXCEPT ![i] = Idle]
    PROVE  \E w \in Work : Moves(i, w) /\ w.step = "idle"
  <1>1. Idle \in Work /\ Idle.step = "idle" /\ Idle.target = Initial
    BY InitialAssumption DEF Idle, Work, Steps, Contents
  <1> QED
    BY <1>1 DEF Moves, Elsewhere

LEMMA ResolveFacts ==
    ASSUME PipelineInv, NEW i \in Indexers, Resolve(i)
    PROVE  \E w \in Work : Only(i, w) /\ w.step = "check" /\ w.target = alias
  <1>1. worker \in [Indexers -> Work] /\ worker[i] \in Work /\ alias \in Collections
    BY DEF PipelineInv, IndexTypes
  <1>2. worker[i].step = "resolve" /\ UNCHANGED ExceptWorker
        /\ worker' = [worker EXCEPT ![i].step = "check", ![i].target = alias]
    BY DEF Resolve
  <1>3. worker[i].seq \in 1..Len(stream)
    BY <1>2, AtWork
  <1> DEFINE w == [worker[i] EXCEPT !.step = "check", !.target = alias]
  <1>4. worker' = [worker EXCEPT ![i] = w]
    BY <1>1, <1>2
  <1>5. w \in Work /\ w.step = "check" /\ w.seq = worker[i].seq /\ w.target = alias
    BY <1>1 DEF Work, Steps
  <1> HIDE DEF w
  <1> QED
    BY <1>2, <1>3, <1>4, <1>5 DEF Moves, Only, Elsewhere

LEMMA CheckFacts ==
    ASSUME PipelineInv, NEW i \in Indexers, Check(i)
    PROVE  worker[i].step = "check" /\ \E w \in Work :
             /\ Only(i, w)
             /\ w.step = IF AlreadyApplied(i) THEN "ack"
                         ELSE IF EventOf(i).type = "deleted" THEN "erase" ELSE "load"
  <1> DEFINE s == IF AlreadyApplied(i) THEN "ack"
                  ELSE IF EventOf(i).type = "deleted" THEN "erase" ELSE "load"
  <1>1. worker[i].step = "check" /\ worker' = [worker EXCEPT ![i].step = s] /\ UNCHANGED ExceptWorker
    BY DEF Check, Goto
  <1>2. s \in Steps /\ "check" \in Steps \ {"idle", "resolve", "failed"}
    BY DEF Steps
  <1> HIDE DEF s
  <1>3. \E w \in Work : Moves(i, w) /\ w.step = s
    BY <1>1, <1>2, StepTo
  <1> QED
    BY <1>1, <1>3 DEF s, Only

LEMMA DocumentContents == ASSUME CatalogTypes, NEW f \in Fragments PROVE Document(f) \in Contents
  <1>1. row[f] \in Row /\ source \in [title : Nat, deleting : BOOLEAN]
    BY DEF CatalogTypes
  <1>2. row[f].revision \in Nat /\ source.title \in Nat
    BY <1>1 DEF Row
  <1> QED
    BY <1>2 DEF Document, Contents

LEMMA LoadFacts ==
    ASSUME PipelineInv, NEW i \in Indexers, Load(i)
    PROVE  worker[i].step = "load" /\ \E w \in Work :
             /\ Only(i, w) /\ w.loaded = Document(FragmentOf(i))
             /\ w.step = IF Document(FragmentOf(i)) = NoDocument THEN "erase" ELSE "pend"
  <1> DEFINE d == Document(FragmentOf(i))
             s == IF d = NoDocument THEN "erase" ELSE "pend"
             w == [worker[i] EXCEPT !.step = s, !.loaded = d]
  <1>1. worker \in [Indexers -> Work] /\ worker[i] \in Work /\ CatalogTypes
    BY DEF PipelineInv, IndexTypes, CatalogInv
  <1>2. worker[i].step = "load" /\ UNCHANGED ExceptWorker
        /\ worker' = [worker EXCEPT ![i].step = s, ![i].loaded = d]
    BY DEF Load
  <1>3. worker[i].seq \in 1..Len(stream) /\ FragmentOf(i) \in Fragments
    BY <1>2, AtWork
  <1>4. d \in Contents /\ s \in Steps
    BY <1>1, <1>3, DocumentContents DEF Steps
  <1> HIDE DEF d, s
  <1>5. worker' = [worker EXCEPT ![i] = w]
    BY <1>1, <1>2
  <1>6. w \in Work /\ w.step = s /\ w.seq = worker[i].seq /\ w.target = worker[i].target /\ w.loaded = d
    BY <1>1, <1>4 DEF Work
  <1>7. Elsewhere(w) => Elsewhere(worker[i])
    BY <1>2, <1>6 DEF Elsewhere, Steps
  <1> HIDE DEF w
  <1>8. Only(i, w)
    BY <1>2, <1>3, <1>5, <1>6, <1>7 DEF Moves, Only
  <1> QED
    BY <1>2, <1>6, <1>8 DEF d, s

SamePositions == \A f \in Fragments : indexed'[f].position = indexed[f].position
Recorded == indexed' = indexed \/ \E f \in Fragments : \E v \in Applied : Records(f, v)

LEMMA StatusTo ==
    ASSUME PipelineInv, NEW f \in Fragments, NEW s \in {"pending", "failed"},
           indexed' = [indexed EXCEPT ![f].status = s] \/ indexed' = indexed
    PROVE  Recorded /\ SamePositions
  <1>1. indexed \in [Fragments -> Applied] /\ indexed[f] \in Applied
    BY DEF PipelineInv, IndexTypes
  <1>2. CASE indexed' = indexed
    BY <1>2 DEF Recorded, SamePositions
  <1>3. CASE indexed' = [indexed EXCEPT ![f].status = s]
    <2> DEFINE v == [indexed[f] EXCEPT !.status = s]
    <2>1. indexed' = [indexed EXCEPT ![f] = v]
      BY <1>1, <1>3
    <2>2. v \in Applied /\ v.position = indexed[f].position /\ v.status = s
      BY <1>1 DEF Applied, States
    <2> HIDE DEF v
    <2>3. Records(f, v)
      BY <2>1, <2>2 DEF Records
    <2>4. SamePositions
      BY <1>1, <2>1, <2>2 DEF SamePositions
    <2> QED
      BY <2>2, <2>3, <2>4 DEF Recorded
  <1> QED
    BY <1>2, <1>3

LEMMA RecordPendingFacts ==
    ASSUME PipelineInv, NEW i \in Indexers, RecordPending(i)
    PROVE  /\ worker[i].step = "pend" /\ Recorded /\ SamePositions /\ UNCHANGED ExceptState
           /\ \E w \in Work : Moves(i, w) /\ w.step = "write" /\ w.loaded = worker[i].loaded
  <1>1. /\ worker[i].step = "pend" /\ worker' = [worker EXCEPT ![i].step = "write"]
        /\ UNCHANGED ExceptState
        /\ \/ indexed' = [indexed EXCEPT ![FragmentOf(i)].status = "pending"]
           \/ indexed' = indexed
    BY DEF RecordPending, Goto
  <1>2. FragmentOf(i) \in Fragments
    BY <1>1, AtWork
  <1>3. Recorded /\ SamePositions
    BY <1>1, <1>2, StatusTo
  <1>4. \E w \in Work : Moves(i, w) /\ w.step = "write" /\ w.loaded = worker[i].loaded
    BY <1>1, StepTo DEF Steps
  <1> QED
    BY <1>1, <1>3, <1>4

\* The two calls that change a collection: d is the document they leave there.
LEMMA PutFacts ==
    ASSUME PipelineInv, NEW i \in Indexers, Upsert(i) \/ Erase(i)
    PROVE  \E d \in Contents :
             /\ \/ worker[i].step = "write" /\ d = worker[i].loaded
                \/ worker[i].step = "erase" /\ d = NoDocument
             /\ Puts(worker[i].target, FragmentOf(i), d) /\ UNCHANGED ExceptPoints
             /\ \E w \in Work : Moves(i, w) /\ w.step = "apply"
  <1> DEFINE f == FragmentOf(i)
             c == worker[i].target
  <1>1. worker \in [Indexers -> Work] /\ worker[i] \in Work
    BY DEF PipelineInv, IndexTypes
  <1>2. worker[i].loaded \in Contents /\ NoDocument \in Contents
    BY <1>1 DEF Work, Contents
  <1>3. worker[i].step \in {"write", "erase"} /\ worker' = [worker EXCEPT ![i].step = "apply"]
        /\ UNCHANGED ExceptPoints
    BY DEF Upsert, Erase, Goto
  <1>4. f \in Fragments /\ c \in Collections
    BY <1>1, <1>3, AtWork DEF Work
  <1>5. \E w \in Work : Moves(i, w) /\ w.step = "apply"
    BY <1>3, StepTo DEF Steps
  <1> HIDE DEF f, c
  <1>6. CASE Upsert(i)
    <2>1. worker[i].step = "write" /\ points' = [points EXCEPT ![c][f] = worker[i].loaded]
      BY <1>6 DEF Upsert, Goto, f, c
    <2>2. Puts(c, f, worker[i].loaded)
      BY <1>2, <1>4, <2>1 DEF Puts
    <2> QED
      BY <1>2, <1>3, <1>5, <2>1, <2>2 DEF f, c
  <1>7. CASE Erase(i)
    <2>1. worker[i].step = "erase" /\ points' = [points EXCEPT ![c][f] = NoDocument]
      BY <1>7 DEF Erase, Goto, f, c
    <2>2. Puts(c, f, NoDocument)
      BY <1>2, <1>4, <2>1 DEF Puts
    <2> QED
      BY <1>2, <1>3, <1>5, <2>1, <2>2 DEF f, c
  <1> QED
    BY <1>6, <1>7

LEMMA RecordAppliedFacts ==
    ASSUME PipelineInv, NEW i \in Indexers, RecordApplied(i)
    PROVE  /\ worker[i].step = "apply" /\ RowExists(FragmentOf(i)) /\ Recorded /\ UNCHANGED ExceptState
           /\ \E w \in Work : Moves(i, w) /\ w.step = "ack"
           /\ \A f \in Fragments \ {FragmentOf(i)} : indexed'[f] = indexed[f]
           /\ ~ AlreadyApplied(i) => indexed'[FragmentOf(i)].position = PositionOf(i)
           /\ \A f \in Fragments : indexed'[f].position >= indexed[f].position
  <1> DEFINE f == FragmentOf(i)
             p == PositionOf(i)
             v == [status |-> "ready", position |-> p]
  <1>1. indexed \in [Fragments -> Applied]
    BY DEF PipelineInv, IndexTypes
  <1>2. worker[i].step = "apply" /\ worker' = [worker EXCEPT ![i].step = "ack"]
        /\ RowExists(f) /\ UNCHANGED ExceptState
    BY DEF RecordApplied, Goto
  <1>3. f \in Fragments /\ p \in Nat /\ \E e \in EventsOf(f) : e.position = p
    BY <1>2, AtWork DEF PositionOf
  <1>4. \E w \in Work : Moves(i, w) /\ w.step = "ack"
    BY <1>2, StepTo DEF Steps
  <1>5. \A g \in Fragments : indexed[g].position \in Nat
    BY <1>1 DEF Applied
  <1>6. v \in Applied /\ v.position = p /\ v.status = "ready"
    BY <1>3 DEF Applied, States
  <1>7. IF indexed[f].position < p THEN indexed' = [indexed EXCEPT ![f] = v] ELSE indexed' = indexed
    BY DEF RecordApplied, Newer
  <1>8. AlreadyApplied(i) <=> indexed[f].position >= p
    BY DEF AlreadyApplied
  <1> HIDE DEF f, p, v
  <1>9. CASE indexed[f].position < p
    <2>1. Records(f, v)
      BY <1>3, <1>6, <1>7, <1>9 DEF Records
    <2>2. indexed'[f] = v /\ \A g \in Fragments \ {f} : indexed'[g] = indexed[g]
      BY <1>1, <1>3, <1>7, <1>9
    <2>3. \A g \in Fragments : indexed'[g].position >= indexed[g].position
      BY <1>3, <1>5, <1>6, <1>9, <2>2
    <2>4. Recorded
      BY <1>3, <1>6, <2>1 DEF Recorded
    <2> QED
      BY <1>2, <1>4, <1>6, <2>2, <2>3, <2>4 DEF f, p
  <1>10. CASE ~ (indexed[f].position < p)
    <2>1. indexed' = indexed /\ AlreadyApplied(i)
      BY <1>3, <1>5, <1>7, <1>8, <1>10
    <2>2. \A g \in Fragments : indexed'[g].position >= indexed[g].position
      BY <1>5, <2>1
    <2> QED
      BY <1>2, <1>4, <2>1, <2>2 DEF f, Recorded
  <1> QED
    BY <1>9, <1>10

LEMMA FailFacts ==
    ASSUME PipelineInv, NEW i \in Indexers, ForeignKeyFails(i) \/ Throw(i) \/ Crash(i)
    PROVE  \E w \in Work : Only(i, w) /\ w.step \in {"failed", "idle"}
  <1>1. UNCHANGED ExceptWorker /\ worker[i].step # "idle"
        /\ \/ worker' = [worker EXCEPT ![i].step = "failed"]
           \/ worker' = [worker EXCEPT ![i] = Idle]
    BY DEF ForeignKeyFails, Throw, Crash
  <1>2. \E w \in Work : Moves(i, w) /\ w.step \in {"failed", "idle"}
    BY <1>1, StepTo, StepToIdle DEF Steps
  <1> QED
    BY <1>1, <1>2 DEF Only

LEMMA AckFacts ==
    ASSUME PipelineInv, NEW i \in Indexers, Ack(i)
    PROVE  /\ worker[i].step = "ack" /\ consumer' \in Consumer /\ Queued'
           /\ UNCHANGED <<catalogVars, stream, alias, indexed, points, termed, dropped>>
           /\ \/ consumer'.next = consumer.next
              \/ consumer'.next = consumer.next + 1 /\ consumer.next = worker[i].seq
           /\ \E w \in Work : Moves(i, w) /\ w.step \in {"failed", "idle"}
  <1>1. consumer \in Consumer /\ stream \in Seq(Nat) /\ Queued
    BY DEF PipelineInv, IndexTypes, IndexHolds
  <1>2. /\ worker[i].step = "ack" /\ Settle(worker[i].seq)
        /\ \/ worker' = [worker EXCEPT ![i].step = "failed"]
           \/ worker' = [worker EXCEPT ![i] = Idle]
        /\ UNCHANGED <<catalogVars, stream, alias, indexed, points, termed, dropped>>
    BY DEF Ack
  <1>3. worker[i].seq \in 1..Len(stream)
    BY <1>2, AtWork
  <1>4. /\ consumer' \in Consumer /\ Queued'
        /\ \/ consumer'.next = consumer.next
           \/ consumer'.next = consumer.next + 1 /\ consumer.next = worker[i].seq
    BY <1>1, <1>2, <1>3, SettleFacts
  <1>5. \E w \in Work : Moves(i, w) /\ w.step \in {"failed", "idle"}
    BY <1>2, StepTo, StepToIdle DEF Steps
  <1> QED
    BY <1>2, <1>4, <1>5

\* A message may be given up: it is recorded as terminated or dropped, and settled.
GaveUp ==
    /\ consumer' \in Consumer /\ Queued'
    /\ termed \cup dropped \subseteq termed' \cup dropped'
    /\ termed' \cup dropped' \subseteq CommittedPositions
    /\ \/ consumer'.next = consumer.next
       \/ /\ consumer'.next = consumer.next + 1
          /\ consumer.next \in 1..Len(stream) /\ stream[consumer.next] \in termed' \cup dropped'
    /\ UNCHANGED <<catalogVars, stream, alias, points>>

LEMMA ReofferGivesUp ==
    ASSUME PipelineInv, NEW n, Reoffer(n), UNCHANGED <<catalogVars, stream, alias, points, termed>>
    PROVE  GaveUp
  <1>1. /\ consumer \in Consumer /\ stream \in Seq(Nat) /\ Queued
        /\ termed \cup dropped \subseteq CommittedPositions /\ ToSet(stream) \subseteq CommittedPositions
    BY DEF PipelineInv, IndexTypes, IndexHolds
  <1>2. /\ consumer' \in Consumer /\ Queued'
        /\ \/ consumer'.next = consumer.next /\ dropped' = dropped
           \/ /\ n = consumer.next /\ consumer'.next = consumer.next + 1
              /\ n \in 1..Len(stream) /\ dropped' = dropped \cup {stream[n]}
    BY <1>1, ReofferFacts
  <1>3. \A m \in 1..Len(stream) : stream[m] \in CommittedPositions
    BY <1>1 DEF ToSet
  <1> QED
    BY <1>1, <1>2, <1>3 DEF GaveUp

LEMMA RetryFacts ==
    ASSUME PipelineInv, NEW i \in Indexers, Retry(i) \/ RecordFailedThrows(i)
    PROVE  GaveUp /\ indexed' = indexed /\ \E w \in Work : Moves(i, w) /\ w.step = "idle"
  <1>1. /\ Reoffer(worker[i].seq) /\ worker' = [worker EXCEPT ![i] = Idle] /\ indexed' = indexed
        /\ UNCHANGED <<catalogVars, stream, alias, points, termed>>
    BY DEF Retry, RecordFailedThrows
  <1>2. GaveUp
    BY <1>1, ReofferGivesUp
  <1> QED
    BY <1>1, <1>2, StepToIdle

LEMMA AckWaitFacts ==
    ASSUME PipelineInv, AckWaitPasses
    PROVE  GaveUp /\ indexed' = indexed /\ worker' = worker
  <1>1. Reoffer(consumer.next) /\ UNCHANGED <<catalogVars, stream, alias, worker, indexed, points, termed>>
    BY DEF AckWaitPasses
  <1> QED
    BY <1>1, ReofferGivesUp

LEMMA RecordFailedFacts ==
    ASSUME PipelineInv, NEW i \in Indexers, RecordFailed(i)
    PROVE  GaveUp /\ Recorded /\ SamePositions /\ \E w \in Work : Moves(i, w) /\ w.step = "idle"
  <1>1. /\ consumer \in Consumer /\ stream \in Seq(Nat) /\ Queued
        /\ termed \cup dropped \subseteq CommittedPositions
    BY DEF PipelineInv, IndexTypes, IndexHolds
  <1>2. /\ worker[i].step = "failed" /\ Settle(worker[i].seq) /\ worker' = [worker EXCEPT ![i] = Idle]
        /\ termed' = IF worker[i].seq = consumer.next THEN termed \cup {PositionOf(i)} ELSE termed
        /\ UNCHANGED <<catalogVars, stream, alias, points, dropped>>
        /\ \/ indexed' = [indexed EXCEPT ![FragmentOf(i)].status = "failed"]
           \/ indexed' = indexed
    BY DEF RecordFailed
  <1>3. /\ worker[i].seq \in 1..Len(stream) /\ FragmentOf(i) \in Fragments
        /\ PositionOf(i) = stream[worker[i].seq] /\ stream[worker[i].seq] \in CommittedPositions
    BY <1>2, AtWork
  <1>4. /\ consumer' \in Consumer /\ Queued'
        /\ \/ worker[i].seq # consumer.next /\ consumer'.next = consumer.next
           \/ worker[i].seq = consumer.next /\ consumer'.next = consumer.next + 1
    BY <1>1, <1>2, <1>3, SettleFacts
  <1>5. GaveUp
    BY <1>1, <1>2, <1>3, <1>4 DEF GaveUp
  <1>6. Recorded /\ SamePositions
    BY <1>2, <1>3, StatusTo
  <1>7. \E w \in Work : Moves(i, w) /\ w.step = "idle"
    BY <1>2, StepToIdle
  <1> QED
    BY <1>5, <1>6, <1>7

\* A copy of a committed event at the end of the stream.
LEMMA DeliverFacts ==
    ASSUME PipelineInv, NEW p, Deliver(p)
    PROVE  /\ stream' \in Seq(Nat) /\ ToSet(stream') \subseteq CommittedPositions
           /\ Len(stream) \in Nat /\ Len(stream') = Len(stream) + 1
           /\ \A n \in 1..Len(stream) : stream'[n] = stream[n]
           /\ UNCHANGED <<catalogVars, indexVars, alias>>
  <1>1. stream \in Seq(Nat) /\ ToSet(stream) \subseteq CommittedPositions /\ CatalogInv
    BY DEF PipelineInv, IndexTypes
  <1>2. p \in CommittedPositions /\ stream' = Append(stream, p) /\ UNCHANGED <<catalogVars, indexVars, alias>>
    BY DEF Deliver, Delivery!Deliver
  <1>3. \A e \in Event : e.position \in Nat
    BY BoundsAssumption DEF Event
  <1>4. p \in Nat
    BY <1>1, <1>2, <1>3, EventAtIs
  <1>5. /\ stream' \in Seq(Nat) /\ ToSet(stream') = ToSet(stream) \cup {p}
        /\ Len(stream') = Len(stream) + 1 /\ \A n \in 1..Len(stream) : stream'[n] = stream[n]
    BY <1>1, <1>2, <1>4, ToSetAppend
  <1>6. Len(stream) \in Nat
    BY <1>1
  <1> QED
    BY <1>1, <1>2, <1>5, <1>6

----------------------------------------------------------------------------
(* What the pipeline sees of the catalog's writes.                         *)

\* Nothing happened to the fragment, or it has a new latest event.
Follows(f) ==
    \/ EventsOf(f)' = EventsOf(f) /\ Document(f)' = Document(f) /\ row'[f] = row[f]
    \/ \E e \in Event : /\ e.position \notin CommittedPositions
                        /\ EventsOf(f)' = EventsOf(f) \cup {e}
                        /\ \A d \in EventsOf(f) : d.position < e.position

LEMMA WriteFacts ==
    ASSUME CatalogInv, Write
    PROVE  /\ raced \subseteq raced' /\ Log \subseteq Log' /\ CommittedPositions \subseteq CommittedPositions'
           /\ \A f : EventsOf(f) \subseteq EventsOf(f)'
           /\ \A f \in Fragments \ raced' : Follows(f)
  <1>1. ASSUME UNCHANGED <<row, source, log>>, raced \subseteq raced'
        PROVE  /\ raced \subseteq raced' /\ Log \subseteq Log' /\ CommittedPositions \subseteq CommittedPositions'
               /\ \A f : EventsOf(f) \subseteq EventsOf(f)'
               /\ \A f \in Fragments \ raced' : Follows(f)
    BY <1>1 DEF Log, CommittedPositions, EventsOf, Document, Follows
  <1>2. CASE \E t \in open : Commit(t)
    <2>1. PICK t \in open : Commit(t)
      BY <1>2
    <2>2. Log' = Log \cup Events(t) /\ \A f \in Fragments \ raced : Told(t, f)
      BY <2>1, CommitFacts
    <2>3. raced' = raced /\ log' = log \o t.events
      BY <2>1 DEF Commit
    <2>4. /\ \A d \in Log, e \in Events(t) : d.position # e.position
          /\ CommittedPositions = {e.position : e \in Log} /\ t.events \in Seq(Event)
      BY EventAtIs DEF CatalogInv, PositionsHold, CatalogTypes, Transaction
    <2>5. \A e \in Events(t) : e \in Event /\ e.position \notin CommittedPositions
      BY <2>4 DEF Events, ToSet
    <2>6. ASSUME NEW f \in Fragments \ raced' PROVE Follows(f)
      <3>1. Told(t, f)
        BY <2>2, <2>3
      <3> QED
        BY <2>5, <3>1 DEF Told, Follows
    <2>7. CommittedPositions \subseteq CommittedPositions'
      <3>1. log \in Seq(Event) /\ log' \in Seq(Event) /\ t.events \in Seq(Event)
        BY <2>3, <2>4, ConcatProperties DEF CatalogInv, CatalogTypes
      <3>2. CommittedPositions = {e.position : e \in Log} /\ CommittedPositions' = {e.position : e \in Log'}
        BY DEF CommittedPositions, Log, ToSet
      <3> QED
        BY <2>2, <3>2
    <2> QED
      BY <2>2, <2>3, <2>6, <2>7 DEF EventsOf
  <1>3. CASE \E t \in open : Abort(t)
    <2>1. UNCHANGED <<row, source, log, raced>>
      BY <1>3 DEF Abort
    <2> QED
      BY <1>1, <2>1
  <1>4. CASE \/ \E f \in Fragments : BeginCreate(f) \/ BeginEdit(f) \/ BeginDelete(f) \/ BeginRestore(f)
             \/ BeginRetitle \/ BeginDiscard
    <2>1. UNCHANGED <<row, source, log>> /\ raced \subseteq raced'
      BY <1>4 DEF BeginCreate, BeginEdit, BeginDelete, BeginRestore, BeginRetitle, BeginDiscard, Begin
    <2> QED
      BY <1>1, <2>1
  <1> QED
    BY <1>2, <1>3, <1>4 DEF Write

LEMMA PurgeCascadesFacts ==
    ASSUME PipelineInv, PurgeCascades
    PROVE  /\ UNCHANGED <<source, lastPosition, open, log, raced>>
           /\ \A f \in Fragments : Document(f)' = Document(f)
           /\ \A f \in Fragments :
                \/ ~ RowExists(f)' /\ indexed'[f] = NoState
                \/ RowExists(f)' /\ RowExists(f) /\ indexed'[f] = indexed[f]
           /\ indexed' \in [Fragments -> Applied]
           /\ UNCHANGED <<stream, alias, consumer, worker, points, termed, dropped>>
  <1>1. CatalogTypes /\ indexed \in [Fragments -> Applied] /\ NoState \in Applied
    BY DEF PipelineInv, CatalogInv, IndexTypes, NoState, Applied, States
  <1>2. /\ Purge /\ UNCHANGED <<stream, alias, consumer, worker, points, termed, dropped>>
        /\ indexed' = [f \in Fragments |-> IF row'[f].state = "absent" THEN NoState ELSE indexed[f]]
    BY DEF PurgeCascades
  <1>3. /\ UNCHANGED <<source, lastPosition, open, log, raced>>
        /\ \A f \in Fragments : /\ Document(f)' = Document(f)
                                /\ row[f].state = "absent" => row'[f].state = "absent"
    BY <1>1, <1>2, PurgeFacts
  <1>4. \A f \in Fragments :
           \/ ~ RowExists(f)' /\ indexed'[f] = NoState
           \/ RowExists(f)' /\ RowExists(f) /\ indexed'[f] = indexed[f]
    BY <1>2, <1>3 DEF RowExists
  <1>5. indexed' \in [Fragments -> Applied]
    BY <1>1, <1>2
  <1> QED
    BY <1>2, <1>3, <1>4, <1>5

----------------------------------------------------------------------------
(* The invariant of the pipeline.                                          *)

LEMMA PipelineInitHolds == Init => PipelineInv
  <1> SUFFICES ASSUME Init PROVE PipelineInv
    OBVIOUS
  <1>1. CatalogInv
    BY CatalogInitHolds DEF Init
  <1>2. IndexTypes
    BY InitialAssumption
       DEF Init, IndexTypes, Consumer, Work, Applied, States, Contents, Idle, NoState, Steps, ToSet
  <1>3. IndexHolds
    BY DEF Init, IndexHolds, Queued, Idle, NoState
  <1> QED
    BY <1>1, <1>2, <1>3 DEF PipelineInv

LEMMA CatalogKeepsPipeline ==
    ASSUME PipelineInv, Catalog
    PROVE  PipelineInv'
  <1> USE DEF PipelineInv
  <1>1. CASE Write /\ UNCHANGED <<stream, alias, indexVars>>
    <2>1. CatalogInv'
      BY <1>1, CatalogStep
    <2>2. CommittedPositions \subseteq CommittedPositions' /\ \A f : EventsOf(f) \subseteq EventsOf(f)'
      BY <1>1, WriteFacts
    <2>3. UNCHANGED <<stream, alias, consumer, worker, indexed, points, termed, dropped>>
      BY <1>1 DEF indexVars
    <2>4. IndexTypes'
      BY <2>2, <2>3 DEF IndexTypes
    <2>5. Queued'
      BY <2>3 DEF IndexHolds, Queued
    <2>6. \A f \in Fragments :
             /\ indexed'[f].position # 0 => \E e \in EventsOf(f)' : e.position = indexed'[f].position
             /\ indexed'[f].status = "ready" => indexed'[f].position # 0
      BY <2>2, <2>3 DEF IndexHolds
    <2>7. IndexHolds'
      BY <2>3, <2>5, <2>6 DEF IndexHolds
    <2> QED
      BY <2>1, <2>4, <2>7
  <1>2. CASE PurgeCascades
    <2>1. CatalogInv'
      BY <1>2, CatalogStep DEF PurgeCascades
    <2>2. /\ UNCHANGED <<source, lastPosition, open, log, raced>> /\ indexed' \in [Fragments -> Applied]
          /\ \A f \in Fragments : indexed'[f] = NoState \/ indexed'[f] = indexed[f]
          /\ UNCHANGED <<stream, alias, consumer, worker, points, termed, dropped>>
      BY <1>2, PurgeCascadesFacts
    <2>3. CommittedPositions' = CommittedPositions /\ \A f : EventsOf(f)' = EventsOf(f)
      BY <2>2 DEF CommittedPositions, EventsOf, Log
    <2>4. IndexTypes'
      BY <2>2, <2>3 DEF IndexTypes
    <2>5. Queued'
      BY <2>2 DEF IndexHolds, Queued
    <2>6. \A f \in Fragments :
             /\ indexed'[f].position # 0 => \E e \in EventsOf(f)' : e.position = indexed'[f].position
             /\ indexed'[f].status = "ready" => indexed'[f].position # 0
      BY <2>2, <2>3 DEF IndexHolds, NoState
    <2>7. IndexHolds'
      BY <2>2, <2>5, <2>6 DEF IndexHolds
    <2> QED
      BY <2>1, <2>4, <2>7
  <1> QED
    BY <1>1, <1>2 DEF Catalog

LEMMA DeliverKeepsPipeline ==
    ASSUME PipelineInv, NEW p, Deliver(p)
    PROVE  PipelineInv'
  <1> USE DEF PipelineInv
  <1>1. /\ stream' \in Seq(Nat) /\ ToSet(stream') \subseteq CommittedPositions
        /\ Len(stream) \in Nat /\ Len(stream') = Len(stream) + 1
        /\ UNCHANGED <<catalogVars, indexVars, alias>>
    BY DeliverFacts
  <1>2. UNCHANGED <<consumer, worker, indexed, points, termed, dropped>>
    BY <1>1 DEF indexVars
  <1>3. CatalogInv'
    BY <1>1, CatalogStep
  <1>4. CommittedPositions' = CommittedPositions /\ \A f : EventsOf(f)' = EventsOf(f)
    BY <1>1 DEF catalogVars, CommittedPositions, EventsOf, Log
  <1>5. IndexTypes'
    BY <1>1, <1>2, <1>4 DEF IndexTypes
  <1>6. 1..Len(stream) \subseteq 1..Len(stream') /\ 1..(Len(stream) + 1) \subseteq 1..(Len(stream') + 1)
    BY <1>1
  <1>7. Queued'
    BY <1>2, <1>6 DEF IndexHolds, Queued
  <1>8. IndexHolds'
    BY <1>2, <1>4, <1>6, <1>7 DEF IndexHolds
  <1> QED
    BY <1>3, <1>5, <1>8

LEMMA OnlyKeeps ==
    ASSUME PipelineInv, NEW i \in Indexers, NEW w \in Work, Only(i, w)
    PROVE  PipelineInv'
  <1>1. consumer \in Consumer /\ Queued /\ termed \cup dropped \subseteq CommittedPositions
    BY DEF PipelineInv, IndexTypes, IndexHolds
  <1>2. Moves(i, w) /\ UNCHANGED <<catalogVars, stream, alias, consumer, indexed, points, termed, dropped>>
    BY DEF Only, ExceptWorker
  <1>3. consumer' \in Consumer /\ Queued' /\ termed' \cup dropped' \subseteq CommittedPositions
    BY <1>1, <1>2 DEF Queued
  <1> QED
    BY <1>2, <1>3, PipelineKeeps

LEMMA ProcessKeepsPipeline ==
    ASSUME PipelineInv, NEW i \in Indexers, Process(i) \/ Throw(i) \/ Crash(i)
    PROVE  PipelineInv'
  <1>1. consumer \in Consumer /\ Queued /\ termed \cup dropped \subseteq CommittedPositions
    BY DEF PipelineInv, IndexTypes, IndexHolds
  <1>2. CASE Receive(i)
    <2>1. UNCHANGED <<catalogVars, stream, alias, indexed, points, termed, dropped>>
          /\ consumer' \in Consumer /\ Queued' /\ \E w \in Work : Moves(i, w)
      BY <1>2, ReceiveFacts
    <2> QED
      BY <1>1, <2>1, PipelineKeeps
  <1>3. CASE Resolve(i) \/ Check(i) \/ Load(i) \/ ForeignKeyFails(i) \/ Throw(i) \/ Crash(i)
    <2>1. \E w \in Work : Only(i, w)
      BY <1>3, ResolveFacts, CheckFacts, LoadFacts, FailFacts
    <2> QED
      BY <2>1, OnlyKeeps
  <1>4. CASE RecordPending(i) \/ RecordApplied(i)
    <2>1. Recorded /\ UNCHANGED ExceptState /\ \E w \in Work : Moves(i, w)
      BY <1>4, RecordPendingFacts, RecordAppliedFacts
    <2>2. UNCHANGED <<catalogVars, stream, alias, consumer, points, termed, dropped>>
      BY <2>1 DEF ExceptState
    <2>3. consumer' \in Consumer /\ Queued' /\ termed' \cup dropped' \subseteq CommittedPositions
      BY <1>1, <2>2 DEF Queued
    <2> QED
      BY <2>1, <2>2, <2>3, PipelineKeeps DEF Recorded
  <1>5. CASE Upsert(i) \/ Erase(i)
    <2>1. /\ UNCHANGED ExceptPoints /\ \E w \in Work : Moves(i, w)
          /\ \E d \in Contents : Puts(worker[i].target, FragmentOf(i), d)
      BY <1>5, PutFacts
    <2>2. \E c \in Collections : \E f \in Fragments : \E d \in Contents : Puts(c, f, d)
      BY <2>1 DEF Puts
    <2>3. UNCHANGED <<catalogVars, stream, alias, consumer, indexed, termed, dropped>>
      BY <2>1 DEF ExceptPoints
    <2>4. consumer' \in Consumer /\ Queued' /\ termed' \cup dropped' \subseteq CommittedPositions
      BY <1>1, <2>3 DEF Queued
    <2> QED
      BY <2>1, <2>2, <2>3, <2>4, PipelineKeeps
  <1>6. CASE Ack(i)
    <2>1. UNCHANGED <<catalogVars, stream, alias, indexed, points, termed, dropped>>
          /\ consumer' \in Consumer /\ Queued' /\ \E w \in Work : Moves(i, w)
      BY <1>6, AckFacts
    <2> QED
      BY <1>1, <2>1, PipelineKeeps
  <1>7. CASE Retry(i) \/ RecordFailedThrows(i) \/ RecordFailed(i)
    <2>1. GaveUp /\ Recorded /\ \E w \in Work : Moves(i, w)
      BY <1>7, RetryFacts, RecordFailedFacts DEF Recorded
    <2> QED
      BY <2>1, PipelineKeeps DEF GaveUp, Recorded
  <1> QED
    BY <1>2, <1>3, <1>4, <1>5, <1>6, <1>7 DEF Process

LEMMA PipelineStep ==
    ASSUME PipelineInv, [Next]_vars
    PROVE  PipelineInv'
  <1>1. CASE Catalog
    BY <1>1, CatalogKeepsPipeline
  <1>2. ASSUME NEW p \in CommittedPositions, Deliver(p) PROVE PipelineInv'
    BY <1>2, DeliverKeepsPipeline
  <1>3. CASE AckWaitPasses
    <2>1. GaveUp /\ indexed' = indexed /\ worker' = worker
      BY <1>3, AckWaitFacts
    <2> QED
      BY <2>1, PipelineKeeps DEF GaveUp
  <1>4. ASSUME NEW i \in Indexers, Process(i) \/ Throw(i) \/ Crash(i) PROVE PipelineInv'
    BY <1>4, ProcessKeepsPipeline
  <1>5. CASE UNCHANGED vars
    <2>1. UNCHANGED <<catalogVars, stream, alias, consumer, worker, indexed, points, termed, dropped>>
      BY <1>5 DEF vars, indexVars
    <2>2. consumer' \in Consumer /\ Queued' /\ termed' \cup dropped' \subseteq CommittedPositions
      BY <2>1 DEF PipelineInv, IndexTypes, IndexHolds, Queued
    <2> QED
      BY <2>1, <2>2, PipelineKeeps
  <1> QED
    BY <1>1, <1>2, <1>3, <1>4, <1>5 DEF Next, Pipeline

\* The catalog and the pipeline are consistent in every state, with any number of indexers:
\* positions are given once, transactions on a fragment follow each other and tell of it,
\* the latest event of a fragment says what the catalog shows, an indexer at work holds a
\* committed event, and what the index records as applied was committed
\* (appendFragmentProjectionEvent, and the consumer search-indexer-v1 in search-indexer.ts).
THEOREM PipelineInvariant == Spec => []PipelineInv
  <1>1. PipelineInv /\ [Next]_vars => PipelineInv'
    BY PipelineStep
  <1> QED
    BY <1>1, PipelineInitHolds, PTL DEF Spec

\* The position recorded as applied to a fragment never goes back while its row lives,
\* with any number of indexers on redeliveries of any messages: the WHERE clause of
\* recordApplied in search-index-state.ts lets only a newer position through.
THEOREM PositionsNeverGoBack == Spec => AppliedPositionIsMonotone
  <1> DEFINE Monotone == \A f \in Fragments :
                row'[f].state # "absent" => indexed'[f].position >= indexed[f].position
  <1>1. ASSUME PipelineInv, [Next]_vars PROVE Monotone
    <2>1. \A f \in Fragments : indexed[f].position \in Nat
      BY <1>1 DEF PipelineInv, IndexTypes, Applied
    <2>2. CASE indexed' = indexed \/ SamePositions
      BY <2>1, <2>2 DEF SamePositions
    <2>3. CASE PurgeCascades
      BY <1>1, <2>1, <2>3, PurgeCascadesFacts DEF RowExists
    <2>4. ASSUME NEW i \in Indexers, RecordPending(i) \/ RecordFailed(i) PROVE SamePositions
      BY <1>1, <2>4, RecordPendingFacts, RecordFailedFacts
    <2>5. ASSUME NEW i \in Indexers, RecordApplied(i) PROVE Monotone
      BY <1>1, <2>5, RecordAppliedFacts
    <2>6. ASSUME NEW i \in Indexers,
                 \/ Receive(i) \/ Resolve(i) \/ Check(i) \/ Load(i) \/ Upsert(i) \/ Erase(i) \/ Ack(i)
                 \/ ForeignKeyFails(i) \/ Retry(i) \/ RecordFailedThrows(i) \/ Throw(i) \/ Crash(i)
          PROVE  indexed' = indexed
      BY <2>6 DEF Receive, Resolve, Check, Load, Upsert, Erase, Ack, ForeignKeyFails, Retry,
                  RecordFailedThrows, Throw, Crash, ExceptWorker, ExceptPoints
    <2>7. ASSUME \/ Write /\ UNCHANGED <<stream, alias, indexVars>>
                 \/ \E p \in CommittedPositions : Deliver(p)
                 \/ AckWaitPasses \/ UNCHANGED vars
          PROVE  indexed' = indexed
      BY <2>7 DEF Deliver, AckWaitPasses, indexVars, vars
    <2> QED
      BY <1>1, <2>2, <2>3, <2>4, <2>5, <2>6, <2>7 DEF Next, Catalog, Pipeline, Process
  <1>2. PipelineInv /\ [Next]_vars => [Monotone]_vars
    BY <1>1
  <1> QED
    BY <1>2, PipelineInvariant, PTL DEF Spec, AppliedPositionIsMonotone

----------------------------------------------------------------------------
(* With one indexer, what it does last to a fragment is right.             *)

OneIndexer == \A i, j \in Indexers : i = j

IndexerInv(E) == PipelineInv /\ WorkerHolds(E) /\ AppliedHolds(E) /\ SettledHolds(E)

\* What the worker w must bring after the step, for the message it holds before it.
Duty(E, i, w) ==
    LET f == FragmentOf(i)
    IN  /\ w.step \in {"load", "pend", "write", "erase", "apply"} => ~ (indexed'[f].position >= PositionOf(i))
        /\ f \notin raced \cup E => \A e \in EventsOf(f) :
             Latest(e) /\ (e = EventOf(i) \/ (SettledEvent(e) /\ ~ GivenUp(f))) =>
               /\ w.step \in {"pend", "write"} => w.loaded = Document(f)
               /\ w.step = "erase" => Document(f) = NoDocument
               /\ w.step \in {"apply", "ack"} \/ Elsewhere(w) => points'[alias][f] = Document(f)
               /\ w.step = "ack" => indexed'[f].position >= PositionOf(i) \/ ~ RowExists(f)

LEMMA SameView ==
    ASSUME UNCHANGED catalogVars
    PROVE  /\ \A f : EventsOf(f)' = EventsOf(f) /\ Document(f)' = Document(f) /\ RowExists(f)' = RowExists(f)
           /\ \A e : Latest(e)' = Latest(e)
           /\ \A p : EventAt(p)' = EventAt(p)
           /\ raced' = raced /\ CommittedPositions' = CommittedPositions
  BY DEF catalogVars, EventsOf, Log, Document, RowExists, Latest, EventAt, CommittedPositions

LEMMA DutyDone ==
    ASSUME NEW E, PipelineInv, OneIndexer, NEW i \in Indexers, NEW w \in Work, Moves(i, w),
           worker[i].step # "idle", w.step # "idle", Duty(E, i, w),
           UNCHANGED <<catalogVars, stream, alias, consumer, termed, dropped>>
    PROVE  WorkerHolds(E)'
  <1>0. PICK f \in Fragments : f = FragmentOf(i)
    BY AtWork
  <1>1. worker' = [worker EXCEPT ![i] = w] /\ w.seq = worker[i].seq /\ worker \in [Indexers -> Work]
    BY DEF Moves, PipelineInv, IndexTypes
  <1>2. worker'[i] = w /\ \A j \in Indexers : j = i
    BY <1>1 DEF OneIndexer
  <1>3. /\ \A g : EventsOf(g)' = EventsOf(g) /\ Document(g)' = Document(g) /\ RowExists(g)' = RowExists(g)
        /\ \A e : Latest(e)' = Latest(e)
        /\ \A p : EventAt(p)' = EventAt(p)
        /\ raced' = raced
    BY SameView
  <1>4. EventOf(i)' = EventOf(i)
    BY <1>1, <1>2, <1>3 DEF EventOf
  <1>5. FragmentOf(i)' = f /\ PositionOf(i)' = PositionOf(i)
    BY <1>0, <1>4 DEF FragmentOf, PositionOf
  <1>6. \A e : SettledEvent(e)' = SettledEvent(e)
    BY DEF SettledEvent
  <1>7. \A g : GivenUp(g)' = GivenUp(g)
    BY <1>3 DEF GivenUp
  <1>8. w.step \in {"load", "pend", "write", "erase", "apply"} => ~ AlreadyApplied(i)'
    BY <1>0, <1>5 DEF Duty, AlreadyApplied
  <1>9. ASSUME f \notin raced \cup E, NEW e \in EventsOf(f), Latest(e),
               e = EventOf(i) \/ (SettledEvent(e) /\ ~ GivenUp(f))
        PROVE  Holds(i)'
    <2>1. /\ w.step \in {"pend", "write"} => w.loaded = Document(f)
          /\ w.step = "erase" => Document(f) = NoDocument
          /\ w.step \in {"apply", "ack"} \/ Elsewhere(w) => points'[alias][f] = Document(f)
          /\ w.step = "ack" => indexed'[f].position >= PositionOf(i) \/ ~ RowExists(f)
      BY <1>0, <1>9 DEF Duty
    <2>2. Document(f)' = Document(f) /\ RowExists(f)' = RowExists(f) /\ alias' = alias
      BY <1>3
    <2>3. Elsewhere(worker[i])' <=> Elsewhere(w)
      BY <1>2, <2>2 DEF Elsewhere
    <2> QED
      BY <1>2, <1>5, <2>1, <2>2, <2>3 DEF Holds, Shows, AlreadyApplied
  <1>10. ASSUME NEW e \in EventsOf(FragmentOf(i)'), FragmentOf(i)' \notin raced' \cup E,
                Latest(e)', e = EventOf(i)' \/ (SettledEvent(e)' /\ ~ GivenUp(FragmentOf(i))')
         PROVE  Holds(i)'
    BY <1>3, <1>4, <1>5, <1>6, <1>7, <1>9, <1>10
  <1> QED
    BY <1>2, <1>3, <1>8, <1>10 DEF WorkerHolds

\* What it holds for a collection that lost the alias was there before that.
LEMMA ElsewhereShows ==
    ASSUME NEW E, WorkerHolds(E), NEW i \in Indexers, NEW w, Moves(i, w), worker[i].step # "idle",
           FragmentOf(i) \notin raced \cup E, NEW e \in EventsOf(FragmentOf(i)), Latest(e),
           e = EventOf(i) \/ (SettledEvent(e) /\ ~ GivenUp(FragmentOf(i)))
    PROVE  Elsewhere(w) => Shows(FragmentOf(i))
  <1>1. Holds(i)
    BY DEF WorkerHolds
  <1> QED
    BY <1>1 DEF Moves, Holds

\* At the other steps a worker owes nothing.
LEMMA NoDuty ==
    ASSUME NEW E, PipelineInv, OneIndexer, NEW i \in Indexers, NEW w \in Work, Moves(i, w), alias' = alias,
           w.step \in {"idle", "resolve", "failed"} \/ (w.step = "check" /\ w.target = alias)
    PROVE  WorkerHolds(E)'
  <1>1. worker' = [worker EXCEPT ![i] = w] /\ worker \in [Indexers -> Work]
    BY DEF Moves, PipelineInv, IndexTypes
  <1>2. worker'[i] = w /\ \A j \in Indexers : j = i
    BY <1>1 DEF OneIndexer
  <1>3. Holds(i)'
    BY <1>2 DEF Holds, Elsewhere
  <1> QED
    BY <1>2, <1>3 DEF WorkerHolds

\* What gives a message up settles no event that is not given up with it.
LEMMA SettledBefore ==
    ASSUME PipelineInv, NEW f, NEW e \in EventsOf(f), UNCHANGED <<catalogVars, stream>>,
           consumer' \in Consumer, termed \cup dropped \subseteq termed' \cup dropped',
           \/ consumer'.next = consumer.next
           \/ /\ consumer'.next = consumer.next + 1
              /\ consumer.next \in 1..Len(stream) /\ stream[consumer.next] \in termed' \cup dropped',
           SettledEvent(e)', ~ GivenUp(f)'
    PROVE  SettledEvent(e) /\ ~ GivenUp(f)
  <1>1. /\ consumer.next \in Nat \ {0} /\ CatalogInv /\ stream \in Seq(Nat)
    BY DEF PipelineInv, IndexTypes, Consumer
  <1>2. \A p : EventAt(p)' = EventAt(p)
    BY SameView
  <1>3. ~ GivenUp(f)
    BY <1>2 DEF GivenUp
  <1>4. e \in Log /\ e.fragment = f
    BY DEF EventsOf
  <1>5. EventAt(e.position) = e
    BY <1>1, <1>4, EventAtIs
  <1>6. e.position \notin termed' \cup dropped'
    BY <1>2, <1>4, <1>5 DEF GivenUp
  <1>7. PICK n \in 1..(consumer'.next - 1) : n \in DOMAIN stream /\ stream[n] = e.position
    BY DEF SettledEvent
  <1>8. n \in 1..(consumer.next - 1)
    BY <1>1, <1>6, <1>7
  <1> QED
    BY <1>3, <1>7, <1>8 DEF SettledEvent

LEMMA AppliedStays ==
    ASSUME NEW E, AppliedHolds(E), UNCHANGED <<catalogVars, alias, points>>, SamePositions
    PROVE  AppliedHolds(E)'
  <1>1. /\ \A f : EventsOf(f)' = EventsOf(f) /\ Document(f)' = Document(f)
        /\ \A e : Latest(e)' = Latest(e)
        /\ raced' = raced
    BY SameView
  <1> QED
    BY <1>1 DEF AppliedHolds, Shows, SamePositions

LEMMA SettledStays ==
    ASSUME NEW E, PipelineInv, SettledHolds(E), UNCHANGED <<catalogVars, stream, alias, points>>, SamePositions,
           consumer' \in Consumer, termed \cup dropped \subseteq termed' \cup dropped',
           \/ consumer'.next = consumer.next
           \/ /\ consumer'.next = consumer.next + 1
              /\ consumer.next \in 1..Len(stream) /\ stream[consumer.next] \in termed' \cup dropped'
    PROVE  SettledHolds(E)'
  <1>1. /\ \A f : EventsOf(f)' = EventsOf(f) /\ Document(f)' = Document(f) /\ RowExists(f)' = RowExists(f)
        /\ \A e : Latest(e)' = Latest(e)
        /\ raced' = raced
    BY SameView
  <1>2. ASSUME NEW f \in Fragments \ (raced \cup E), NEW e \in EventsOf(f), Latest(e), SettledEvent(e)', ~ GivenUp(f)'
        PROVE  Shows(f)' /\ (indexed'[f].position = e.position \/ ~ RowExists(f))
    <2>1. SettledEvent(e) /\ ~ GivenUp(f)
      BY <1>2, SettledBefore
    <2>2. Shows(f) /\ (indexed[f].position = e.position \/ ~ RowExists(f))
      BY <1>2, <2>1 DEF SettledHolds
    <2> QED
      BY <1>1, <1>2, <2>2 DEF Shows, SamePositions
  <1> QED
    BY <1>1, <1>2 DEF SettledHolds

\* Nothing committed or applied of a fragment is newer than its latest event.
LEMMA LatestBounds ==
    ASSUME PipelineInv, NEW f \in Fragments, NEW e \in EventsOf(f), Latest(e)
    PROVE  /\ e.position \in Nat /\ indexed[f].position \in Nat /\ indexed[f].position <= e.position
           /\ \A d \in EventsOf(f) : d.position \in Nat /\ d.position <= e.position
           /\ \A d \in EventsOf(f) : d.position = e.position => d = e
           /\ SettledEvent(e) => e.position \in CommittedPositions
  <1>1. CatalogInv /\ indexed \in [Fragments -> Applied]
    BY DEF PipelineInv, IndexTypes
  <1>2. \A d \in EventsOf(f) : d \in Log /\ d.fragment = f /\ d \in Event
    BY <1>1, EventAtIs DEF EventsOf
  <1>3. \A d \in EventsOf(f) : d.position \in Nat
    BY <1>2, BoundsAssumption DEF Event
  <1>4. \A d \in EventsOf(f) : d.position <= e.position
    BY <1>2 DEF Latest
  <1>5. indexed[f].position \in Nat
    BY <1>1 DEF Applied
  <1>6. indexed[f].position <= e.position
    BY <1>3, <1>4, <1>5 DEF PipelineInv, IndexHolds
  <1>7. \A d \in EventsOf(f) : d.position = e.position => d = e
    BY <1>1, <1>2 DEF CatalogInv, PositionsHold
  <1>8. e.position \in CommittedPositions
    BY <1>1, <1>2, EventAtIs
  <1> QED
    BY <1>3, <1>4, <1>5, <1>6, <1>7, <1>8

LEMMA NoRowNoDocument == ASSUME NEW f \in Fragments, ~ RowExists(f) PROVE Document(f) = NoDocument
  BY DEF RowExists, Document

LEMMA OnlyKeepsSettled ==
    ASSUME NEW E, IndexerInv(E), NEW i \in Indexers, NEW w \in Work, Only(i, w)
    PROVE  AppliedHolds(E)' /\ SettledHolds(E)'
  <1>1. UNCHANGED <<catalogVars, stream, alias, consumer, indexed, points, termed, dropped>>
    BY DEF Only, ExceptWorker
  <1>2. SamePositions /\ consumer \in Consumer
    BY <1>1 DEF SamePositions, IndexerInv, PipelineInv, IndexTypes
  <1> QED
    BY <1>1, <1>2, AppliedStays, SettledStays DEF IndexerInv

LEMMA CheckKeeps ==
    ASSUME NEW E, IndexerInv(E), OneIndexer, NEW i \in Indexers, Check(i)
    PROVE  WorkerHolds(E)' /\ AppliedHolds(E)' /\ SettledHolds(E)'
  <1>1. PipelineInv /\ WorkerHolds(E) /\ AppliedHolds(E) /\ SettledHolds(E)
    BY DEF IndexerInv
  <1>2. worker[i].step = "check"
    BY <1>1, CheckFacts
  <1>3. PICK w \in Work :
             /\ Only(i, w)
             /\ w.step = IF AlreadyApplied(i) THEN "ack"
                         ELSE IF EventOf(i).type = "deleted" THEN "erase" ELSE "load"
    BY <1>1, CheckFacts
  <1>4. Moves(i, w) /\ UNCHANGED <<catalogVars, stream, alias, consumer, indexed, points, termed, dropped>>
    BY <1>3 DEF Only, ExceptWorker
  <1>5. PICK f \in Fragments : f = FragmentOf(i) /\ EventOf(i) \in EventsOf(f)
    BY <1>1, <1>2, AtWork
  <1>6. AlreadyApplied(i) <=> indexed[f].position >= EventOf(i).position
    BY <1>5 DEF AlreadyApplied, PositionOf
  <1>7. ASSUME f \notin raced \cup E, NEW e \in EventsOf(f), Latest(e), e = EventOf(i) \/ (SettledEvent(e) /\ ~ GivenUp(f))
        PROVE  /\ w.step = "erase" => Document(f) = NoDocument
               /\ w.step = "ack" \/ Elsewhere(w) => Shows(f)
               /\ w.step \notin {"pend", "write", "apply"}
    <2>1. /\ e.position \in Nat /\ indexed[f].position \in Nat /\ indexed[f].position <= e.position
          /\ EventOf(i).position \in Nat /\ EventOf(i).position <= e.position
      BY <1>1, <1>5, <1>7, LatestBounds
    <2>0. Elsewhere(w) => Shows(f)
      BY <1>1, <1>2, <1>4, <1>5, <1>7, ElsewhereShows
    <2>2. CASE e = EventOf(i)
      <3>1. AlreadyApplied(i) => Shows(f)
        BY <1>1, <1>6, <1>7, <2>1, <2>2 DEF AppliedHolds
      <3>2. EventOf(i).type = "deleted" => Document(f) = NoDocument
        BY <1>1, <1>7, <2>2 DEF PipelineInv, CatalogInv, LatestHolds
      <3> QED
        BY <1>3, <2>0, <3>1, <3>2
    <2>3. CASE SettledEvent(e) /\ ~ GivenUp(f)
      <3>1. Shows(f) /\ (indexed[f].position = e.position \/ ~ RowExists(f))
        BY <1>1, <1>7, <2>3 DEF SettledHolds
      <3>2. ~ AlreadyApplied(i) => ~ RowExists(f)
        BY <1>6, <2>1, <3>1
      <3> QED
        BY <1>3, <2>0, <3>1, <3>2, NoRowNoDocument
    <2> QED
      BY <1>7, <2>2, <2>3
  <1>8. Duty(E, i, w)
    BY <1>3, <1>4, <1>5, <1>6, <1>7 DEF Duty, AlreadyApplied, PositionOf, Shows
  <1>9. w.step # "idle" /\ worker[i].step # "idle"
    BY <1>2, <1>3
  <1>10. WorkerHolds(E)'
    BY <1>1, <1>4, <1>8, <1>9, DutyDone
  <1> QED
    BY <1>3, <1>10, OnlyKeepsSettled

LEMMA LoadKeeps ==
    ASSUME NEW E, IndexerInv(E), OneIndexer, NEW i \in Indexers, Load(i)
    PROVE  WorkerHolds(E)' /\ AppliedHolds(E)' /\ SettledHolds(E)'
  <1>1. PipelineInv /\ WorkerHolds(E)
    BY DEF IndexerInv
  <1>2. worker[i].step = "load"
    BY <1>1, LoadFacts
  <1>3. PICK w \in Work :
             /\ Only(i, w) /\ w.loaded = Document(FragmentOf(i))
             /\ w.step = IF Document(FragmentOf(i)) = NoDocument THEN "erase" ELSE "pend"
    BY <1>1, LoadFacts
  <1>4. Moves(i, w) /\ UNCHANGED <<catalogVars, stream, alias, consumer, indexed, points, termed, dropped>>
    BY <1>3 DEF Only, ExceptWorker
  <1>5. ~ AlreadyApplied(i)
    BY <1>1, <1>2 DEF WorkerHolds
  <1>6. Duty(E, i, w)
    BY <1>1, <1>2, <1>3, <1>4, <1>5, ElsewhereShows DEF Duty, AlreadyApplied, Shows
  <1>7. w.step # "idle" /\ worker[i].step # "idle"
    BY <1>2, <1>3
  <1>8. WorkerHolds(E)'
    BY <1>1, <1>4, <1>6, <1>7, DutyDone
  <1> QED
    BY <1>3, <1>8, OnlyKeepsSettled

LEMMA OtherStepsKeep ==
    ASSUME NEW E, IndexerInv(E), OneIndexer, NEW i \in Indexers,
           Resolve(i) \/ ForeignKeyFails(i) \/ Throw(i) \/ Crash(i)
    PROVE  WorkerHolds(E)' /\ AppliedHolds(E)' /\ SettledHolds(E)'
  <1>1. PipelineInv
    BY DEF IndexerInv
  <1>2. PICK w \in Work : Only(i, w) /\ (w.step \in {"idle", "failed"} \/ (w.step = "check" /\ w.target = alias))
    BY <1>1, ResolveFacts, FailFacts
  <1>3. WorkerHolds(E)'
    BY <1>1, <1>2, NoDuty DEF Only, ExceptWorker
  <1> QED
    BY <1>2, <1>3, OnlyKeepsSettled

LEMMA ReceiveKeeps ==
    ASSUME NEW E, IndexerInv(E), OneIndexer, NEW i \in Indexers, Receive(i)
    PROVE  WorkerHolds(E)' /\ AppliedHolds(E)' /\ SettledHolds(E)'
  <1>1. PipelineInv
    BY DEF IndexerInv
  <1>2. PICK w \in Work : Moves(i, w) /\ w.step = "resolve"
    BY <1>1, ReceiveFacts
  <1>3. /\ consumer' \in Consumer /\ consumer'.next = consumer.next
        /\ UNCHANGED <<catalogVars, stream, alias, indexed, points, termed, dropped>>
    BY <1>1, ReceiveFacts
  <1>4. WorkerHolds(E)'
    BY <1>1, <1>2, <1>3, NoDuty
  <1>5. SamePositions
    BY <1>3 DEF SamePositions
  <1> QED
    BY <1>3, <1>4, <1>5, AppliedStays, SettledStays DEF IndexerInv

LEMMA RecordPendingKeeps ==
    ASSUME NEW E, IndexerInv(E), OneIndexer, NEW i \in Indexers, RecordPending(i)
    PROVE  WorkerHolds(E)' /\ AppliedHolds(E)' /\ SettledHolds(E)'
  <1>1. PipelineInv /\ WorkerHolds(E) /\ AppliedHolds(E) /\ SettledHolds(E) /\ consumer \in Consumer
    BY DEF IndexerInv, PipelineInv, IndexTypes
  <1>2. worker[i].step = "pend" /\ SamePositions /\ UNCHANGED ExceptState
    BY <1>1, RecordPendingFacts
  <1>3. PICK w \in Work : Moves(i, w) /\ w.step = "write" /\ w.loaded = worker[i].loaded
    BY <1>1, RecordPendingFacts
  <1>4. UNCHANGED <<catalogVars, stream, alias, consumer, points, termed, dropped>>
    BY <1>2 DEF ExceptState
  <1>5. FragmentOf(i) \in Fragments
    BY <1>1, <1>2, AtWork
  <1>6. ~ AlreadyApplied(i) /\ indexed'[FragmentOf(i)].position = indexed[FragmentOf(i)].position
    BY <1>1, <1>2, <1>5 DEF WorkerHolds, SamePositions
  <1>7. Duty(E, i, w)
    <2>1. ASSUME FragmentOf(i) \notin raced \cup E, NEW e \in EventsOf(FragmentOf(i)), Latest(e),
                 e = EventOf(i) \/ (SettledEvent(e) /\ ~ GivenUp(FragmentOf(i)))
          PROVE  /\ w.loaded = Document(FragmentOf(i))
                 /\ Elsewhere(w) => Shows(FragmentOf(i))
      <3>1. Holds(i)
        BY <1>1, <1>2, <2>1 DEF WorkerHolds
      <3> QED
        BY <1>1, <1>2, <1>3, <2>1, <3>1, ElsewhereShows DEF Holds
    <2> QED
      BY <1>3, <1>4, <1>6, <2>1 DEF Duty, AlreadyApplied, Shows
  <1>8. WorkerHolds(E)'
    BY <1>1, <1>2, <1>3, <1>4, <1>7, DutyDone
  <1>9. AppliedHolds(E)'
    BY <1>1, <1>2, <1>4, AppliedStays
  <1>10. SettledHolds(E)'
    BY <1>1, <1>2, <1>4, SettledStays
  <1> QED
    BY <1>8, <1>9, <1>10

LEMMA PutKeeps ==
    ASSUME NEW E, IndexerInv(E), OneIndexer, NEW i \in Indexers, Upsert(i) \/ Erase(i)
    PROVE  WorkerHolds(E)' /\ AppliedHolds(E)' /\ SettledHolds(E)'
  <1>1. PipelineInv /\ WorkerHolds(E) /\ AppliedHolds(E) /\ SettledHolds(E)
    BY DEF IndexerInv
  <1>2. PICK d \in Contents :
             /\ \/ worker[i].step = "write" /\ d = worker[i].loaded
                \/ worker[i].step = "erase" /\ d = NoDocument
             /\ Puts(worker[i].target, FragmentOf(i), d) /\ UNCHANGED ExceptPoints
             /\ \E w \in Work : Moves(i, w) /\ w.step = "apply"
    BY <1>1, PutFacts
  <1>3. PICK w \in Work : Moves(i, w) /\ w.step = "apply"
    BY <1>2
  <1>4. UNCHANGED <<catalogVars, stream, alias, consumer, indexed, termed, dropped>>
    BY <1>2 DEF ExceptPoints
  <1>5. PICK f \in Fragments : f = FragmentOf(i) /\ EventOf(i) \in EventsOf(f) /\ worker[i].step # "idle"
    BY <1>1, <1>2, AtWork
  <1>6. PICK c \in Collections : c = worker[i].target /\ points' = [points EXCEPT ![c][f] = d]
    BY <1>2, <1>5 DEF Puts
  <1>7. points \in [Collections -> [Fragments -> Contents]] /\ alias \in Collections
    BY <1>1 DEF PipelineInv, IndexTypes
  <1>8. /\ points'[alias][f] = IF c = alias THEN d ELSE points[alias][f]
        /\ \A g \in Fragments : g # f => points'[alias][g] = points[alias][g]
    BY <1>6, <1>7
  <1>9. ~ (indexed[f].position >= EventOf(i).position)
    BY <1>1, <1>2, <1>5 DEF WorkerHolds, AlreadyApplied, PositionOf
  <1>10. ASSUME f \notin raced \cup E, NEW e \in EventsOf(f), Latest(e), e = EventOf(i) \/ (SettledEvent(e) /\ ~ GivenUp(f))
         PROVE  points'[alias][f] = Document(f)
    <2>1. Holds(i)
      BY <1>1, <1>5, <1>10 DEF WorkerHolds
    <2>2. d = Document(f)
      BY <1>2, <1>5, <2>1 DEF Holds
    <2>3. c # alias => Shows(f)
      BY <1>2, <1>5, <1>6, <2>1 DEF Holds, Elsewhere, Steps
    <2> QED
      BY <1>8, <2>2, <2>3 DEF Shows
  <1>11. Duty(E, i, w)
    BY <1>3, <1>4, <1>5, <1>9, <1>10 DEF Duty, PositionOf
  <1>12. WorkerHolds(E)'
    BY <1>1, <1>3, <1>4, <1>5, <1>11, DutyDone
  <1>13. /\ \A g : EventsOf(g)' = EventsOf(g) /\ Document(g)' = Document(g) /\ RowExists(g)' = RowExists(g)
         /\ \A e : Latest(e)' = Latest(e)
         /\ \A p : EventAt(p)' = EventAt(p)
         /\ raced' = raced
    BY <1>4, SameView
  <1>14. /\ \A e : SettledEvent(e)' = SettledEvent(e)
         /\ \A g : GivenUp(g)' = GivenUp(g)
    BY <1>4, <1>13 DEF SettledEvent, GivenUp
  <1>15. AppliedHolds(E)'
    <2> SUFFICES ASSUME NEW g \in Fragments \ (raced \cup E), NEW e \in EventsOf(g), Latest(e), indexed[g].position = e.position
                 PROVE  points'[alias][g] = Document(g)
      <3>1. \A g \in Fragments \ (raced \cup E) : EventsOf(g) = {} => points'[alias][g] = Document(g)
        BY <1>1, <1>5, <1>8 DEF AppliedHolds, Shows
      <3> QED
        BY <1>4, <1>13, <3>1 DEF AppliedHolds, Shows
    <2>1. g # f
      BY <1>1, <1>5, <1>9, LatestBounds
    <2> QED
      BY <1>1, <1>8, <2>1 DEF AppliedHolds, Shows
  <1>16. SettledHolds(E)'
    <2> SUFFICES ASSUME NEW g \in Fragments \ (raced \cup E), NEW e \in EventsOf(g), Latest(e), SettledEvent(e), ~ GivenUp(g)
                 PROVE  points'[alias][g] = Document(g) /\ (indexed[g].position = e.position \/ ~ RowExists(g))
      BY <1>4, <1>13, <1>14 DEF SettledHolds, Shows
    <2>1. Shows(g) /\ (indexed[g].position = e.position \/ ~ RowExists(g))
      BY <1>1 DEF SettledHolds
    <2>2. CASE g = f
      BY <1>10, <2>1, <2>2
    <2>3. CASE g # f
      BY <1>8, <2>1, <2>3 DEF Shows
    <2> QED
      BY <2>2, <2>3
  <1> QED
    BY <1>12, <1>15, <1>16

LEMMA RecordAppliedKeeps ==
    ASSUME NEW E, IndexerInv(E), OneIndexer, NEW i \in Indexers, RecordApplied(i)
    PROVE  WorkerHolds(E)' /\ AppliedHolds(E)' /\ SettledHolds(E)'
  <1>1. PipelineInv /\ WorkerHolds(E) /\ AppliedHolds(E) /\ SettledHolds(E)
    BY DEF IndexerInv
  <1>2. /\ worker[i].step = "apply" /\ RowExists(FragmentOf(i)) /\ UNCHANGED ExceptState
        /\ \A f \in Fragments \ {FragmentOf(i)} : indexed'[f] = indexed[f]
        /\ ~ AlreadyApplied(i) => indexed'[FragmentOf(i)].position = PositionOf(i)
    BY <1>1, RecordAppliedFacts
  <1>3. PICK w \in Work : Moves(i, w) /\ w.step = "ack"
    BY <1>1, RecordAppliedFacts
  <1>4. UNCHANGED <<catalogVars, stream, alias, consumer, points, termed, dropped>>
    BY <1>2 DEF ExceptState
  <1>5. PICK f \in Fragments : f = FragmentOf(i) /\ EventOf(i) \in EventsOf(f)
    BY <1>1, <1>2, AtWork
  <1>6. ~ (indexed[f].position >= EventOf(i).position) /\ indexed'[f].position = EventOf(i).position
        /\ RowExists(f) /\ EventOf(i).position \in Nat
    <2>1. ~ AlreadyApplied(i)
      BY <1>1, <1>2 DEF WorkerHolds
    <2> QED
      BY <1>1, <1>2, <1>5, <2>1, AtWork DEF AlreadyApplied, PositionOf
  <1>7. ASSUME f \notin raced \cup E, NEW e \in EventsOf(f), Latest(e), e = EventOf(i) \/ (SettledEvent(e) /\ ~ GivenUp(f))
        PROVE  Shows(f)
    <2>1. Holds(i)
      BY <1>1, <1>2, <1>5, <1>7 DEF WorkerHolds
    <2> QED
      BY <1>2, <1>5, <2>1 DEF Holds
  <1>8. Duty(E, i, w)
    BY <1>3, <1>4, <1>5, <1>6, <1>7 DEF Duty, PositionOf, Shows
  <1>9. WorkerHolds(E)'
    BY <1>1, <1>2, <1>3, <1>4, <1>8, DutyDone
  <1>10. /\ \A g : EventsOf(g)' = EventsOf(g) /\ Document(g)' = Document(g) /\ RowExists(g)' = RowExists(g)
         /\ \A e : Latest(e)' = Latest(e)
         /\ \A p : EventAt(p)' = EventAt(p)
         /\ raced' = raced
    BY <1>4, SameView
  <1>11. /\ \A e : SettledEvent(e)' = SettledEvent(e)
         /\ \A g : GivenUp(g)' = GivenUp(g) /\ Shows(g)' = Shows(g)
    BY <1>4, <1>10 DEF SettledEvent, GivenUp, Shows
  <1>12. AppliedHolds(E)'
    <2> SUFFICES ASSUME NEW g \in Fragments \ (raced \cup E), NEW e \in EventsOf(g), Latest(e), indexed'[g].position = e.position
                 PROVE  Shows(g)
      BY <1>1, <1>10, <1>11 DEF AppliedHolds
    <2>1. CASE g = f
      <3>1. e = EventOf(i)
        BY <1>1, <1>5, <1>6, <2>1, LatestBounds
      <3> QED
        BY <1>7, <2>1, <3>1
    <2>2. CASE g # f
      BY <1>1, <1>2, <1>5, <2>2 DEF AppliedHolds
    <2> QED
      BY <2>1, <2>2
  <1>13. SettledHolds(E)'
    <2> SUFFICES ASSUME NEW g \in Fragments \ (raced \cup E), NEW e \in EventsOf(g), Latest(e), SettledEvent(e), ~ GivenUp(g)
                 PROVE  Shows(g) /\ (indexed'[g].position = e.position \/ ~ RowExists(g))
      BY <1>10, <1>11 DEF SettledHolds
    <2>1. Shows(g) /\ (indexed[g].position = e.position \/ ~ RowExists(g))
      BY <1>1 DEF SettledHolds
    <2>2. g # f
      <3> SUFFICES ASSUME g = f PROVE FALSE
        OBVIOUS
      <3>1. indexed[f].position = e.position
        BY <1>6, <2>1
      <3>2. EventOf(i).position <= e.position /\ e.position \in Nat
        BY <1>1, <1>5, LatestBounds
      <3> QED
        BY <1>6, <3>1, <3>2
    <2> QED
      BY <1>2, <1>5, <2>1, <2>2
  <1> QED
    BY <1>9, <1>12, <1>13

LEMMA AckKeeps ==
    ASSUME NEW E, IndexerInv(E), OneIndexer, NEW i \in Indexers, Ack(i)
    PROVE  WorkerHolds(E)' /\ AppliedHolds(E)' /\ SettledHolds(E)'
  <1>1. PipelineInv /\ WorkerHolds(E) /\ AppliedHolds(E) /\ SettledHolds(E) /\ consumer \in Consumer /\ CatalogInv
    BY DEF IndexerInv, PipelineInv, IndexTypes
  <1>2. /\ worker[i].step = "ack"
        /\ UNCHANGED <<catalogVars, stream, alias, indexed, points, termed, dropped>>
        /\ \/ consumer'.next = consumer.next
           \/ consumer'.next = consumer.next + 1 /\ consumer.next = worker[i].seq
    BY <1>1, AckFacts
  <1>3. WorkerHolds(E)'
    <2>1. \E w \in Work : Moves(i, w) /\ w.step \in {"failed", "idle"}
      BY <1>1, AckFacts
    <2> QED
      BY <1>1, <1>2, <2>1, NoDuty
  <1>4. AppliedHolds(E)'
    BY <1>1, <1>2, AppliedStays DEF SamePositions
  <1>5. /\ \A g : EventsOf(g)' = EventsOf(g) /\ Document(g)' = Document(g) /\ RowExists(g)' = RowExists(g)
        /\ \A e : Latest(e)' = Latest(e)
        /\ \A p : EventAt(p)' = EventAt(p)
        /\ raced' = raced
    BY <1>2, SameView
  <1>6. \A g : GivenUp(g)' = GivenUp(g) /\ Shows(g)' = Shows(g)
    BY <1>2, <1>5 DEF GivenUp, Shows
  <1>7. /\ FragmentOf(i) \in Fragments /\ EventOf(i) \in EventsOf(FragmentOf(i))
        /\ PositionOf(i) = stream[worker[i].seq] /\ PositionOf(i) = EventOf(i).position
        /\ FragmentOf(i) = EventOf(i).fragment
    BY <1>1, <1>2, AtWork DEF PositionOf, FragmentOf
  <1>8. ASSUME NEW f \in Fragments \ (raced \cup E), NEW e \in EventsOf(f), Latest(e), SettledEvent(e)', ~ GivenUp(f)
        PROVE  Shows(f) /\ (indexed[f].position = e.position \/ ~ RowExists(f))
    <2>1. PICK n \in 1..(consumer'.next - 1) : n \in DOMAIN stream /\ stream[n] = e.position
      BY <1>2, <1>8 DEF SettledEvent
    <2>2. CASE SettledEvent(e)
      BY <1>1, <1>8, <2>2 DEF SettledHolds
    <2>3. CASE ~ SettledEvent(e)
      <3>1. consumer.next \in Nat \ {0} /\ n \notin 1..(consumer.next - 1)
        BY <1>1, <2>1, <2>3 DEF SettledEvent, Consumer
      <3>2. n = worker[i].seq
        BY <1>2, <2>1, <3>1
      <3>3. e.position = EventOf(i).position
        BY <1>7, <2>1, <3>2
      <3>4. e \in Log /\ e.fragment = f /\ EventOf(i) \in Log
        BY <1>7 DEF EventsOf
      <3>5. e = EventOf(i) /\ f = FragmentOf(i)
        BY <1>1, <1>7, <3>3, <3>4 DEF CatalogInv, PositionsHold
      <3>6. Holds(i)
        BY <1>1, <1>2, <1>8, <3>5 DEF WorkerHolds
      <3>7. Shows(f) /\ (indexed[f].position >= e.position \/ ~ RowExists(f))
        BY <1>2, <1>7, <3>5, <3>6 DEF Holds, AlreadyApplied
      <3>8. e.position \in Nat /\ indexed[f].position \in Nat /\ indexed[f].position <= e.position
        BY <1>1, <1>8, LatestBounds
      <3> QED
        BY <3>7, <3>8
    <2> QED
      BY <2>2, <2>3
  <1>9. SettledHolds(E)'
    BY <1>2, <1>5, <1>6, <1>8 DEF SettledHolds
  <1> QED
    BY <1>3, <1>4, <1>9

LEMMA GiveUpKeeps ==
    ASSUME NEW E, IndexerInv(E), OneIndexer, NEW i \in Indexers, Retry(i) \/ RecordFailedThrows(i) \/ RecordFailed(i)
    PROVE  WorkerHolds(E)' /\ AppliedHolds(E)' /\ SettledHolds(E)'
  <1>1. PipelineInv /\ AppliedHolds(E) /\ SettledHolds(E)
    BY DEF IndexerInv
  <1>2. GaveUp /\ SamePositions /\ \E w \in Work : Moves(i, w) /\ w.step = "idle"
    BY <1>1, RetryFacts, RecordFailedFacts DEF SamePositions
  <1>3. WorkerHolds(E)'
    BY <1>1, <1>2, NoDuty DEF GaveUp
  <1>4. AppliedHolds(E)'
    BY <1>1, <1>2, AppliedStays DEF GaveUp
  <1>5. SettledHolds(E)'
    BY <1>1, <1>2, SettledStays DEF GaveUp
  <1> QED
    BY <1>3, <1>4, <1>5

LEMMA AckWaitKeeps ==
    ASSUME NEW E, IndexerInv(E), AckWaitPasses
    PROVE  WorkerHolds(E)' /\ AppliedHolds(E)' /\ SettledHolds(E)'
  <1>1. PipelineInv /\ WorkerHolds(E) /\ AppliedHolds(E) /\ SettledHolds(E)
    BY DEF IndexerInv
  <1>2. GaveUp /\ indexed' = indexed /\ worker' = worker
    BY <1>1, AckWaitFacts
  <1>3. UNCHANGED <<catalogVars, stream, alias, points>>
    BY <1>2 DEF GaveUp
  <1>4. SamePositions
    BY <1>2 DEF SamePositions
  <1>5. AppliedHolds(E)'
    BY <1>1, <1>3, <1>4, AppliedStays
  <1>6. SettledHolds(E)'
    BY <1>1, <1>2, <1>4, SettledStays DEF GaveUp
  <1>7. /\ \A g : EventsOf(g)' = EventsOf(g) /\ Document(g)' = Document(g) /\ RowExists(g)' = RowExists(g)
        /\ \A e : Latest(e)' = Latest(e)
        /\ \A p : EventAt(p)' = EventAt(p)
        /\ raced' = raced
    BY <1>3, SameView
  <1>8. \A i \in Indexers : EventOf(i)' = EventOf(i) /\ FragmentOf(i)' = FragmentOf(i) /\ PositionOf(i)' = PositionOf(i)
    BY <1>2, <1>3, <1>7 DEF EventOf, FragmentOf, PositionOf
  <1>9. \A i \in Indexers : AlreadyApplied(i)' = AlreadyApplied(i)
    BY <1>2, <1>8 DEF AlreadyApplied
  <1>10. ASSUME NEW i \in Indexers, Holds(i) PROVE Holds(i)'
    <2>1. PICK f : f = FragmentOf(i)
      OBVIOUS
    <2>2. f = FragmentOf(i)'
      BY <1>8, <2>1
    <2> QED
      BY <1>2, <1>3, <1>7, <1>9, <1>10, <2>1, <2>2 DEF Holds, Shows, Elsewhere
  <1>11. ASSUME NEW i \in Indexers, worker[i].step # "idle", FragmentOf(i) \notin raced \cup E,
                NEW e \in EventsOf(FragmentOf(i)), Latest(e), e = EventOf(i) \/ (SettledEvent(e)' /\ ~ GivenUp(FragmentOf(i))')
         PROVE  Holds(i)'
    <2>1. PICK f : f = FragmentOf(i) /\ f = FragmentOf(i)'
      BY <1>8
    <2>2. SettledEvent(e)' /\ ~ GivenUp(f)' => SettledEvent(e) /\ ~ GivenUp(f)
      BY <1>1, <1>2, <1>11, <2>1, SettledBefore DEF GaveUp
    <2>3. e = EventOf(i) \/ (SettledEvent(e) /\ ~ GivenUp(f))
      BY <1>11, <2>1, <2>2
    <2>4. Holds(i)
      BY <1>1, <1>11, <2>1, <2>3 DEF WorkerHolds
    <2> QED
      BY <1>10, <2>4
  <1>12. WorkerHolds(E)'
    <2> SUFFICES ASSUME NEW i \in Indexers, worker[i].step # "idle"
                 PROVE  /\ worker[i].step \in {"load", "pend", "write", "erase", "apply"} => ~ AlreadyApplied(i)
                        /\ FragmentOf(i) \notin raced \cup E => \A e \in EventsOf(FragmentOf(i)) :
                             Latest(e) /\ (e = EventOf(i) \/ (SettledEvent(e)' /\ ~ GivenUp(FragmentOf(i))')) => Holds(i)'
      BY <1>2, <1>7, <1>8, <1>9 DEF WorkerHolds
    <2> QED
      BY <1>1, <1>11 DEF WorkerHolds
  <1> QED
    BY <1>5, <1>6, <1>12

\* A step of the catalog or of the outbox disturbs nothing that the indexer holds, applied
\* or settled: it leaves the latest event of a fragment as it was, or brings one that the
\* indexer has not seen.
LEMMA Undisturbed ==
    ASSUME NEW E, IndexerInv(E), PipelineInv', UNCHANGED <<alias, worker>>,
           points'[alias] = points[alias], raced \subseteq raced',
           \A i \in Indexers : worker[i].step # "idle" => EventOf(i)' = EventOf(i),
           \A f : EventsOf(f) \subseteq EventsOf(f)',
           \A f \in Fragments : \/ indexed'[f].position = 0 /\ ~ RowExists(f)'
                                \/ indexed'[f].position = indexed[f].position,
           \A f \in Fragments \ (raced' \cup E) : \A e \in EventsOf(f)' :
              Latest(e)' /\ e.position \in CommittedPositions =>
                /\ e \in EventsOf(f) /\ Latest(e) /\ Document(f)' = Document(f)
                /\ RowExists(f)' => RowExists(f),
           \A e : SettledEvent(e)' => SettledEvent(e),
           \A f : GivenUp(f) => GivenUp(f)'
    PROVE  WorkerHolds(E)' /\ AppliedHolds(E)' /\ SettledHolds(E)'
  <1>1. PipelineInv /\ WorkerHolds(E) /\ AppliedHolds(E) /\ SettledHolds(E)
    BY DEF IndexerInv
  <1>2. ToSet(stream) \subseteq CommittedPositions /\ CatalogInv /\ CatalogInv'
    BY <1>1 DEF PipelineInv, IndexTypes
  <1>3. \A e : SettledEvent(e) => e.position \in CommittedPositions
    BY <1>2 DEF SettledEvent, ToSet
  <1>4. \A f \in Fragments : \A e \in EventsOf(f)' : e.position \in Nat \ {0}
    <2>1. log' \in Seq(Event)
      BY <1>2 DEF CatalogInv, CatalogTypes
    <2>2. \A e \in Log' : e \in Event
      BY <2>1 DEF Log, ToSet
    <2> QED
      BY <2>2, BoundsAssumption DEF EventsOf, Event
  <1>5. \A f \in Fragments \ (raced' \cup E) : f \notin raced \cup E
    OBVIOUS
  <1>6. WorkerHolds(E)'
    <2> SUFFICES ASSUME NEW i \in Indexers, worker'[i].step # "idle"
                 PROVE  /\ worker'[i].step \in {"load", "pend", "write", "erase", "apply"} => ~ AlreadyApplied(i)'
                        /\ FragmentOf(i)' \notin raced' \cup E => \A e \in EventsOf(FragmentOf(i))' :
                             Latest(e)' /\ (e = EventOf(i)' \/ (SettledEvent(e)' /\ ~ GivenUp(FragmentOf(i))')) => Holds(i)'
      BY DEF WorkerHolds
    <2>1. worker[i].step # "idle"
      OBVIOUS
    <2>2. EventOf(i)' = EventOf(i)
      BY <2>1
    <2>3. PICK f \in Fragments : f = FragmentOf(i) /\ EventOf(i) \in EventsOf(f) /\ PositionOf(i) \in Nat \ {0}
      BY <1>1, <2>1, AtWork
    <2>4. f = FragmentOf(i)' /\ PositionOf(i)' = PositionOf(i) /\ EventOf(i).position = PositionOf(i)
      BY <2>2, <2>3 DEF FragmentOf, PositionOf
    <2>5. AlreadyApplied(i) <=> indexed[f].position >= PositionOf(i)
      BY <2>3 DEF AlreadyApplied
    <2>6. AlreadyApplied(i)' <=> indexed'[f].position >= PositionOf(i)
      BY <2>4 DEF AlreadyApplied
    <2>7. worker[i].step \in {"load", "pend", "write", "erase", "apply"} => ~ AlreadyApplied(i)'
      <3>1. worker[i].step \in {"load", "pend", "write", "erase", "apply"} => ~ AlreadyApplied(i)
        BY <1>1, <2>1 DEF WorkerHolds
      <3>2. indexed'[f].position = 0 \/ indexed'[f].position = indexed[f].position
        BY <2>3
      <3> QED
        BY <2>3, <2>5, <2>6, <3>1, <3>2
    <2>8. ASSUME f \notin raced' \cup E, NEW e \in EventsOf(f)', Latest(e)',
                 e = EventOf(i) \/ (SettledEvent(e)' /\ ~ GivenUp(f)')
          PROVE  Holds(i)'
      <3>1. EventOf(i).position \in CommittedPositions
        BY <1>1, <2>1, <2>3, <2>4, AtWork
      <3>2. e.position \in CommittedPositions
        BY <1>3, <2>8, <3>1
      <3>3. /\ e \in EventsOf(f) /\ Latest(e) /\ Document(f)' = Document(f)
            /\ RowExists(f)' => RowExists(f)
        BY <2>3, <2>8, <3>2
      <3>4. e = EventOf(i) \/ (SettledEvent(e) /\ ~ GivenUp(f))
        BY <2>8
      <3>5. Holds(i)
        BY <1>1, <1>5, <2>1, <2>3, <2>8, <3>3, <3>4 DEF WorkerHolds
      <3>6. /\ worker[i].step \in {"pend", "write"} => worker[i].loaded = Document(f)
            /\ worker[i].step = "erase" => Document(f) = NoDocument
            /\ worker[i].step \in {"apply", "ack"} \/ Elsewhere(worker[i]) => points[alias][f] = Document(f)
            /\ worker[i].step = "ack" => AlreadyApplied(i) \/ ~ RowExists(f)
        BY <2>3, <3>5 DEF Holds, Shows
      <3>7. worker[i].step = "ack" => AlreadyApplied(i)' \/ ~ RowExists(f)'
        BY <2>3, <2>5, <2>6, <3>3, <3>6
      <3> QED
        BY <2>4, <3>3, <3>6, <3>7 DEF Holds, Shows, Elsewhere
    <2> QED
      BY <2>2, <2>4, <2>7, <2>8
  <1>7. AppliedHolds(E)'
    <2> SUFFICES ASSUME NEW f \in Fragments \ (raced' \cup E), NEW e \in EventsOf(f)', Latest(e)',
                        indexed'[f].position = e.position
                 PROVE  Shows(f)'
      <3>1. ASSUME NEW f \in Fragments \ (raced' \cup E), EventsOf(f)' = {} PROVE Shows(f)'
        <4>1. EventsOf(f) = {} /\ f \notin raced /\ f \notin raced'
          BY <3>1
        <4>2. Document(f) = NoDocument /\ Document(f)' = NoDocument'
          BY <1>2, <3>1, <4>1 DEF CatalogInv, LatestHolds
        <4>3. Shows(f)
          BY <1>1, <1>5, <3>1, <4>1 DEF AppliedHolds
        <4> QED
          BY <4>2, <4>3 DEF Shows, NoDocument
      <3> QED
        BY <3>1 DEF AppliedHolds
    <2>1. indexed[f].position = e.position /\ e.position # 0
      BY <1>4
    <2>2. \E d \in EventsOf(f) : d.position = e.position
      BY <1>1, <2>1 DEF PipelineInv, IndexHolds
    <2>3. e.position \in CommittedPositions
      BY <1>2, <2>2, EventAtIs DEF EventsOf
    <2>4. e \in EventsOf(f) /\ Latest(e) /\ Document(f)' = Document(f)
      BY <2>3
    <2> QED
      BY <1>1, <1>5, <2>1, <2>4 DEF AppliedHolds, Shows
  <1>8. SettledHolds(E)'
    <2> SUFFICES ASSUME NEW f \in Fragments \ (raced' \cup E), NEW e \in EventsOf(f)', Latest(e)',
                        SettledEvent(e)', ~ GivenUp(f)'
                 PROVE  Shows(f)' /\ (indexed'[f].position = e.position \/ ~ RowExists(f)')
      BY DEF SettledHolds
    <2>1. SettledEvent(e) /\ ~ GivenUp(f)
      OBVIOUS
    <2>2. /\ e \in EventsOf(f) /\ Latest(e) /\ Document(f)' = Document(f)
          /\ RowExists(f)' => RowExists(f)
      BY <1>3, <2>1
    <2>3. Shows(f) /\ (indexed[f].position = e.position \/ ~ RowExists(f))
      BY <1>1, <1>5, <2>1, <2>2 DEF SettledHolds
    <2> QED
      BY <2>2, <2>3 DEF Shows
  <1> QED
    BY <1>6, <1>7, <1>8

LEMMA DeliverUndisturbed ==
    ASSUME NEW E, IndexerInv(E), NEW p, Deliver(p)
    PROVE  WorkerHolds(E)' /\ AppliedHolds(E)' /\ SettledHolds(E)'
  <1>1. PipelineInv
    BY DEF IndexerInv
  <1>2. /\ Len(stream) \in Nat /\ Len(stream') = Len(stream) + 1
        /\ \A n \in 1..Len(stream) : stream'[n] = stream[n]
        /\ UNCHANGED <<catalogVars, indexVars, alias>>
    BY <1>1, DeliverFacts
  <1>3. UNCHANGED <<consumer, worker, indexed, points, termed, dropped>>
    BY <1>2 DEF indexVars
  <1>4. PipelineInv'
    BY <1>1, DeliverKeepsPipeline
  <1>5. /\ \A g : EventsOf(g)' = EventsOf(g) /\ Document(g)' = Document(g) /\ RowExists(g)' = RowExists(g)
        /\ \A e : Latest(e)' = Latest(e)
        /\ \A q : EventAt(q)' = EventAt(q)
        /\ raced' = raced
    BY <1>2, SameView
  <1>6. \A i \in Indexers : worker[i].step # "idle" => EventOf(i)' = EventOf(i)
    <2>1. \A i \in Indexers : worker[i].step # "idle" => stream'[worker[i].seq] = stream[worker[i].seq]
      BY <1>1, <1>2, AtWork
    <2> QED
      BY <1>3, <1>5, <2>1 DEF EventOf
  <1>7. ASSUME NEW e, SettledEvent(e)' PROVE SettledEvent(e)
    <2>1. PICK n \in 1..(consumer.next - 1) : stream'[n] = e.position
      BY <1>3, <1>7 DEF SettledEvent
    <2>2. consumer.next \in 1..(Len(stream) + 1) /\ stream \in Seq(Nat)
      BY <1>1 DEF PipelineInv, IndexHolds, IndexTypes, Queued
    <2>3. n \in 1..Len(stream)
      BY <1>2, <2>1, <2>2
    <2>4. n \in DOMAIN stream /\ stream[n] = e.position
      BY <1>2, <2>1, <2>2, <2>3
    <2> QED
      BY <2>1, <2>4 DEF SettledEvent
  <1>8. \A f : GivenUp(f)' = GivenUp(f)
    BY <1>3, <1>5 DEF GivenUp
  <1> QED
    BY <1>2, <1>3, <1>4, <1>5, <1>6, <1>7, <1>8, Undisturbed

LEMMA CatalogUndisturbed ==
    ASSUME NEW E, IndexerInv(E), Catalog
    PROVE  WorkerHolds(E)' /\ AppliedHolds(E)' /\ SettledHolds(E)'
  <1>1. PipelineInv /\ CatalogInv
    BY DEF IndexerInv, PipelineInv
  <1>2. PipelineInv' /\ CatalogInv'
    BY <1>1, CatalogKeepsPipeline DEF PipelineInv
  <1>3. UNCHANGED <<stream, alias, consumer, worker, points, termed, dropped>>
    BY DEF Catalog, PurgeCascades, indexVars
  <1>4. \A e : SettledEvent(e)' = SettledEvent(e)
    BY <1>3 DEF SettledEvent
  <1>5. CASE Write /\ UNCHANGED <<stream, alias, indexVars>>
    <2>1. /\ raced \subseteq raced' /\ Log \subseteq Log' /\ \A f : EventsOf(f) \subseteq EventsOf(f)'
          /\ \A f \in Fragments \ (raced' \cup E) : Follows(f)
      BY <1>1, <1>5, WriteFacts
    <2>2. indexed' = indexed
      BY <1>5 DEF indexVars
    <2>3. \A p \in CommittedPositions : EventAt(p)' = EventAt(p)
      <3> SUFFICES ASSUME NEW p \in CommittedPositions PROVE EventAt(p)' = EventAt(p)
        OBVIOUS
      <3>1. PICK e \in Log : e.position = p /\ EventAt(p) = e
        BY <1>1, EventAtIs
      <3>2. e \in Log' /\ \A d \in Log' : d.position = p => d = e
        BY <1>2, <2>1, <3>1 DEF CatalogInv, PositionsHold
      <3>3. \E n \in DOMAIN log' : log'[n].position = p
        BY <3>1, <3>2 DEF Log, ToSet
      <3>4. EventAt(p)' \in Log' /\ EventAt(p)'.position = p
        BY <3>3 DEF EventAt, Log, ToSet
      <3> QED
        BY <3>1, <3>2, <3>4
    <2>4. \A i \in Indexers : worker[i].step # "idle" => EventOf(i)' = EventOf(i)
      BY <1>1, <1>3, <2>3, AtWork DEF EventOf
    <2>5. \A f : GivenUp(f)' = GivenUp(f)
      <3>1. termed \cup dropped \subseteq CommittedPositions
        BY <1>1 DEF PipelineInv, IndexTypes
      <3> QED
        BY <1>3, <2>3, <3>1 DEF GivenUp
    <2>6. ASSUME NEW f \in Fragments \ (raced' \cup E), NEW e \in EventsOf(f)', Latest(e)', e.position \in CommittedPositions
          PROVE  e \in EventsOf(f) /\ Latest(e) /\ Document(f)' = Document(f) /\ RowExists(f)' = RowExists(f)
      <3>1. e.fragment = f /\ \A d \in EventsOf(f)' : d.position <= e.position
        BY <2>6 DEF EventsOf, Latest
      <3>2. ASSUME NEW d \in Event, d.position \notin CommittedPositions,
                   EventsOf(f)' = EventsOf(f) \cup {d}, \A c \in EventsOf(f) : c.position < d.position
            PROVE  FALSE
        <4>1. e # d /\ e \in EventsOf(f)
          BY <2>6, <3>2
        <4>2. d.position <= e.position /\ e.position < d.position
          BY <3>1, <3>2, <4>1
        <4>3. e \in Event
          BY <1>1, <4>1, EventAtIs DEF EventsOf
        <4>4. d.position \in Nat /\ e.position \in Nat
          BY <3>2, <4>3, BoundsAssumption DEF Event
        <4> QED
          BY <4>2, <4>4
      <3>3. EventsOf(f)' = EventsOf(f) /\ Document(f)' = Document(f) /\ row'[f] = row[f]
        BY <2>1, <3>2 DEF Follows
      <3> QED
        BY <2>6, <3>1, <3>3 DEF Latest, RowExists
    <2> QED
      BY <1>2, <1>3, <1>4, <2>1, <2>2, <2>4, <2>5, <2>6, Undisturbed
  <1>6. CASE PurgeCascades
    <2>1. /\ UNCHANGED <<source, lastPosition, open, log, raced>>
          /\ \A f \in Fragments : Document(f)' = Document(f)
          /\ \A f \in Fragments :
                \/ ~ RowExists(f)' /\ indexed'[f] = NoState
                \/ RowExists(f)' /\ RowExists(f) /\ indexed'[f] = indexed[f]
      BY <1>1, <1>6, PurgeCascadesFacts
    <2>2. /\ \A f : EventsOf(f)' = EventsOf(f)
          /\ \A e : Latest(e)' = Latest(e)
          /\ \A p : EventAt(p)' = EventAt(p)
      BY <2>1 DEF EventsOf, Log, Latest, EventAt
    <2>3. \A i \in Indexers : EventOf(i)' = EventOf(i)
      BY <1>3, <2>2 DEF EventOf
    <2>4. \A f : GivenUp(f)' = GivenUp(f)
      BY <1>3, <2>2 DEF GivenUp
    <2>5. \A f \in Fragments : \/ indexed'[f].position = 0 /\ ~ RowExists(f)'
                               \/ indexed'[f].position = indexed[f].position
      BY <2>1 DEF NoState
    <2> QED
      BY <1>2, <1>3, <1>4, <2>1, <2>2, <2>3, <2>4, <2>5, Undisturbed
  <1> QED
    BY <1>5, <1>6 DEF Catalog

LEMMA ProcessKeeps ==
    ASSUME NEW E, IndexerInv(E), OneIndexer, NEW i \in Indexers, Process(i) \/ Throw(i) \/ Crash(i)
    PROVE  WorkerHolds(E)' /\ AppliedHolds(E)' /\ SettledHolds(E)'
  <1>1. CASE Receive(i)
    BY <1>1, ReceiveKeeps
  <1>2. CASE Resolve(i) \/ ForeignKeyFails(i) \/ Throw(i) \/ Crash(i)
    BY <1>2, OtherStepsKeep
  <1>3. CASE Check(i)
    BY <1>3, CheckKeeps
  <1>4. CASE Load(i)
    BY <1>4, LoadKeeps
  <1>5. CASE RecordPending(i)
    BY <1>5, RecordPendingKeeps
  <1>6. CASE Upsert(i) \/ Erase(i)
    BY <1>6, PutKeeps
  <1>7. CASE RecordApplied(i)
    BY <1>7, RecordAppliedKeeps
  <1>8. CASE Ack(i)
    BY <1>8, AckKeeps
  <1>9. CASE Retry(i) \/ RecordFailed(i) \/ RecordFailedThrows(i)
    BY <1>9, GiveUpKeeps
  <1> QED
    BY <1>1, <1>2, <1>3, <1>4, <1>5, <1>6, <1>7, <1>8, <1>9 DEF Process

LEMMA IndexerInitHolds == ASSUME NEW E, Init PROVE IndexerInv(E)
  <1>1. PipelineInv
    BY PipelineInitHolds
  <1>2. \A f : EventsOf(f) = {}
    BY DEF Init, CatalogInit, EventsOf, Log, ToSet
  <1>3. WorkerHolds(E)
    BY DEF Init, Idle, WorkerHolds
  <1>4. \A f \in Fragments : Shows(f)
    BY InitialAssumption DEF Init, CatalogInit, Shows, Document
  <1> QED
    BY <1>1, <1>2, <1>3, <1>4 DEF IndexerInv, AppliedHolds, SettledHolds

LEMMA IndexerStep ==
    ASSUME NEW E, OneIndexer, IndexerInv(E), [Next]_vars
    PROVE  IndexerInv(E)'
  <1>1. PipelineInv'
    BY PipelineStep DEF IndexerInv
  <1>2. CASE Catalog
    BY <1>1, <1>2, CatalogUndisturbed DEF IndexerInv
  <1>3. ASSUME NEW p \in CommittedPositions, Deliver(p) PROVE IndexerInv(E)'
    BY <1>1, <1>3, DeliverUndisturbed DEF IndexerInv
  <1>4. CASE AckWaitPasses
    BY <1>1, <1>4, AckWaitKeeps DEF IndexerInv
  <1>5. ASSUME NEW i \in Indexers, Process(i) \/ Throw(i) \/ Crash(i) PROVE IndexerInv(E)'
    BY <1>1, <1>5, ProcessKeeps DEF IndexerInv
  <1>6. CASE UNCHANGED vars
    <2>1. UNCHANGED <<catalogVars, stream, alias, consumer, worker, indexed, points, termed, dropped>>
      BY <1>6 DEF vars, indexVars
    <2>2. /\ \A g : EventsOf(g)' = EventsOf(g) /\ Document(g)' = Document(g) /\ RowExists(g)' = RowExists(g)
          /\ \A e : Latest(e)' = Latest(e)
          /\ \A p : EventAt(p)' = EventAt(p)
          /\ raced' = raced
      BY <2>1, SameView
    <2>3. /\ \A i \in Indexers : EventOf(i)' = EventOf(i)
          /\ \A e : SettledEvent(e)' = SettledEvent(e)
          /\ \A f : GivenUp(f)' = GivenUp(f)
      BY <2>1, <2>2 DEF EventOf, SettledEvent, GivenUp
    <2>4. WorkerHolds(E)' /\ AppliedHolds(E)' /\ SettledHolds(E)'
      BY <1>1, <2>1, <2>2, <2>3, Undisturbed
    <2> QED
      BY <1>1, <2>4 DEF IndexerInv
  <1> QED
    BY <1>2, <1>3, <1>4, <1>5, <1>6 DEF Next, Pipeline

\* With one indexer, what it holds, has applied or has settled of the latest event of a
\* fragment is what the catalog shows of it, through every interleaving of writes, purges,
\* redeliveries, failures and crashes (processSearchIndexMessage in search-indexer.ts).
THEOREM IndexerInvariant == OneIndexer => (Spec => []IndexerInv({}))
  <1> SUFFICES ASSUME OneIndexer PROVE Spec => []IndexerInv({})
    OBVIOUS
  <1>1. IndexerInv({}) /\ [Next]_vars => IndexerInv({})'
    BY IndexerStep
  <1>2. Init => IndexerInv({})
    BY IndexerInitHolds
  <1> QED
    BY <1>1, <1>2, PTL DEF Spec

\* With one indexer, a fragment recorded ready at its latest committed event is in the
\* active collection as the catalog shows it (recordApplied comes after the store's call).
THEOREM ReadyIsCurrent == OneIndexer => (Spec => []ReadyMeansCurrent)
  <1> SUFFICES ASSUME OneIndexer PROVE Spec => []ReadyMeansCurrent
    OBVIOUS
  <1>1. ASSUME IndexerInv({}) PROVE ReadyMeansCurrent
    <2> SUFFICES ASSUME NEW f \in Fragments \ raced, indexed[f].status = "ready",
                        \A n \in DOMAIN log : log[n].fragment = f => log[n].position <= indexed[f].position
                 PROVE  points[alias][f] = Document(f)
      BY DEF ReadyMeansCurrent
    <2>1. PICK e \in EventsOf(f) : e.position = indexed[f].position
      BY <1>1 DEF IndexerInv, PipelineInv, IndexHolds
    <2>2. e.fragment = f /\ \A d \in EventsOf(f) : d.position <= e.position
      BY <2>1 DEF EventsOf, Log, ToSet
    <2> QED
      BY <1>1, <2>1, <2>2 DEF IndexerInv, AppliedHolds, Latest, Shows
  <1> QED
    BY <1>1, IndexerInvariant, PTL

\* With one indexer, a delivery that is a duplicate of, or older than, what was applied to
\* its fragment changes nothing in Qdrant (isAlreadyApplied).
THEOREM StaleChangesNothing == OneIndexer => (Spec => StaleDeliveryChangesNothing)
  <1> SUFFICES ASSUME OneIndexer PROVE Spec => StaleDeliveryChangesNothing
    OBVIOUS
  <1> DEFINE Fresh == \A i \in Indexers : (Upsert(i) \/ Erase(i)) => ~ AlreadyApplied(i)
  <1>1. IndexerInv({}) => Fresh
    BY DEF IndexerInv, WorkerHolds, Upsert, Erase, Goto
  <1>2. IndexerInv({}) /\ [Next]_vars => [Fresh]_vars
    BY <1>1
  <1> QED
    BY <1>2, IndexerInvariant, PTL DEF StaleDeliveryChangesNothing, Spec

LEMMA QuietShows ==
    ASSUME NEW E, IndexerInv(E), Quiet, NEW f \in Fragments \ (raced \cup E), ~ GivenUp(f)
    PROVE  points[alias][f] = Document(f)
  <1>1. /\ CatalogInv /\ stream \in Seq(Nat) /\ consumer.next \in Nat \ {0}
        /\ SettledHolds(E) /\ AppliedHolds(E)
    BY DEF IndexerInv, PipelineInv, IndexTypes, Consumer
  <1>2. EventsOf(f) # {} => \E e \in EventsOf(f) : Latest(e)
    BY <1>1 DEF CatalogInv, LatestHolds
  <1>3. CASE EventsOf(f) = {}
    BY <1>1, <1>3 DEF AppliedHolds, Shows
  <1>4. CASE EventsOf(f) # {}
    <2>1. PICK e \in EventsOf(f) : Latest(e)
      BY <1>2, <1>4
    <2>2. e.position \in CommittedPositions
      BY <1>1, <2>1, EventAtIs DEF EventsOf
    <2>3. PICK n \in DOMAIN stream : stream[n] = e.position
      BY <2>2 DEF Quiet, ToSet
    <2>4. n \in 1..(consumer.next - 1)
      <3>1. n \in 1..Len(stream) /\ Len(stream) \in Nat /\ consumer.next > Len(stream)
        BY <1>1, <2>3 DEF Quiet
      <3> QED
        BY <1>1, <3>1
    <2>5. SettledEvent(e)
      BY <2>3, <2>4 DEF SettledEvent
    <2> QED
      BY <1>1, <2>1, <2>5 DEF SettledHolds, Shows
  <1> QED
    BY <1>3, <1>4

\* With one indexer, once everything committed was delivered and processed, the active
\* collection equals the catalog, but for what was given up after max_deliver deliveries
\* and what was written while a save of the whole source was open.
THEOREM QuietIsCurrent == OneIndexer => (Spec => []QuietMeansCurrent)
  <1> SUFFICES ASSUME OneIndexer PROVE Spec => []QuietMeansCurrent
    OBVIOUS
  <1>1. IndexerInv({}) => QuietMeansCurrent
    BY QuietShows DEF QuietMeansCurrent
  <1> QED
    BY <1>1, IndexerInvariant, PTL
----------------------------------------------------------------------------
(* The rebuild beside the indexers, of any number.                         *)

CopySteps == {"off", "snapshot", "read", "store", "count", "switch"}

RebuildTypes ==
    rebuild \in [step : CopySteps \cup {"mark", "over"}, status : {"none", "running", "ready", "failed"},
                 cursor : {rebuild.cursor}, todo : Seq(Fragments), loaded : Contents,
                 counts : {rebuild.counts}, seen : SUBSET CommittedPositions,
                 exposed : SUBSET Fragments]

\* Until the alias moves nobody but the run writes to the target.
AliasHolds ==
    /\ rebuild.step \in CopySteps => alias = Initial
    /\ alias = Initial => rebuild.exposed = {} /\ \A i \in Indexers : worker[i].target = Initial

\* The run has read every committed event of the fragment.
HasRead(f) == \A e \in EventsOf(f) : e.position \in rebuild.seen

\* What the run has read of a fragment is in the target, or the fragment is still to be
\* indexed, or a document of it is about to be stored that is what the catalog shows.
CopyHolds ==
    /\ rebuild.step \in {"off", "snapshot"} => \A f \in Fragments : points[Target][f] = NoDocument
    /\ rebuild.step = "store" => rebuild.todo # <<>>
    /\ rebuild.step \in {"count", "switch"} => rebuild.todo = <<>>
    /\ rebuild.step \in {"read", "store", "count", "switch"} =>
         \A f \in Fragments \ raced : HasRead(f) =>
           /\ f \in ToSet(rebuild.todo) \/ points[Target][f] = Document(f)
           /\ rebuild.step = "store" /\ f = Head(rebuild.todo) => rebuild.loaded = Document(f)

RebuildInv == PipelineInv /\ RebuildTypes /\ AliasHolds /\ CopyHolds

\* An indexer writes to the collection it has resolved, and resolves the alias.
LEMMA ProcessWrites ==
    ASSUME PipelineInv, NEW i \in Indexers, Process(i) \/ Throw(i) \/ Crash(i)
    PROVE  /\ UNCHANGED <<catalogVars, alias>> /\ \E w \in Work : Moves(i, w)
           /\ points' = points \/ \E f, d : Puts(worker[i].target, f, d)
  <1>1. CASE Receive(i)
    BY <1>1, ReceiveFacts
  <1>2. CASE Resolve(i) \/ Check(i) \/ Load(i) \/ ForeignKeyFails(i) \/ Throw(i) \/ Crash(i)
    <2>1. \E w \in Work : Only(i, w)
      BY <1>2, ResolveFacts, CheckFacts, LoadFacts, FailFacts
    <2> QED
      BY <2>1 DEF Only, ExceptWorker
  <1>3. CASE RecordPending(i) \/ RecordApplied(i)
    <2>1. UNCHANGED ExceptState /\ \E w \in Work : Moves(i, w)
      BY <1>3, RecordPendingFacts, RecordAppliedFacts
    <2> QED
      BY <2>1 DEF ExceptState
  <1>4. CASE Upsert(i) \/ Erase(i)
    <2>1. UNCHANGED ExceptPoints /\ (\E w \in Work : Moves(i, w)) /\ \E f, d : Puts(worker[i].target, f, d)
      BY <1>4, PutFacts
    <2> QED
      BY <2>1 DEF ExceptPoints
  <1>5. CASE Ack(i)
    BY <1>5, AckFacts
  <1>6. CASE Retry(i) \/ RecordFailedThrows(i) \/ RecordFailed(i)
    <2>1. GaveUp /\ \E w \in Work : Moves(i, w)
      BY <1>6, RetryFacts, RecordFailedFacts
    <2> QED
      BY <2>1 DEF GaveUp
  <1> QED
    BY <1>1, <1>2, <1>3, <1>4, <1>5, <1>6 DEF Process

\* While the alias is where it was, no other collection changes under the run.
LEMMA TargetUntouched ==
    ASSUME PipelineInv, [Next]_vars
    PROVE  /\ alias' = alias
           /\ alias = Initial /\ (\A i \in Indexers : worker[i].target = Initial) =>
                points'[Target] = points[Target] /\ \A i \in Indexers : worker'[i].target = Initial
  <1>1. worker \in [Indexers -> Work] /\ points \in [Collections -> [Fragments -> Contents]]
    BY DEF PipelineInv, IndexTypes
  <1>2. CASE Catalog
    <2>1. UNCHANGED <<alias, worker, points>>
      BY <1>2 DEF Catalog, PurgeCascades, indexVars
    <2> QED
      BY <2>1
  <1>3. CASE \E p \in CommittedPositions : Deliver(p)
    BY <1>3 DEF Deliver, indexVars
  <1>4. CASE AckWaitPasses
    BY <1>4 DEF AckWaitPasses
  <1>5. ASSUME NEW i \in Indexers, Process(i) \/ Throw(i) \/ Crash(i)
        PROVE  /\ alias' = alias
               /\ alias = Initial /\ (\A j \in Indexers : worker[j].target = Initial) =>
                    points'[Target] = points[Target] /\ \A j \in Indexers : worker'[j].target = Initial
    <2>1. /\ alias' = alias /\ \E w \in Work : Moves(i, w)
          /\ points' = points \/ \E f, d : Puts(worker[i].target, f, d)
      BY <1>5, ProcessWrites
    <2>2. PICK w \in Work : worker' = [worker EXCEPT ![i] = w] /\ w.target \in {Initial, alias, worker[i].target}
      BY <2>1 DEF Moves
    <2>3. worker[i].target = Initial => points'[Target] = points[Target]
      BY <1>1, <2>1, TargetAssumption DEF Puts
    <2> QED
      BY <1>1, <2>1, <2>2, <2>3
  <1>6. CASE UNCHANGED vars
    BY <1>6 DEF vars, indexVars
  <1> QED
    BY <1>2, <1>3, <1>4, <1>5, <1>6 DEF Next, Pipeline

\* A fragment that was not raced changes with a new event only.
LEMMA ChangesAreTold ==
    ASSUME PipelineInv, [Next]_vars
    PROVE  /\ raced \subseteq raced' /\ CommittedPositions \subseteq CommittedPositions'
           /\ \A f \in Fragments \ raced' : (\A e \in EventsOf(f)' : e.position \in CommittedPositions) =>
                EventsOf(f)' = EventsOf(f) /\ Document(f)' = Document(f)
  <1>1. CASE Write
    <2>1. /\ raced \subseteq raced' /\ CommittedPositions \subseteq CommittedPositions'
          /\ \A f \in Fragments \ raced' : Follows(f)
      BY <1>1, WriteFacts DEF PipelineInv
    <2> QED
      BY <2>1 DEF Follows
  <1>2. CASE PurgeCascades
    <2>1. UNCHANGED <<log, raced>> /\ \A f \in Fragments : Document(f)' = Document(f)
      BY <1>2, PurgeCascadesFacts
    <2> QED
      BY <2>1 DEF EventsOf, Log, CommittedPositions
  <1>3. CASE UNCHANGED catalogVars
    BY <1>3, SameView
  <1>4. UNCHANGED catalogVars \/ Write \/ PurgeCascades
    <2>1. ASSUME NEW p, Deliver(p) PROVE UNCHANGED catalogVars
      BY <2>1 DEF Deliver
    <2>2. ASSUME NEW i \in Indexers, Process(i) \/ Throw(i) \/ Crash(i) PROVE UNCHANGED catalogVars
      BY <2>2, ProcessWrites
    <2>3. AckWaitPasses \/ UNCHANGED vars => UNCHANGED catalogVars
      BY DEF AckWaitPasses, vars
    <2> QED
      BY <2>1, <2>2, <2>3 DEF Next, Pipeline, Catalog
  <1> QED
    BY <1>1, <1>2, <1>3, <1>4

LEMMA RebuildInitHolds == RebuildInit => RebuildInv
  <1> SUFFICES ASSUME RebuildInit PROVE RebuildInv
    OBVIOUS
  <1>1. PipelineInv /\ alias = Initial /\ \A i \in Indexers : worker[i].target = Initial
    BY PipelineInitHolds DEF RebuildInit, Init, Idle
  <1>2. rebuild = [step |-> "off", status |-> "none", cursor |-> 0, todo |-> <<>>,
                   loaded |-> NoDocument, counts |-> <<>>, seen |-> {}, exposed |-> {}]
    BY DEF RebuildInit
  <1>3. RebuildTypes
    BY <1>2 DEF RebuildTypes, CopySteps, Contents
  <1>4. \A f \in Fragments : points[Target][f] = NoDocument
    BY TargetAssumption DEF RebuildInit, Init
  <1> QED
    BY <1>1, <1>2, <1>3, <1>4 DEF RebuildInv, AliasHolds, CopyHolds

\* A step of the catalog or of the pipeline beside the run.
LEMMA BesideKeeps ==
    ASSUME RebuildInv, [Next]_vars, UNCHANGED rebuild
    PROVE  RebuildInv'
  <1>1. PipelineInv /\ RebuildTypes /\ AliasHolds /\ CopyHolds
    BY DEF RebuildInv
  <1>2. PipelineInv'
    BY <1>1, PipelineStep
  <1>3. /\ alias' = alias
        /\ alias = Initial /\ (\A i \in Indexers : worker[i].target = Initial) =>
             points'[Target] = points[Target] /\ \A i \in Indexers : worker'[i].target = Initial
    BY <1>1, TargetUntouched
  <1>4. /\ raced \subseteq raced' /\ CommittedPositions \subseteq CommittedPositions'
        /\ \A f \in Fragments \ raced' : (\A e \in EventsOf(f)' : e.position \in CommittedPositions) =>
             EventsOf(f)' = EventsOf(f) /\ Document(f)' = Document(f)
    BY <1>1, ChangesAreTold
  <1>5. RebuildTypes'
    BY <1>1, <1>4 DEF RebuildTypes
  <1>6. AliasHolds'
    BY <1>1, <1>3 DEF AliasHolds
  <1>7. rebuild.seen \subseteq CommittedPositions
    BY <1>1 DEF RebuildTypes
  <1>8. ASSUME NEW f \in Fragments \ raced', HasRead(f)'
        PROVE  f \in Fragments \ raced /\ HasRead(f) /\ Document(f)' = Document(f)
    BY <1>4, <1>7, <1>8 DEF HasRead
  <1>9. rebuild.step \in CopySteps => points'[Target] = points[Target]
    BY <1>1, <1>3 DEF AliasHolds
  <1>10. CopyHolds'
    BY <1>1, <1>8, <1>9 DEF CopyHolds, CopySteps
  <1> QED
    BY <1>2, <1>5, <1>6, <1>10 DEF RebuildInv
\* The run touches its row and its data only.
LEMMA RunAlone ==
    ASSUME RebuildInv, UNCHANGED vars
    PROVE  /\ PipelineInv' /\ CommittedPositions' = CommittedPositions /\ raced' = raced
           /\ UNCHANGED <<points, worker, alias>>
           /\ \A f : EventsOf(f)' = EventsOf(f) /\ Document(f)' = Document(f)
  <1>1. PipelineInv'
    BY PipelineStep DEF RebuildInv
  <1>2. UNCHANGED <<catalogVars, points, worker, alias>>
    BY DEF vars, indexVars
  <1> QED
    BY <1>1, <1>2, SameView

LEMMA StartKeeps ==
    ASSUME RebuildInv, StartRebuild
    PROVE  RebuildInv'
  <1>1. /\ UNCHANGED vars /\ rebuild.step = "off"
        /\ rebuild' = [rebuild EXCEPT !.step = "snapshot", !.status = "running", !.cursor = HighWater]
    BY DEF StartRebuild, At, vars
  <1>2. /\ PipelineInv' /\ CommittedPositions' = CommittedPositions
        /\ UNCHANGED <<points, worker, alias>>
    BY <1>1, RunAlone
  <1>3. RebuildTypes /\ AliasHolds /\ CopyHolds
    BY DEF RebuildInv
  <1>4. /\ rebuild'.step = "snapshot" /\ rebuild'.status = "running" /\ rebuild'.exposed = rebuild.exposed
        /\ RebuildTypes'
    BY <1>1, <1>2, <1>3 DEF RebuildTypes, CopySteps
  <1>5. AliasHolds'
    BY <1>1, <1>2, <1>3, <1>4 DEF AliasHolds, CopySteps
  <1>6. CopyHolds'
    BY <1>1, <1>2, <1>3, <1>4 DEF CopyHolds
  <1> QED
    BY <1>2, <1>4, <1>5, <1>6 DEF RebuildInv

\* The visible fragments, listed.
LEMMA VisibleListed == SetToSeq(Visible) \in Seq(Fragments) /\ ToSet(SetToSeq(Visible)) = Visible
  <1>1. Visible \subseteq Fragments
    BY DEF Visible
  <1>2. IsFiniteSet(Visible)
    BY <1>1, FragmentsAssumption, FS_Subset
  <1>3. PICK s : s = SetToSeq(Visible)
    OBVIOUS
  <1>4. s \in Seq(Visible) /\ \A f \in Visible : \E n \in DOMAIN s : s[n] = f
    BY <1>2, <1>3, Listed
  <1>5. ToSet(s) = Visible
    BY <1>4 DEF ToSet
  <1>6. s \in Seq(Fragments)
    BY <1>1, <1>4
  <1> QED
    BY <1>3, <1>5, <1>6

LEMMA ListSnapshotKeeps ==
    ASSUME RebuildInv, ListSnapshot
    PROVE  RebuildInv'
  <1>0. PICK s : s = SetToSeq(Visible)
    OBVIOUS
  <1>1. /\ UNCHANGED vars /\ rebuild.step = "snapshot"
        /\ rebuild' = [rebuild EXCEPT !.step = "read", !.todo = s, !.seen = CommittedPositions]
    BY <1>0 DEF ListSnapshot, At, vars
  <1>2. /\ PipelineInv' /\ CommittedPositions' = CommittedPositions /\ raced' = raced
        /\ UNCHANGED <<points, worker, alias>>
        /\ \A f : EventsOf(f)' = EventsOf(f) /\ Document(f)' = Document(f)
    BY <1>1, RunAlone
  <1>3. RebuildTypes /\ AliasHolds /\ CopyHolds
    BY DEF RebuildInv
  <1>4. s \in Seq(Fragments) /\ ToSet(s) = Visible
    BY <1>0, VisibleListed
  <1>5. /\ rebuild'.step = "read" /\ rebuild'.todo = s /\ rebuild'.exposed = rebuild.exposed
        /\ RebuildTypes'
    BY <1>1, <1>2, <1>3, <1>4 DEF RebuildTypes, CopySteps
  <1>6. AliasHolds'
    BY <1>1, <1>2, <1>3, <1>5 DEF AliasHolds, CopySteps
  <1>7. \A f \in Fragments : f \in ToSet(s) \/ points[Target][f] = Document(f)
    BY <1>1, <1>3, <1>4 DEF CopyHolds, Visible
  <1>8. ToSet(rebuild'.todo) = ToSet(s)
    BY <1>5
  <1>9. CopyHolds'
    BY <1>2, <1>5, <1>7, <1>8 DEF CopyHolds
  <1> QED
    BY <1>2, <1>5, <1>6, <1>9 DEF RebuildInv

LEMMA ReadDocumentKeeps ==
    ASSUME RebuildInv, ReadDocument
    PROVE  RebuildInv'
  <1>1. /\ UNCHANGED vars /\ rebuild.step = "read" /\ rebuild.todo # <<>>
        /\ rebuild' = [rebuild EXCEPT !.step = "store", !.loaded = Document(Head(rebuild.todo))]
    BY DEF ReadDocument, At, vars
  <1>2. /\ PipelineInv' /\ CommittedPositions' = CommittedPositions /\ raced' = raced
        /\ UNCHANGED <<points, worker, alias>>
        /\ \A f : EventsOf(f)' = EventsOf(f) /\ Document(f)' = Document(f)
    BY <1>1, RunAlone
  <1>3. RebuildTypes /\ AliasHolds /\ CopyHolds /\ CatalogTypes
    BY DEF RebuildInv, PipelineInv, CatalogInv
  <1>4. PICK d \in Contents : d = Document(Head(rebuild.todo))
    <2>1. rebuild.todo \in Seq(Fragments)
      BY <1>3 DEF RebuildTypes
    <2>2. Head(rebuild.todo) \in Fragments
      BY <1>1, <2>1
    <2> QED
      BY <1>3, <2>2, DocumentContents
  <1>5. /\ rebuild'.step = "store" /\ rebuild'.todo = rebuild.todo /\ rebuild'.loaded = d
        /\ rebuild'.exposed = rebuild.exposed /\ rebuild'.seen = rebuild.seen /\ RebuildTypes'
    BY <1>1, <1>2, <1>3, <1>4 DEF RebuildTypes, CopySteps
  <1>6. AliasHolds'
    BY <1>1, <1>2, <1>3, <1>5 DEF AliasHolds, CopySteps
  <1>7. \A f \in Fragments \ raced : HasRead(f) => f \in ToSet(rebuild.todo) \/ points[Target][f] = Document(f)
    BY <1>1, <1>3 DEF CopyHolds
  <1>8. \A f : HasRead(f)' = HasRead(f)
    BY <1>2, <1>5 DEF HasRead
  <1>9. CopyHolds'
    BY <1>1, <1>2, <1>4, <1>5, <1>7, <1>8 DEF CopyHolds
  <1> QED
    BY <1>2, <1>5, <1>6, <1>9 DEF RebuildInv

LEMMA StoreDocumentKeeps ==
    ASSUME RebuildInv, StoreDocument
    PROVE  /\ RebuildInv' /\ UNCHANGED <<catalogVars, stream, alias, consumer, worker, indexed, termed, dropped>>
           /\ points'[alias] = points[alias] /\ rebuild'.exposed = rebuild.exposed
  <1>0. RebuildTypes /\ AliasHolds /\ CopyHolds /\ PipelineInv
    BY DEF RebuildInv
  <1>1. /\ UNCHANGED <<catalogVars, stream, alias, consumer, worker, indexed, termed, dropped>>
        /\ rebuild.step = "store" /\ rebuild.todo # <<>>
    BY <1>0 DEF StoreDocument, CopyHolds
  <1>2. rebuild.todo \in Seq(Fragments)
    BY <1>0 DEF RebuildTypes
  <1>3. PICK f \in Fragments, s \in Seq(Fragments) :
           /\ f = Head(rebuild.todo) /\ s = Tail(rebuild.todo) /\ ToSet(rebuild.todo) \subseteq {f} \cup ToSet(s)
    <2>1. Head(rebuild.todo) \in Fragments /\ Tail(rebuild.todo) \in Seq(Fragments)
      BY <1>1, <1>2
    <2>2. ToSet(rebuild.todo) \subseteq {Head(rebuild.todo)} \cup ToSet(Tail(rebuild.todo))
      <3>1. ASSUME NEW n \in 1..Len(rebuild.todo) PROVE rebuild.todo[n] \in {Head(rebuild.todo)} \cup ToSet(Tail(rebuild.todo))
        <4>1. CASE n = 1
          BY <4>1
        <4>2. CASE n # 1
          <5>1. n - 1 \in 1..Len(Tail(rebuild.todo)) /\ Tail(rebuild.todo)[n - 1] = rebuild.todo[n]
            BY <1>1, <1>2, <3>1, <4>2
          <5>2. n - 1 \in DOMAIN Tail(rebuild.todo)
            BY <2>1, <5>1
          <5> QED
            BY <5>1, <5>2 DEF ToSet
        <4> QED
          BY <4>1, <4>2
      <3> QED
        BY <1>2, <3>1 DEF ToSet
    <2> QED
      BY <2>1, <2>2
  <1>4. /\ points' = [points EXCEPT ![Target][f] = rebuild.loaded]
        /\ rebuild' = [rebuild EXCEPT !.step = "read", !.todo = s]
    BY <1>3 DEF StoreDocument
  <1>5. points \in [Collections -> [Fragments -> Contents]] /\ rebuild.loaded \in Contents
    BY <1>0 DEF PipelineInv, IndexTypes, RebuildTypes
  <1>6. /\ points'[Target][f] = rebuild.loaded /\ \A g \in Fragments \ {f} : points'[Target][g] = points[Target][g]
        /\ points'[Initial] = points[Initial]
    BY <1>4, <1>5, InitialAssumption, TargetAssumption
  <1>7. /\ CommittedPositions' = CommittedPositions /\ raced' = raced
        /\ \A g : EventsOf(g)' = EventsOf(g) /\ Document(g)' = Document(g)
    BY <1>1, SameView
  <1>8. PipelineInv'
    <2>1. Puts(Target, f, rebuild.loaded)
      BY <1>4, <1>5, TargetAssumption DEF Puts
    <2>2. consumer' \in Consumer /\ Queued' /\ termed' \cup dropped' \subseteq CommittedPositions
      BY <1>0, <1>1 DEF PipelineInv, IndexTypes, IndexHolds, Queued
    <2>3. \E c \in Collections : \E g \in Fragments : \E d \in Contents : Puts(c, g, d)
      BY <1>5, <2>1, TargetAssumption
    <2> QED
      BY <1>0, <1>1, <2>2, <2>3, PipelineKeeps
  <1>9. /\ rebuild'.step = "read" /\ rebuild'.todo = s /\ rebuild'.exposed = rebuild.exposed
        /\ rebuild'.seen = rebuild.seen /\ RebuildTypes'
    BY <1>0, <1>3, <1>4, <1>7 DEF RebuildTypes, CopySteps
  <1>10. AliasHolds' /\ alias = Initial
    BY <1>0, <1>1, <1>9 DEF AliasHolds, CopySteps
  <1>11. \A g : HasRead(g)' = HasRead(g)
    BY <1>7, <1>9 DEF HasRead
  <1>12. \A g \in Fragments \ raced : HasRead(g) =>
            /\ g \in {f} \cup ToSet(s) \/ points[Target][g] = Document(g)
            /\ g = f => rebuild.loaded = Document(g)
    BY <1>0, <1>1, <1>3 DEF CopyHolds
  <1>13. \A g \in Fragments \ raced : HasRead(g) => g \in ToSet(s) \/ points'[Target][g] = Document(g)
    BY <1>6, <1>12
  <1>14. ToSet(rebuild'.todo) = ToSet(s)
    BY <1>9
  <1>15. CopyHolds'
    BY <1>7, <1>9, <1>11, <1>13, <1>14 DEF CopyHolds
  <1> QED
    BY <1>1, <1>6, <1>8, <1>9, <1>10, <1>15 DEF RebuildInv
\* The committed events past the cursor, in order of position, are all there.
LEMMA MissingListed ==
    ASSUME CatalogInv, NEW order \in [1..Cardinality(Missing) -> Missing],
           \A m, n \in DOMAIN order : m < n => order[m] < order[n]
    PROVE  /\ Cardinality(Missing) \in Nat /\ \A p \in Missing : \E n \in DOMAIN order : order[n] = p
           /\ [n \in DOMAIN order |-> EventAt(order[n]).fragment] \in Seq(Fragments)
  <1> DEFINE C == Cardinality(Missing)
  <1>1. IsFiniteSet(Missing) /\ Missing \subseteq CommittedPositions
    <2>1. \A p \in CommittedPositions : p \in 1..MaxPosition
      <3>1. \A p \in CommittedPositions : \E e \in Event : e.position = p
        BY EventAtIs
      <3> QED
        BY <3>1 DEF Event
    <2>2. IsFiniteSet(1..MaxPosition)
      BY BoundsAssumption, FS_Interval
    <2> QED
      BY <2>1, <2>2, FS_Subset DEF Missing
  <1>2. C \in Nat /\ IsFiniteSet(1..C) /\ Cardinality(1..C) = C
    BY <1>1, FS_CardinalityType, FS_Interval
  <1>3. \A p \in CommittedPositions : EventAt(p).fragment \in Fragments /\ p \in Nat
    BY EventAtIs, BoundsAssumption DEF Event
  <1>4. \A m, n \in 1..C : order[m] = order[n] => m = n
    BY <1>1, <1>2, <1>3
  <1>5. order \in Injection(1..C, Missing)
    BY <1>4 DEF Injection, IsInjective
  <1>6. order \in Surjection(1..C, Missing)
    BY <1>1, <1>2, <1>5, FS_Injection
  <1>7. [n \in DOMAIN order |-> EventAt(order[n]).fragment] \in [1..C -> Fragments]
    BY <1>1, <1>3
  <1> HIDE DEF C
  <1>8. [n \in DOMAIN order |-> EventAt(order[n]).fragment] \in Seq(Fragments)
    <2>1. PICK s : s = [n \in DOMAIN order |-> EventAt(order[n]).fragment]
      OBVIOUS
    <2>2. s \in [1..C -> Fragments]
      BY <1>7, <2>1
    <2>3. s \in Seq(Fragments)
      BY <1>2, <2>2
    <2> QED
      BY <2>1, <2>3
  <1>9. \A p \in Missing : \E n \in 1..C : order[n] = p
    BY <1>6 DEF Surjection
  <1> QED
    BY <1>2, <1>8, <1>9 DEF C

LEMMA CatchUpKeeps ==
    ASSUME RebuildInv, CatchUp
    PROVE  RebuildInv'
  <1>1. /\ UNCHANGED vars /\ rebuild.step = "read" /\ rebuild.todo = <<>>
        /\ \E order \in [1..Cardinality(Missing) -> Missing] :
              /\ \A m, n \in DOMAIN order : m < n => order[m] < order[n]
              /\ rebuild' = [rebuild EXCEPT
                              !.cursor = HighWater,
                              !.todo = [n \in DOMAIN order |-> EventAt(order[n]).fragment],
                              !.seen = rebuild.seen \cup Missing]
    BY DEF CatchUp, At, vars
  <1>2. /\ PipelineInv' /\ CommittedPositions' = CommittedPositions /\ raced' = raced
        /\ UNCHANGED <<points, worker, alias>>
        /\ \A f : EventsOf(f)' = EventsOf(f) /\ Document(f)' = Document(f)
    BY <1>1, RunAlone
  <1>3. RebuildTypes /\ AliasHolds /\ CopyHolds /\ CatalogInv
    BY DEF RebuildInv, PipelineInv
  <1>4. PICK order \in [1..Cardinality(Missing) -> Missing] :
              /\ \A m, n \in DOMAIN order : m < n => order[m] < order[n]
              /\ rebuild' = [rebuild EXCEPT
                              !.cursor = HighWater,
                              !.todo = [n \in DOMAIN order |-> EventAt(order[n]).fragment],
                              !.seen = rebuild.seen \cup Missing]
    BY <1>1
  <1>5. PICK s \in Seq(Fragments) : s = [n \in DOMAIN order |-> EventAt(order[n]).fragment]
    BY <1>3, <1>4, MissingListed
  <1>6. \A p \in Missing : EventAt(p).fragment \in ToSet(s)
    BY <1>3, <1>4, <1>5, MissingListed DEF ToSet
  <1>7. Missing \subseteq CommittedPositions
    BY DEF Missing
  <1>8. /\ rebuild'.step = "read" /\ rebuild'.todo = s /\ rebuild'.exposed = rebuild.exposed
        /\ rebuild'.seen = rebuild.seen \cup Missing /\ RebuildTypes'
    BY <1>1, <1>2, <1>3, <1>4, <1>5, <1>7 DEF RebuildTypes, CopySteps
  <1>9. AliasHolds'
    BY <1>1, <1>2, <1>3, <1>8 DEF AliasHolds, CopySteps
  <1>10. \A f \in Fragments \ raced : HasRead(f) => points[Target][f] = Document(f)
    BY <1>1, <1>3 DEF CopyHolds, ToSet
  <1>11. ASSUME NEW f \in Fragments \ raced, HasRead(f)' PROVE f \in ToSet(s) \/ points[Target][f] = Document(f)
    <2>1. CASE HasRead(f)
      BY <1>10, <2>1
    <2>2. CASE ~ HasRead(f)
      <3>1. PICK e \in EventsOf(f) : e.position \notin rebuild.seen
        BY <2>2 DEF HasRead
      <3>2. e.position \in Missing
        BY <1>2, <1>8, <1>11, <3>1 DEF HasRead
      <3>3. EventAt(e.position) = e /\ e.fragment = f
        BY <1>3, <3>1, EventAtIs DEF EventsOf
      <3> QED
        BY <1>6, <3>2, <3>3
    <2> QED
      BY <2>1, <2>2
  <1>12. ToSet(rebuild'.todo) = ToSet(s)
    BY <1>8
  <1>13. CopyHolds'
    BY <1>2, <1>8, <1>11, <1>12 DEF CopyHolds
  <1> QED
    BY <1>2, <1>8, <1>9, <1>13 DEF RebuildInv

\* From the last read of the log the run's data stay as they are, until the alias moves.
LEMMA LaterStepsKeep ==
    ASSUME RebuildInv, UNCHANGED vars, UNCHANGED <<rebuild.todo, rebuild.loaded, rebuild.seen, rebuild.exposed>>,
           rebuild' \in [step : CopySteps \cup {"mark", "over"}, status : {"none", "running", "ready", "failed"},
                         cursor : {rebuild'.cursor}, todo : {rebuild.todo}, loaded : {rebuild.loaded},
                         counts : {rebuild'.counts}, seen : {rebuild.seen}, exposed : {rebuild.exposed}],
           \/ rebuild'.step = "over"
           \/ rebuild.step = "read" /\ rebuild.todo = <<>> /\ rebuild'.step = "count"
           \/ rebuild.step = "count" /\ rebuild'.step \in {"count", "switch"}
    PROVE  RebuildInv'
  <1>1. /\ PipelineInv' /\ CommittedPositions' = CommittedPositions /\ raced' = raced
        /\ UNCHANGED <<points, worker, alias>>
        /\ \A f : EventsOf(f)' = EventsOf(f) /\ Document(f)' = Document(f)
    BY RunAlone
  <1>2. RebuildTypes /\ AliasHolds /\ CopyHolds
    BY DEF RebuildInv
  <1>3. RebuildTypes'
    BY <1>1, <1>2 DEF RebuildTypes
  <1>4. AliasHolds'
    BY <1>1, <1>2 DEF AliasHolds, CopySteps
  <1>5. \A f : HasRead(f)' = HasRead(f)
    BY <1>1 DEF HasRead
  <1>6. CopyHolds'
    BY <1>1, <1>2, <1>5 DEF CopyHolds
  <1> QED
    BY <1>1, <1>3, <1>4, <1>6 DEF RebuildInv

LEMMA EndKeeps ==
    ASSUME RebuildInv, CaughtUp \/ (\E which \in {1, 2} : Count(which)) \/ MarkReady \/ FailRebuild \/ CrashRebuild
    PROVE  /\ RebuildInv' /\ UNCHANGED vars /\ rebuild'.exposed = rebuild.exposed
  <1>0. RebuildTypes
    BY DEF RebuildInv
  <1>1. CASE CaughtUp
    <2>1. /\ UNCHANGED vars /\ rebuild.step = "read" /\ rebuild.todo = <<>>
          /\ rebuild' = [rebuild EXCEPT !.step = "count"]
      BY <1>1 DEF CaughtUp, At, vars
    <2>2. /\ UNCHANGED <<rebuild.todo, rebuild.loaded, rebuild.seen, rebuild.exposed>> /\ rebuild'.step = "count"
          /\ rebuild' \in [step : CopySteps \cup {"mark", "over"}, status : {"none", "running", "ready", "failed"},
                           cursor : {rebuild'.cursor}, todo : {rebuild.todo}, loaded : {rebuild.loaded},
                           counts : {rebuild'.counts}, seen : {rebuild.seen}, exposed : {rebuild.exposed}]
      BY <1>0, <2>1 DEF RebuildTypes, CopySteps
    <2> QED
      BY <2>1, <2>2, LaterStepsKeep
  <1>2. ASSUME NEW which \in {1, 2}, Count(which)
        PROVE  /\ RebuildInv' /\ UNCHANGED vars /\ rebuild'.exposed = rebuild.exposed
    <2>1. PICK c, s : /\ UNCHANGED vars /\ rebuild.step = "count" /\ s \in {"count", "switch"}
                      /\ rebuild' = [rebuild EXCEPT !.counts = c, !.step = s]
      BY <1>2 DEF Count, At, vars
    <2>2. /\ UNCHANGED <<rebuild.todo, rebuild.loaded, rebuild.seen, rebuild.exposed>> /\ rebuild'.step = s
          /\ rebuild' \in [step : CopySteps \cup {"mark", "over"}, status : {"none", "running", "ready", "failed"},
                           cursor : {rebuild'.cursor}, todo : {rebuild.todo}, loaded : {rebuild.loaded},
                           counts : {rebuild'.counts}, seen : {rebuild.seen}, exposed : {rebuild.exposed}]
      BY <1>0, <2>1 DEF RebuildTypes, CopySteps
    <2> QED
      BY <2>1, <2>2, LaterStepsKeep
  <1>3. CASE MarkReady \/ FailRebuild \/ CrashRebuild
    <2>1. PICK s \in {"none", "running", "ready", "failed"} :
             /\ UNCHANGED vars
             /\ rebuild' = [rebuild EXCEPT !.step = "over", !.status = s]
      <3>1. CASE MarkReady
        BY <3>1 DEF MarkReady, At, vars
      <3>2. CASE FailRebuild
        BY <3>2 DEF FailRebuild, At, vars
      <3>3. CASE CrashRebuild
        <4>1. UNCHANGED vars /\ rebuild' = [rebuild EXCEPT !.step = "over"]
          BY <3>3 DEF CrashRebuild, At, vars
        <4>2. rebuild.status \in {"none", "running", "ready", "failed"}
              /\ rebuild' = [rebuild EXCEPT !.step = "over", !.status = rebuild.status]
          BY <1>0, <4>1 DEF RebuildTypes
        <4> QED
          BY <4>1, <4>2
      <3> QED
        BY <1>3, <3>1, <3>2, <3>3
    <2>2. /\ UNCHANGED <<rebuild.todo, rebuild.loaded, rebuild.seen, rebuild.exposed>> /\ rebuild'.step = "over"
          /\ rebuild' \in [step : CopySteps \cup {"mark", "over"}, status : {"none", "running", "ready", "failed"},
                           cursor : {rebuild'.cursor}, todo : {rebuild.todo}, loaded : {rebuild.loaded},
                           counts : {rebuild'.counts}, seen : {rebuild.seen}, exposed : {rebuild.exposed}]
      BY <1>0, <2>1 DEF RebuildTypes
    <2> QED
      BY <2>1, <2>2, LaterStepsKeep
  <1> QED
    BY <1>1, <1>2, <1>3

----------------------------------------------------------------------------
(* The move of the alias.                                                  *)

LEMMA PositionsRead ==
    ASSUME CatalogInv
    PROVE  \A f : PositionsOf(f) \subseteq rebuild.seen => HasRead(f)
  <1> SUFFICES ASSUME NEW f, PositionsOf(f) \subseteq rebuild.seen, NEW e \in EventsOf(f)
               PROVE  e.position \in rebuild.seen
    BY DEF HasRead
  <1>1. e.position \in CommittedPositions /\ EventAt(e.position) = e /\ e.fragment = f
    BY EventAtIs DEF EventsOf
  <1> QED
    BY <1>1 DEF PositionsOf

\* What the run has read is in the target when the alias moves.
LEMMA ReadIsCopied ==
    ASSUME RebuildInv, rebuild.step = "switch", NEW f \in Fragments \ raced,
           PositionsOf(f) \subseteq rebuild.seen
    PROVE  points[Target][f] = Document(f)
  <1>1. CopyHolds /\ CatalogInv
    BY DEF RebuildInv, PipelineInv
  <1>2. HasRead(f)
    BY <1>1, PositionsRead
  <1>3. f \in ToSet(rebuild.todo) \/ points[Target][f] = Document(f)
    BY <1>1, <1>2 DEF CopyHolds
  <1>4. ToSet(rebuild.todo) = {}
    BY <1>1 DEF CopyHolds, ToSet
  <1> QED
    BY <1>3, <1>4

LEMMA SwitchFacts ==
    ASSUME RebuildInv, SwitchAlias
    PROVE  /\ UNCHANGED <<catalogVars, stream, consumer, worker, indexed, points, termed, dropped>>
           /\ rebuild.step = "switch" /\ alias = Initial /\ alias' = Target
           /\ rebuild'.exposed = {f \in Fragments : ~(PositionsOf(f) \subseteq rebuild.seen)}
           /\ RebuildInv'
  <1>1. /\ UNCHANGED <<catalogVars, stream, consumer, worker, indexed, points, termed, dropped>>
        /\ rebuild.step = "switch" /\ alias' = Target
        /\ rebuild' = [rebuild EXCEPT
                        !.step = "mark",
                        !.exposed = {f \in Fragments : ~(PositionsOf(f) \subseteq rebuild.seen)}]
    BY DEF SwitchAlias, At, indexVars
  <1>2. PipelineInv /\ RebuildTypes /\ AliasHolds
    BY DEF RebuildInv
  <1>3. alias = Initial
    BY <1>1, <1>2 DEF AliasHolds, CopySteps
  <1>4. PICK E \in SUBSET Fragments : E = {f \in Fragments : ~(PositionsOf(f) \subseteq rebuild.seen)}
    OBVIOUS
  <1>5. rebuild' = [rebuild EXCEPT !.step = "mark", !.exposed = E]
    BY <1>1, <1>4
  <1>6. /\ CommittedPositions' = CommittedPositions /\ \A f : EventsOf(f)' = EventsOf(f)
    BY <1>1, SameView
  <1>7. rebuild'.step = "mark" /\ rebuild'.exposed = E /\ RebuildTypes'
    BY <1>2, <1>5, <1>6 DEF RebuildTypes
  <1>8. AliasHolds' /\ CopyHolds'
    BY <1>1, <1>7, TargetAssumption DEF AliasHolds, CopyHolds, CopySteps
  <1>9. CatalogInv'
    BY <1>1, <1>2, CatalogStep DEF PipelineInv
  <1>10. IndexTypes'
    BY <1>1, <1>2, <1>6, TargetAssumption DEF PipelineInv, IndexTypes
  <1>11. IndexHolds'
    BY <1>1, <1>2, <1>6 DEF PipelineInv, IndexHolds, Queued
  <1> QED
    BY <1>1, <1>3, <1>4, <1>7, <1>8, <1>9, <1>10, <1>11 DEF RebuildInv, PipelineInv

\* From then on only what the run had not read can differ from the catalog.
LEMMA SwitchExposes ==
    ASSUME RebuildInv, SwitchAlias, IndexerInv({}), NEW X, rebuild'.exposed = X
    PROVE  IndexerInv(X)'
  <1>1. /\ UNCHANGED <<catalogVars, stream, consumer, worker, indexed, points, termed, dropped>>
        /\ rebuild.step = "switch" /\ alias = Initial /\ alias' = Target
        /\ X = {f \in Fragments : ~(PositionsOf(f) \subseteq rebuild.seen)}
        /\ PipelineInv'
    BY SwitchFacts DEF RebuildInv
  <1>2. /\ PipelineInv /\ WorkerHolds({}) /\ AppliedHolds({}) /\ SettledHolds({})
    BY DEF IndexerInv
  <1>3. \A f \in Fragments \ (raced \cup X) : points[Target][f] = Document(f)
    BY <1>1, ReadIsCopied
  <1>4. /\ \A g : EventsOf(g)' = EventsOf(g) /\ Document(g)' = Document(g) /\ RowExists(g)' = RowExists(g)
        /\ \A e : Latest(e)' = Latest(e)
        /\ \A p : EventAt(p)' = EventAt(p)
        /\ raced' = raced
    BY <1>1, SameView
  <1>5. \A f \in Fragments \ (raced \cup X) : Shows(f)'
    BY <1>1, <1>3, <1>4 DEF Shows
  <1>6. /\ \A i \in Indexers : EventOf(i)' = EventOf(i)
        /\ \A e : SettledEvent(e)' = SettledEvent(e)
        /\ \A f : GivenUp(f)' = GivenUp(f)
    BY <1>1, <1>4 DEF EventOf, SettledEvent, GivenUp
  <1>7. \A i \in Indexers : AlreadyApplied(i)' = AlreadyApplied(i) /\ FragmentOf(i)' = FragmentOf(i)
    BY <1>1, <1>6 DEF AlreadyApplied, FragmentOf, PositionOf
  <1>8. WorkerHolds(X)'
    <2> SUFFICES ASSUME NEW i \in Indexers, worker'[i].step # "idle"
                 PROVE  /\ worker'[i].step \in {"load", "pend", "write", "erase", "apply"} => ~ AlreadyApplied(i)'
                        /\ FragmentOf(i)' \notin raced' \cup X =>
                             \A e \in EventsOf(FragmentOf(i))' :
                               Latest(e)' /\ (e = EventOf(i)' \/ (SettledEvent(e)' /\ ~ GivenUp(FragmentOf(i))')) => Holds(i)'
      BY <1>6, <1>7 DEF WorkerHolds
    <2>1. worker[i].step # "idle" /\ worker' = worker
      BY <1>1
    <2>2. worker'[i].step \in {"load", "pend", "write", "erase", "apply"} => ~ AlreadyApplied(i)'
      BY <1>2, <1>7, <2>1 DEF WorkerHolds
    <2>3. ASSUME FragmentOf(i)' \notin raced' \cup X, NEW e \in EventsOf(FragmentOf(i))', Latest(e)',
                 e = EventOf(i)' \/ (SettledEvent(e)' /\ ~ GivenUp(FragmentOf(i))')
          PROVE  Holds(i)'
      <3>1. PICK f \in Fragments : f = FragmentOf(i)
        BY <1>2, <2>1, AtWork
      <3>2. f \in Fragments \ (raced \cup X) /\ FragmentOf(i)' = f
        BY <1>4, <1>7, <2>3, <3>1
      <3>3. /\ EventsOf(FragmentOf(i))' = EventsOf(f) /\ GivenUp(FragmentOf(i))' = GivenUp(f)
        BY <1>4, <1>6, <3>2 DEF EventsOf, GivenUp
      <3>4. e \in EventsOf(f) /\ Latest(e) /\ (e = EventOf(i) \/ (SettledEvent(e) /\ ~ GivenUp(f)))
        BY <1>4, <1>6, <2>3, <3>3
      <3>5. Holds(i)
        BY <1>2, <2>1, <3>1, <3>2, <3>4 DEF WorkerHolds
      <3>6. Shows(FragmentOf(i))'
        BY <1>5, <3>2 DEF Shows
      <3>7. Document(FragmentOf(i))' = Document(FragmentOf(i)) /\ RowExists(FragmentOf(i))' = RowExists(FragmentOf(i))
        BY <1>4, <3>1, <3>2 DEF Document, RowExists
      <3> QED
        BY <1>7, <2>1, <3>5, <3>6, <3>7 DEF Holds
    <2> QED
      BY <2>2, <2>3
  <1>9. AppliedHolds(X)' /\ SettledHolds(X)'
    BY <1>1, <1>2, <1>4, <1>5, <1>6 DEF AppliedHolds, SettledHolds
  <1> QED
    BY <1>1, <1>8, <1>9 DEF IndexerInv

LEMMA RebuildStep ==
    ASSUME RebuildInv, [RebuildNext]_rebuildVars
    PROVE  RebuildInv'
  <1>1. CASE Next /\ UNCHANGED rebuild
    BY <1>1, BesideKeeps
  <1>2. CASE UNCHANGED rebuildVars
    BY <1>2, BesideKeeps DEF rebuildVars
  <1>3. CASE StartRebuild
    BY <1>3, StartKeeps
  <1>4. CASE ListSnapshot
    BY <1>4, ListSnapshotKeeps
  <1>5. CASE ReadDocument
    BY <1>5, ReadDocumentKeeps
  <1>6. CASE StoreDocument
    BY <1>6, StoreDocumentKeeps
  <1>7. CASE CatchUp
    BY <1>7, CatchUpKeeps
  <1>8. CASE SwitchAlias
    BY <1>8, SwitchFacts
  <1>9. CASE CaughtUp \/ (\E which \in {1, 2} : Count(which)) \/ MarkReady \/ FailRebuild \/ CrashRebuild
    BY <1>9, EndKeeps
  <1> QED
    BY <1>1, <1>2, <1>3, <1>4, <1>5, <1>6, <1>7, <1>8, <1>9 DEF RebuildNext, RunRebuild

\* Beside any number of indexers, until the alias moves nobody but the run writes to the
\* fresh collection, which holds what the catalog shows of every fragment of which the run
\* has read all committed events, but for those still to be indexed
\* (rebuild-semantic-search.ts).
THEOREM RebuildInvariant == RebuildSpec => []RebuildInv
  <1>1. RebuildInit => RebuildInv
    BY RebuildInitHolds
  <1>2. RebuildInv /\ [RebuildNext]_rebuildVars => RebuildInv'
    BY RebuildStep
  <1> QED
    BY <1>1, <1>2, PTL DEF RebuildSpec

\* Beside any number of indexers, when the alias moves every fragment whose committed
\* events the run has read is in the new collection as the catalog shows it (the snapshot
\* and catchUpEvents of rebuild-semantic-search.ts).
THEOREM SwitchIsCurrent == RebuildSpec => TargetIsCurrentAtSwitch
  <1> DEFINE Current ==
               SwitchAlias => \A f \in Fragments \ raced :
                 PositionsOf(f) \subseteq rebuild.seen => points[Target][f] = Document(f)
  <1>1. RebuildInv => Current
    BY ReadIsCopied DEF SwitchAlias, At
  <1>2. RebuildInv /\ [RebuildNext]_rebuildVars => [Current]_rebuildVars
    BY <1>1
  <1> QED
    BY <1>2, RebuildInvariant, PTL DEF TargetIsCurrentAtSwitch, RebuildSpec

\* What holds of the index with one indexer holds of all but the exposed fragments.
ServedInv == \E X \in SUBSET Fragments : rebuild.exposed = X /\ IndexerInv(X)

LEMMA ServedStep ==
    ASSUME OneIndexer, RebuildInv, ServedInv, [RebuildNext]_rebuildVars
    PROVE  ServedInv'
  <1>1. PICK X \in SUBSET Fragments : rebuild.exposed = X /\ IndexerInv(X)
    BY DEF ServedInv
  <1>2. RebuildInv'
    BY RebuildStep
  <1>3. CASE [Next]_vars /\ rebuild'.exposed = rebuild.exposed
    BY <1>1, <1>3, IndexerStep DEF ServedInv
  <1>4. CASE StoreDocument
    <2>1. /\ UNCHANGED <<catalogVars, stream, alias, consumer, worker, indexed, termed, dropped>>
          /\ points'[alias] = points[alias] /\ rebuild'.exposed = X
      BY <1>1, <1>4, StoreDocumentKeeps
    <2>2. /\ \A g : EventsOf(g)' = EventsOf(g) /\ Document(g)' = Document(g) /\ RowExists(g)' = RowExists(g)
          /\ \A e : Latest(e)' = Latest(e)
          /\ \A p : EventAt(p)' = EventAt(p)
          /\ raced' = raced
      BY <2>1, SameView
    <2>3. /\ \A i \in Indexers : EventOf(i)' = EventOf(i)
          /\ \A e : SettledEvent(e)' = SettledEvent(e)
          /\ \A f : GivenUp(f)' = GivenUp(f)
      BY <2>1, <2>2 DEF EventOf, SettledEvent, GivenUp
    <2>4. PipelineInv'
      BY <1>2 DEF RebuildInv
    <2>5. WorkerHolds(X)' /\ AppliedHolds(X)' /\ SettledHolds(X)'
      BY <1>1, <2>1, <2>2, <2>3, <2>4, Undisturbed
    <2> QED
      BY <2>1, <2>4, <2>5 DEF IndexerInv, ServedInv
  <1>5. CASE SwitchAlias
    <2>1. rebuild.exposed = {} /\ rebuild' \in [step : {rebuild'.step}, status : {rebuild'.status},
                                     cursor : {rebuild'.cursor}, todo : {rebuild'.todo}, loaded : {rebuild'.loaded},
                                     counts : {rebuild'.counts}, seen : {rebuild'.seen}, exposed : SUBSET Fragments]
      BY <1>2, <1>5, SwitchFacts DEF RebuildInv, RebuildTypes, AliasHolds
    <2>2. PICK Y \in SUBSET Fragments : rebuild'.exposed = Y
      BY <2>1
    <2>3. IndexerInv(Y)'
      BY <1>1, <1>5, <2>1, <2>2, SwitchExposes
    <2> QED
      BY <2>2, <2>3 DEF ServedInv
  <1>6. CASE Next /\ UNCHANGED rebuild
    BY <1>3, <1>6
  <1>7. CASE UNCHANGED rebuildVars
    BY <1>3, <1>7 DEF rebuildVars
  <1>8. CASE StartRebuild \/ ListSnapshot \/ ReadDocument \/ CatchUp
    <2>1. UNCHANGED vars
      BY <1>8 DEF StartRebuild, ListSnapshot, ReadDocument, CatchUp, At, vars
    <2>2. rebuild'.exposed = rebuild.exposed
      BY <1>8 DEF RebuildInv, RebuildTypes, StartRebuild, ListSnapshot, ReadDocument, CatchUp
    <2> QED
      BY <1>3, <2>1, <2>2
  <1>9. CASE CaughtUp \/ (\E which \in {1, 2} : Count(which)) \/ MarkReady \/ FailRebuild \/ CrashRebuild
    BY <1>3, <1>9, EndKeeps
  <1> QED
    BY <1>4, <1>5, <1>6, <1>7, <1>8, <1>9 DEF RebuildNext, RunRebuild

\* With one indexer, the move of the alias is sound: the new collection is current in what
\* the run has read, and once everything committed was delivered and processed the active
\* collection equals the catalog, but for what was written between the run's last read of
\* the log and the move (catchUpEvents and setAlias of rebuild-semantic-search.ts), what
\* was given up, and what was written while a save of the whole source was open.
THEOREM RebuildIsSound == OneIndexer => (RebuildSpec => SwitchIsSound)
  <1> SUFFICES ASSUME OneIndexer PROVE RebuildSpec => SwitchIsSound
    OBVIOUS
  <1>1. RebuildInit => ServedInv
    <2> SUFFICES ASSUME RebuildInit PROVE ServedInv
      OBVIOUS
    <2>1. Init /\ rebuild.exposed = {}
      BY DEF RebuildInit
    <2>2. IndexerInv({})
      BY <2>1, IndexerInitHolds
    <2>3. {} \in SUBSET Fragments
      OBVIOUS
    <2> QED
      BY <2>1, <2>2, <2>3 DEF ServedInv
  <1>2. RebuildInv /\ ServedInv /\ [RebuildNext]_rebuildVars => ServedInv'
    BY ServedStep
  <1>3. ServedInv => SwitchLosesOnlyExposed
    <2> SUFFICES ASSUME NEW X \in SUBSET Fragments, rebuild.exposed = X, IndexerInv(X), Quiet,
                        NEW f \in Fragments \ (raced \cup X), ~ GivenUp(f)
                 PROVE  points[alias][f] = Document(f)
      BY DEF ServedInv, SwitchLosesOnlyExposed
    <2> QED
      BY QuietShows
  <1> QED
    BY <1>1, <1>2, <1>3, RebuildInvariant, SwitchIsCurrent, PTL DEF RebuildSpec, SwitchIsSound
=============================================================================
