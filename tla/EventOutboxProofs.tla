--------------------------- MODULE EventOutboxProofs ---------------------------
(***************************************************************************)
(* Proofs about EventOutbox for any set of positions, any number of        *)
(* relays, any batch limit and any duplicate window.                       *)
(***************************************************************************)
EXTENDS EventOutbox, TLAPS

\* What ToSet (SequencesExt) holds after an append: publishing adds one event to
\* the stream and removes none.
LEMMA ToSetAppend ==
    ASSUME NEW S, NEW s \in Seq(S), NEW e \in S
    PROVE  ToSet(Append(s, e)) = ToSet(s) \cup {e}
  <1>1. Len(Append(s, e)) = Len(s) + 1 /\ Len(s) \in Nat
    OBVIOUS
  <1>2. \A i \in 1 .. Len(s) : Append(s, e)[i] = s[i]
    OBVIOUS
  <1>3. Append(s, e)[Len(s) + 1] = e
    OBVIOUS
  <1>4. DOMAIN s = 1 .. Len(s) /\ DOMAIN Append(s, e) = 1 .. Len(s) + 1
    BY <1>1
  <1>5. 1 .. Len(s) + 1 = (1 .. Len(s)) \cup {Len(s) + 1}
    BY <1>1
  <1> QED
    BY <1>2, <1>3, <1>4, <1>5 DEF ToSet

----------------------------------------------------------------------------
(* Type correctness.                                                       *)

\* Storing a message keeps the stream and the window well typed, loses nothing,
\* and leaves the message in the stream if the window remembers only messages
\* that are there.
LEMMA StoreAppends ==
    ASSUME NEW p \in Positions, TypeOK, Store(p)
    PROVE  /\ stream' \in Seq(Positions)
           /\ window' \subseteq Positions
           /\ ToSet(stream) \subseteq ToSet(stream')
           /\ window \subseteq ToSet(stream) => window' \subseteq ToSet(stream')
  <1>1. ToSet(Append(stream, p)) = ToSet(stream) \cup {p}
    BY ToSetAppend DEF TypeOK
  <1>2. CASE p \in window
    BY <1>2 DEF Store, TypeOK
  <1>3. CASE p \notin window
    BY <1>1, <1>3 DEF Store, TypeOK
  <1> QED
    BY <1>2, <1>3

\* Every state is well typed: in particular no row is ever "failed", the fourth
\* state its CHECK constraint allows and no claim would ever pick up.
THEOREM TypeCorrect == Spec => []TypeOK
  <1>1. Init => TypeOK
    BY DEF Init, TypeOK, Statuses, Phases
  <1>2. TypeOK /\ [Next]_vars => TypeOK'
    <2> SUFFICES ASSUME TypeOK, [Next]_vars PROVE TypeOK'
      OBVIOUS
    <2> USE DEF TypeOK, Statuses, Phases
    <2>1. ASSUME NEW p \in Positions, Environment(p) PROVE TypeOK'
      BY <2>1 DEF Environment, AppendEvent, BackoffPasses, LeaseLapses, WindowPasses
    <2>2. ASSUME NEW r \in Relays, Claim(r) PROVE TypeOK'
      <3>1. ClaimBatch \subseteq Positions
        BY DEF ClaimBatch, Claimable
      <3> QED
        BY <2>2, <3>1 DEF Claim
    <2>3. ASSUME NEW r \in Relays, Crash(r) PROVE TypeOK'
      BY <2>3 DEF Crash
    <2>4. ASSUME NEW r \in Relays, NEW p \in Positions,
                 PublishAcked(r, p) \/ PublishThrows(r, p)
          PROVE  TypeOK'
      <3>1. stream' \in Seq(Positions) /\ window' \subseteq Positions
        BY <2>4, StoreAppends DEF PublishAcked, PublishThrows
      <3> QED
        BY <2>4, <3>1 DEF PublishAcked, PublishThrows
    <2>5. ASSUME NEW r \in Relays, NEW p \in Positions,
                 MarkPublished(r, p) \/ MarkThrows(r, p) \/ ReleasePublication(r, p)
          PROVE  TypeOK'
      BY <2>5 DEF MarkPublished, MarkThrows, ReleasePublication, Finish
    <2>6. CASE UNCHANGED vars
      BY <2>6 DEF vars
    <2> QED
      BY <2>1, <2>2, <2>3, <2>4, <2>5, <2>6 DEF Next, Relay
  <1> QED
    BY <1>1, <1>2, PTL DEF Spec

----------------------------------------------------------------------------
(* The lease.                                                              *)

\* An event in a relay's hands whose lease never ran out is not claimable.
LeaseProtects ==
    \A p \in Positions \ lapsed : \A r \in Relays :
        p \in batch[r] => status[p] \in {"leased", "published"} /\ p \notin due

LeaseInv == TypeOK /\ LeaseProtects /\ LeaseIsExclusive /\ PublishedIsSettled

\* A batch has one lowest position, so a relay works on one event at a time.
LEMMA FirstIsUnique ==
    ASSUME NEW r \in Relays, NEW p \in Positions, NEW q \in Positions,
           IsFirst(r, p), IsFirst(r, q)
    PROVE  p = q
  BY PositionsAssumption DEF IsFirst

\* A claim takes only events in nobody's hands, save those a lease of which has
\* run out, and none that is published.
LEMMA ClaimKeepsLease ==
    ASSUME LeaseInv, NEW r \in Relays, Claim(r)
    PROVE  LeaseProtects' /\ LeaseIsExclusive' /\ PublishedIsSettled'
  <1>1. ClaimBatch \subseteq Positions
        /\ \A p \in ClaimBatch : p \in due /\ status[p] \in {"pending", "leased"}
    BY DEF ClaimBatch, Claimable, LeaseInv, TypeOK
  <1>2. \A p \in ClaimBatch \ lapsed : \A s \in Relays : p \notin batch[s]
    BY <1>1 DEF LeaseInv, LeaseProtects
  <1>3. /\ \A s \in Relays :
            batch'[s] = IF s = r THEN ClaimBatch ELSE batch[s]
        /\ \A p \in Positions :
            status'[p] = IF p \in ClaimBatch THEN "leased" ELSE status[p]
        /\ due' = due \ ClaimBatch /\ lapsed' = lapsed /\ phase' = phase
        /\ batch[r] = {}
    BY DEF Claim, LeaseInv, TypeOK
  <1>4. LeaseProtects'
    BY <1>1, <1>3 DEF LeaseInv, LeaseProtects
  <1>5. LeaseIsExclusive'
    BY <1>2, <1>3 DEF LeaseInv, LeaseIsExclusive
  <1>6. PublishedIsSettled'
    BY <1>1, <1>2, <1>3 DEF LeaseInv, PublishedIsSettled, IsFirst
  <1> QED
    BY <1>4, <1>5, <1>6

\* The lease is kept by every other step of a relay that changes rows: what it
\* writes, by event id alone, is a row nobody else holds.
LEMMA MarkKeepsLease ==
    ASSUME LeaseInv, NEW r \in Relays, NEW p \in Positions,
           MarkPublished(r, p) \/ MarkThrows(r, p) \/ ReleasePublication(r, p)
    PROVE  LeaseProtects' /\ LeaseIsExclusive' /\ PublishedIsSettled'
  <1>1. IsFirst(r, p) /\ p \in batch[r] /\ lapsed' = lapsed
    BY DEF MarkPublished, MarkThrows, ReleasePublication, IsFirst
  <1>2. \A s \in Relays : p \notin lapsed /\ p \in batch[s] => s = r
    BY <1>1 DEF LeaseInv, LeaseIsExclusive
  <1>3. /\ \A s \in Relays : batch'[s] \subseteq batch[s]
        /\ \A s \in Relays \ {r} : batch'[s] = batch[s] /\ phase'[s] = phase[s]
    BY DEF MarkPublished, MarkThrows, ReleasePublication, Finish, LeaseInv, TypeOK
  <1>4. \A q \in Positions \ {p} : status'[q] = status[q] /\ (q \in due' <=> q \in due)
    BY DEF MarkPublished, MarkThrows, ReleasePublication, LeaseInv, TypeOK
  <1>5. LeaseIsExclusive'
    BY <1>1, <1>3 DEF LeaseInv, LeaseIsExclusive
  <1>6. CASE MarkPublished(r, p) \/ ReleasePublication(r, p)
    <2>1. batch'[r] = batch[r] \ {p}
      BY <1>6 DEF MarkPublished, ReleasePublication, Finish, LeaseInv, TypeOK
    <2>2. p \notin lapsed => \A s \in Relays : p \notin batch'[s]
      BY <1>2, <1>3, <2>1
    <2>3. LeaseProtects'
      BY <1>1, <1>3, <1>4, <2>2 DEF LeaseInv, LeaseProtects
    <2>4. \A q \in Positions \ lapsed :
            status[q] = "published" /\ q \in batch[r] => q = p
      BY <1>1, FirstIsUnique DEF LeaseInv, PublishedIsSettled
    <2>5. PublishedIsSettled'
      BY <1>1, <1>3, <1>4, <2>1, <2>2, <2>4
      DEF LeaseInv, PublishedIsSettled, IsFirst
    <2> QED
      BY <1>5, <2>3, <2>5
  <1>7. CASE MarkThrows(r, p)
    <2>1. batch' = batch /\ phase'[r] = "failed" /\ phase[r] = "acked"
      BY <1>7 DEF MarkThrows, LeaseInv, TypeOK
    <2>2. \/ status'[p] = "published" /\ p \notin due'
          \/ status'[p] = status[p] /\ due' = due
      BY <1>7 DEF MarkThrows, LeaseInv, TypeOK
    <2>3. LeaseProtects'
      BY <1>1, <1>4, <2>1, <2>2 DEF LeaseInv, LeaseProtects
    <2>4. PublishedIsSettled'
      BY <1>1, <1>2, <1>3, <1>4, <2>1, <2>2
      DEF LeaseInv, PublishedIsSettled, IsFirst
    <2> QED
      BY <1>5, <2>3, <2>4
  <1> QED
    BY <1>6, <1>7

LEMMA LeaseStep == LeaseInv /\ TypeOK' /\ [Next]_vars => LeaseInv'
  <1> SUFFICES ASSUME LeaseInv, TypeOK', [Next]_vars
               PROVE  LeaseProtects' /\ LeaseIsExclusive' /\ PublishedIsSettled'
    BY DEF LeaseInv
  <1> USE DEF LeaseInv, LeaseProtects, LeaseIsExclusive, PublishedIsSettled, IsFirst
  <1>1. ASSUME NEW p \in Positions, AppendEvent(p) \/ BackoffPasses(p)
        PROVE  LeaseProtects' /\ LeaseIsExclusive' /\ PublishedIsSettled'
    BY <1>1 DEF AppendEvent, BackoffPasses, TypeOK
  <1>2. ASSUME NEW p \in Positions, LeaseLapses(p) \/ WindowPasses(p)
        PROVE  LeaseProtects' /\ LeaseIsExclusive' /\ PublishedIsSettled'
    BY <1>2 DEF LeaseLapses, WindowPasses, TypeOK
  <1>3. ASSUME NEW r \in Relays, Crash(r)
        PROVE  LeaseProtects' /\ LeaseIsExclusive' /\ PublishedIsSettled'
    BY <1>3 DEF Crash, TypeOK
  <1>4. ASSUME NEW r \in Relays, NEW p \in Positions,
               PublishAcked(r, p) \/ PublishThrows(r, p)
        PROVE  LeaseProtects' /\ LeaseIsExclusive' /\ PublishedIsSettled'
    <2>1. /\ phase[r] = "ready" /\ \A s \in Relays \ {r} : phase'[s] = phase[s]
          /\ status' = status /\ due' = due /\ batch' = batch /\ lapsed' = lapsed
      BY <1>4 DEF PublishAcked, PublishThrows, TypeOK
    <2> QED
      BY <2>1
  <1>5. CASE UNCHANGED vars
    BY <1>5 DEF vars
  <1> QED
    BY <1>1, <1>2, <1>3, <1>4, <1>5, ClaimKeepsLease, MarkKeepsLease
    DEF Next, Relay, Environment

LEMMA LeaseInvariant == Spec => []LeaseInv
  <1>1. Init /\ TypeOK => LeaseInv
    BY DEF Init, LeaseInv, LeaseProtects, LeaseIsExclusive, PublishedIsSettled
  <1> QED
    BY <1>1, LeaseStep, TypeCorrect, PTL DEF Spec

\* For every batch limit and every number of relays: until a lease of an event
\* runs out, one relay at most works on it.  LeaseProtects is what makes this
\* inductive: a held event is not due, so no claim sees it.
THEOREM LeaseCorrect == Spec => []LeaseIsExclusive
  <1>1. LeaseInv => LeaseIsExclusive
    BY DEF LeaseInv
  <1> QED
    BY <1>1, LeaseInvariant, PTL

\* And once its row is published only the relay whose own mark threw can still
\* touch it, although mark and release check no lease.
THEOREM SettledCorrect == Spec => []PublishedIsSettled
  <1>1. LeaseInv => PublishedIsSettled
    BY DEF LeaseInv
  <1> QED
    BY <1>1, LeaseInvariant, PTL

----------------------------------------------------------------------------
(* Nothing is marked published that is not in the stream.                  *)

WindowIsOnStream == window \subseteq ToSet(stream)

AckedIsOnStream ==
    \A r \in Relays, p \in Positions :
        phase[r] = "acked" /\ IsFirst(r, p) => p \in ToSet(stream)

IdleIsReady == \A r \in Relays : batch[r] = {} => phase[r] = "ready"

StreamInv ==
    /\ TypeOK
    /\ WindowIsOnStream
    /\ AckedIsOnStream
    /\ IdleIsReady
    /\ PublishedIsOnStream

\* What a publish leaves behind: its message is in the stream, which lost none,
\* and the duplicate window still remembers only messages that are there.
LEMMA PublishKeepsStream ==
    ASSUME StreamInv, NEW r \in Relays, NEW p \in Positions,
           PublishAcked(r, p) \/ PublishThrows(r, p)
    PROVE  StreamInv'
  <1>1. ToSet(stream) \subseteq ToSet(stream') /\ WindowIsOnStream'
    BY StoreAppends
    DEF PublishAcked, PublishThrows, StreamInv, WindowIsOnStream
  <1>2. stream' \in Seq(Positions) /\ window' \subseteq Positions
    BY StoreAppends DEF PublishAcked, PublishThrows, StreamInv, TypeOK
  <1>3. /\ status' = status /\ due' = due /\ batch' = batch /\ lapsed' = lapsed
        /\ phase' \in [Relays -> Phases] /\ p \in batch[r]
        /\ \A s \in Relays \ {r} : phase'[s] = phase[s]
    BY DEF PublishAcked, PublishThrows, IsFirst, StreamInv, TypeOK, Phases
  <1>4. phase'[r] = "acked" => p \in ToSet(stream')
    <2>1. ASSUME phase'[r] = "acked" PROVE p \in window'
      BY <2>1 DEF PublishAcked, PublishThrows, Store, StreamInv, TypeOK
    <2> QED
      BY <1>1, <2>1 DEF WindowIsOnStream
  <1>5. TypeOK'
    BY <1>2, <1>3 DEF StreamInv, TypeOK
  <1>6. AckedIsOnStream'
    <2> SUFFICES ASSUME NEW s \in Relays, NEW q \in Positions,
                        phase'[s] = "acked", IsFirst(s, q)'
                 PROVE  q \in ToSet(stream')
      BY DEF AckedIsOnStream
    <2>1. IsFirst(s, q)
      BY <1>3 DEF IsFirst
    <2>2. CASE s = r
      <3>1. IsFirst(r, p)
        BY DEF PublishAcked, PublishThrows
      <3> QED
        BY <1>4, <2>1, <2>2, <3>1, FirstIsUnique
    <2>3. CASE s # r
      BY <1>1, <1>3, <2>1, <2>3 DEF StreamInv, AckedIsOnStream
    <2> QED
      BY <2>2, <2>3
  <1>7. IdleIsReady' /\ PublishedIsOnStream'
    BY <1>1, <1>3 DEF StreamInv, IdleIsReady, PublishedIsOnStream
  <1> QED
    BY <1>1, <1>5, <1>6, <1>7 DEF StreamInv

LEMMA StreamStep == StreamInv /\ TypeOK' /\ [Next]_vars => StreamInv'
  <1> SUFFICES ASSUME StreamInv, TypeOK', [Next]_vars PROVE StreamInv'
    OBVIOUS
  <1> USE DEF StreamInv, WindowIsOnStream, AckedIsOnStream, IdleIsReady,
              PublishedIsOnStream
  <1>1. ASSUME NEW p \in Positions, Environment(p) PROVE StreamInv'
    BY <1>1 DEF Environment, AppendEvent, BackoffPasses, LeaseLapses,
                WindowPasses, TypeOK, IsFirst
  <1>2. ASSUME NEW r \in Relays, Claim(r) PROVE StreamInv'
    BY <1>2 DEF Claim, TypeOK, IsFirst
  <1>3. ASSUME NEW r \in Relays, Crash(r) PROVE StreamInv'
    BY <1>3 DEF Crash, TypeOK, IsFirst
  <1>4. ASSUME NEW r \in Relays, NEW p \in Positions,
               MarkPublished(r, p) \/ MarkThrows(r, p) \/ ReleasePublication(r, p)
        PROVE  StreamInv'
    BY <1>4 DEF MarkPublished, MarkThrows, ReleasePublication, Finish, TypeOK,
                IsFirst
  <1>5. CASE UNCHANGED vars
    BY <1>5 DEF vars, TypeOK, IsFirst
  <1> QED
    BY <1>1, <1>2, <1>3, <1>4, <1>5, PublishKeepsStream DEF Next, Relay

\* No failed publish, lost acknowledgement, lapsed lease, duplicate or crash, by
\* any number of relays, retires an event that JetStream did not store: a relay
\* marks only what was acknowledged to it, and an acknowledgement without a new
\* message means that the window still remembers the earlier copy.
THEOREM PublishedCorrect == Spec => []PublishedIsOnStream
  <1>1. Init /\ TypeOK => StreamInv
    BY DEF Init, StreamInv, WindowIsOnStream, AckedIsOnStream, IdleIsReady,
           PublishedIsOnStream
  <1>2. StreamInv => PublishedIsOnStream
    BY DEF StreamInv
  <1> QED
    BY <1>1, <1>2, StreamStep, TypeCorrect, PTL DEF Spec

----------------------------------------------------------------------------
(* The outbox implements the contract.                                     *)

BatchIsCommitted == \A r \in Relays : batch[r] \subseteq Committed

\* No step takes a row away, and every claim is of committed rows.
LEMMA CommittedStep ==
    BatchIsCommitted /\ TypeOK /\ [Next]_vars => BatchIsCommitted'
  <1> SUFFICES ASSUME BatchIsCommitted, TypeOK, [Next]_vars
               PROVE  BatchIsCommitted'
    OBVIOUS
  <1> USE DEF BatchIsCommitted, Committed, TypeOK
  <1>1. ASSUME NEW p \in Positions, Environment(p) PROVE BatchIsCommitted'
    BY <1>1 DEF Environment, AppendEvent, BackoffPasses, LeaseLapses, WindowPasses
  <1>2. ASSUME NEW r \in Relays, Claim(r) PROVE BatchIsCommitted'
    BY <1>2 DEF Claim, ClaimBatch, Claimable
  <1>3. ASSUME NEW r \in Relays, Crash(r) PROVE BatchIsCommitted'
    BY <1>3 DEF Crash
  <1>4. ASSUME NEW r \in Relays, NEW p \in Positions,
               PublishAcked(r, p) \/ PublishThrows(r, p)
        PROVE  BatchIsCommitted'
    BY <1>4 DEF PublishAcked, PublishThrows
  <1>5. ASSUME NEW r \in Relays, NEW p \in Positions,
               MarkPublished(r, p) \/ MarkThrows(r, p) \/ ReleasePublication(r, p)
        PROVE  BatchIsCommitted'
    BY <1>5 DEF MarkPublished, MarkThrows, ReleasePublication, Finish
  <1>6. CASE UNCHANGED vars
    BY <1>6 DEF vars
  <1> QED
    BY <1>1, <1>2, <1>3, <1>4, <1>5, <1>6 DEF Next, Relay

\* A step of the outbox is a commit, the delivery of a committed event, or is
\* invisible to the contract.
LEMMA ContractStep ==
    BatchIsCommitted /\ TypeOK /\ [Next]_vars => [Contract!Next]_(Contract!dvars)
  <1> SUFFICES ASSUME BatchIsCommitted, TypeOK, [Next]_vars
               PROVE  Contract!Next \/ (Committed' = Committed /\ stream' = stream)
    BY DEF Contract!dvars
  <1>1. ASSUME NEW p \in Positions, AppendEvent(p) PROVE Contract!Next
    <2>1. p \notin Committed /\ Committed' = Committed \cup {p}
      BY <1>1 DEF AppendEvent, Committed, TypeOK
    <2> QED
      BY <1>1, <2>1 DEF AppendEvent, Contract!Next, Contract!Commit
  <1>2. ASSUME NEW p \in Positions,
               BackoffPasses(p) \/ LeaseLapses(p) \/ WindowPasses(p)
        PROVE  Committed' = Committed /\ stream' = stream
    BY <1>2 DEF BackoffPasses, LeaseLapses, WindowPasses, Committed
  <1>3. ASSUME NEW r \in Relays, Claim(r) \/ Crash(r)
        PROVE  Committed' = Committed /\ stream' = stream
    BY <1>3 DEF Claim, ClaimBatch, Claimable, Crash, Committed, TypeOK
  <1>4. ASSUME NEW r \in Relays, NEW p \in Positions,
               PublishAcked(r, p) \/ PublishThrows(r, p)
        PROVE  Contract!Next \/ (Committed' = Committed /\ stream' = stream)
    <2>1. p \in Committed /\ Committed' = Committed
      BY <1>4 DEF PublishAcked, PublishThrows, IsFirst, BatchIsCommitted, Committed
    <2>2. stream' = Append(stream, p) \/ stream' = stream
      BY <1>4 DEF PublishAcked, PublishThrows, Store
    <2> QED
      BY <2>1, <2>2 DEF Contract!Next, Contract!Deliver
  <1>5. ASSUME NEW r \in Relays, NEW p \in Positions,
               MarkPublished(r, p) \/ MarkThrows(r, p) \/ ReleasePublication(r, p)
        PROVE  Committed' = Committed /\ stream' = stream
    <2>1. p \in Committed
      BY <1>5 DEF MarkPublished, MarkThrows, ReleasePublication, IsFirst,
                  BatchIsCommitted
    <2> QED
      BY <1>5, <2>1
      DEF MarkPublished, MarkThrows, ReleasePublication, Committed, TypeOK
  <1>6. CASE UNCHANGED vars
    BY <1>6 DEF vars, Committed
  <1> QED
    BY <1>1, <1>2, <1>3, <1>4, <1>5, <1>6 DEF Next, Relay, Environment

\* The outbox is a refinement of EventDelivery: whatever the relays and the
\* broker do, a consumer sees only events whose transaction committed, each
\* appended whole and never taken back.
THEOREM OutboxImplementsDelivery == Spec => ImplementsDelivery
  <1>1. Init => Contract!Init
    BY DEF Init, Committed, Contract!Init
  <1>2. Init => BatchIsCommitted
    BY DEF Init, BatchIsCommitted
  <1> QED
    BY <1>1, <1>2, CommittedStep, ContractStep, TypeCorrect, PTL
    DEF Spec, ImplementsDelivery, Contract!SafeSpec
=============================================================================
