----------------------------- MODULE EventDelivery -----------------------------
(***************************************************************************)
(* What the event pipeline promises its consumers, with no word about how. *)
(* The catalog commits integration events; each committed event is         *)
(* appended to the JetStream stream at least once, in no particular order, *)
(* and nothing is appended that was not committed.  EventOutbox, with its  *)
(* relays, leases, failures and crashes, is shown to implement this        *)
(* module, and the search pipeline is composed with it.                    *)
(***************************************************************************)
EXTENDS Sequences, SequencesExt

CONSTANT Positions      \* positions of the events a run may commit

VARIABLES committed,    \* positions whose transaction has committed
          stream        \* messages of the stream, oldest first

dvars == <<committed, stream>>

Init == committed = {} /\ stream = <<>>

\* A catalog transaction with an event commits.
Commit(p) ==
    /\ p \notin committed
    /\ committed' = committed \cup {p}
    /\ UNCHANGED stream

\* A copy of a committed event reaches the end of the stream.
Deliver(p) ==
    /\ p \in committed
    /\ stream' = Append(stream, p)
    /\ UNCHANGED committed

Next == \E p \in Positions : Commit(p) \/ Deliver(p)

\* The first delivery of a committed event must come; further copies need not.
FirstDelivery(p) == p \notin ToSet(stream) /\ Deliver(p)

SafeSpec == Init /\ [][Next]_dvars

Spec == SafeSpec /\ \A p \in Positions : WF_dvars(FirstDelivery(p))
=============================================================================
