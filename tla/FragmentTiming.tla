---------------------------- MODULE FragmentTiming ----------------------------
(***************************************************************************)
(* validateFragmentSet of domain/fragment-timing.ts: the checks and the     *)
(* sweep (OverlapSweep) that accept a set of fragments of one video, and    *)
(* the rule they are meant to enforce.                                      *)
(* A list of fragments is grown one fragment at a time, so that TLC meets   *)
(* every list up to MaxLength.                                              *)
(***************************************************************************)
EXTENDS OverlapSweep, Sequences

CONSTANTS Ids,
          Times,        \* the microseconds a boundary may take, the invalid ones too
          Duration,     \* length of the video, or Unknown before its inspection
          Unknown,
          MaxLength

ASSUME TimingAssumption ==
    /\ Times \subseteq Int
    /\ Duration \in Nat \cup {Unknown}
    /\ MaxLength \in Nat

VARIABLE fragments      \* the argument: a sequence of [id, startUs, endUs]

\* The spans of a list of fragments, for the sweep.
Spans(list) == [n \in DOMAIN list |-> [start |-> list[n].startUs, end |-> list[n].endUs]]

\* The checks of one fragment against the video and the ones before it.
InvalidAt(list, n) ==
    \/ \E k \in 1..(n - 1) : list[k].id = list[n].id
    \/ list[n].startUs < 0
    \/ list[n].endUs <= list[n].startUs
    \/ Duration # Unknown /\ list[n].endUs > Duration

ValidateFragmentSet(list) ==
    /\ ~ \E n \in DOMAIN list : InvalidAt(list, n)
    /\ ~ SweepFindsThree(Spans(list))

----------------------------------------------------------------------------
Init == fragments = <<>>

Add(id, startUs, endUs) ==
    /\ Len(fragments) < MaxLength
    /\ fragments' = Append(fragments, [id |-> id, startUs |-> startUs, endUs |-> endUs])

Next == \E id \in Ids, startUs, endUs \in Times : Add(id, startUs, endUs)

Spec == Init /\ [][Next]_fragments

\* The fragments of the list that play at an instant.
PlayingAt(time) ==
    {n \in DOMAIN fragments : fragments[n].startUs <= time /\ time < fragments[n].endUs}

\* validateFragmentSet accepts a list exactly when its fragments are distinct, lie
\* inside the video, have a positive length, and at no instant three of them play:
\* "at no timestamp may three segments be active" (phase-02 design).
AcceptsExactlyTheRule ==
    ValidateFragmentSet(fragments) <=>
        /\ \A n, k \in DOMAIN fragments : fragments[n].id = fragments[k].id => n = k
        /\ \A n \in DOMAIN fragments :
            /\ 0 <= fragments[n].startUs
            /\ fragments[n].startUs < fragments[n].endUs
            /\ Duration = Unknown \/ fragments[n].endUs <= Duration
        /\ \A time \in Times : Cardinality(PlayingAt(time)) <= 2
=============================================================================
