----------------------------- MODULE MCEventOutbox -----------------------------
(* Model-checking instances of EventOutbox.                                *)
EXTENDS EventOutbox

TwoPositions == 1..2
=============================================================================
