--------------------------- MODULE MCVideoLifecycle ---------------------------
(* Two handlers, the least that can share a job or cross an inspection and a    *)
(* deletion, two attempts for each job, and four revisions: the inspection, a   *)
(* save and two deletions of one video fit.                                     *)
EXTENDS VideoLifecycle
=============================================================================
