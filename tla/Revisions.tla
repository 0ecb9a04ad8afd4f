------------------------------ MODULE Revisions ------------------------------
(* The two books of admitted revisions, which a run keeps side by side: the *)
(* analytical entities and the metric values.                               *)
EXTENDS EntityBook, MetricAdmission

(* No revision is lost, repeated or replaced, and neither book outgrows its *)
(* limits.                                                                  *)
RevisionsInv == BookInv /\ AdmissionInv
=============================================================================
