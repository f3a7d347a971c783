---------------------------- MODULE MCPublishJobs ----------------------------
(* Small instances of PublishJobs for TLC. *)
EXTENDS PublishJobs, TLC

(* Covers and jobs are interchangeable; used where only an invariant is    *)
(* checked.                                                                *)
Interchangeable == Permutations(Cover) \cup Permutations(Job)
=============================================================================
