---------------------------- MODULE MCEngagement ----------------------------
(* Bounds for Engagement.  Symmetry only where no liveness is checked. *)
EXTENDS Engagement, TLC

Symmetry == Permutations(Auditors) \cup Permutations(Engagements) \cup Permutations(Requests)
=============================================================================
