----------------------- MODULE MCEngagementLifecycle ------------------------
(* Bounds for EngagementLifecycle: two engagements, so that one registration *)
(* converts invites to both, and two auditors, who are interchangeable.      *)
EXTENDS EngagementLifecycle, TLC

Symmetry == Permutations(Auditors) \cup Permutations(Engagements)
=============================================================================
