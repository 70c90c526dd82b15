------------------------- MODULE MCDocumentApproval -------------------------
(* Bounds for DocumentApproval: a creator u and an admin v, who may lose the  *)
(* role and, then, access to the one bucket, and get both back.               *)
EXTENDS DocumentApproval, TLC

CONSTANT Edited

Nothing == [title |-> Keep, bucket |-> Keep, editable |-> Keep, approver |-> Keep]

\* The fields one by one, as the pages send them, the approver reassigned or taken
\* away, and unlocking or locking together with an edit.
MCPatches ==
    {[Nothing EXCEPT !.title = Edited]}
    \cup {[Nothing EXCEPT !.bucket = b] : b \in Buckets \cup {None}}
    \cup {[Nothing EXCEPT !.editable = e] : e \in BOOLEAN}
    \cup {[Nothing EXCEPT !.approver = a] : a \in Users \cup {None}}
    \cup {[Nothing EXCEPT !.title = Edited, !.editable = e] : e \in BOOLEAN}
=============================================================================
