-------------------------- MODULE EngagementTables --------------------------
(***************************************************************************)
(* The rows behind an AuditEase engagement (app/models/auditease.py,       *)
(* app/models/auditor.py): the engagement itself, the grants that admit    *)
(* registered auditors to it, and the invites that wait for an e-mail      *)
(* address to register.  An auditor is identified with the e-mail address, *)
(* which is unique (uq_auditors_email_lower).  A grant is keyed by auditor *)
(* and engagement, a pending invite by address and engagement: the two     *)
(* unique constraints of the schema.                                       *)
(***************************************************************************)
CONSTANTS
    Engagements,   \* identifiers of audit_engagements rows; never used twice
    Auditors,      \* e-mail addresses, registered or not
    Areas          \* workspace areas a grant may open

\* "none": no row with this identifier yet.  "deleted": the row is gone.
EngagementStates == {"none", "draft", "invited", "active", "closed", "deleted"}

Exists(s) == s \notin {"none", "deleted"}

\* A row of auditor_engagement_grants, NoGrant where there is none.
NoGrant == [status |-> "none", areas |-> {}]
Grants  == {NoGrant} \cup [status: {"invited", "accepted", "revoked"}, areas: SUBSET Areas]

\* A row of pending_auditor_invites; it is expired once expires_at has passed.
NoInvite == [status |-> "none", areas |-> {}]
Invites  == {NoInvite} \cup [status: {"live", "expired"}, areas: SUBSET Areas]

GrantTables  == [Auditors -> [Engagements -> Grants]]
InviteTables == [Auditors -> [Engagements -> Invites]]

\* UPDATE auditor_engagement_grants SET status = 'revoked' on the rows it has found
RevokeFound(table, e, found) ==
    [a \in Auditors |->
        [table[a] EXCEPT ![e] = IF a \in found THEN [@ EXCEPT !.status = "revoked"] ELSE @]]

\* ... WHERE engagement_id = e, when that is every grant of the engagement
RevokeGrants(table, e) == RevokeFound(table, e, {a \in Auditors : table[a][e] # NoGrant})

\* DELETE FROM auditor_engagement_grants WHERE engagement_id = e (the cascade)
DropGrants(table, e) == [a \in Auditors |-> [table[a] EXCEPT ![e] = NoGrant]]

\* DELETE FROM pending_auditor_invites on the rows it has found
DropFound(table, e, found) ==
    [a \in Auditors |-> [table[a] EXCEPT ![e] = IF a \in found THEN NoInvite ELSE @]]

\* ... WHERE engagement_id = e
DropInvites(table, e) == DropFound(table, e, {a \in Auditors : table[a][e] # NoInvite})

\* Mistakes of registration, for comparison: the invite row copied as it is, and
\* the consumed invites left in place.
ConvertInvitesUnchanged(invites, grants) ==
    [e \in Engagements |-> IF invites[e].status = "live" THEN invites[e] ELSE grants[e]]

DropLiveForgotten(invites, live) == invites

\* What registration makes of an auditor's invites: one invited grant for each
\* live invite; expired invites are passed over.
ConvertInvites(invites, grants) ==
    [e \in Engagements |->
        IF invites[e].status = "live"
        THEN [status |-> "invited", areas |-> invites[e].areas]
        ELSE grants[e]]

DropLive(invites, live) ==
    [e \in Engagements |-> IF live[e].status = "live" THEN NoInvite ELSE invites[e]]

\* check_auditor_access: an accepted grant on an active engagement, area included.
MayUse(status, grant, area) ==
    /\ status = "active"
    /\ grant.status = "accepted"
    /\ area \in grant.areas
=============================================================================
