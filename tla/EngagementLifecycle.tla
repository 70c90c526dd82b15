------------------------ MODULE EngagementLifecycle -------------------------
(***************************************************************************)
(* What the engagement handlers of app/routers/auditease.py,               *)
(* auditor_engagements.py and auth.py promise together: every request is   *)
(* one indivisible change of the tables.  Module Engagement splits the     *)
(* same handlers into the statements they issue and is compared with this  *)
(* one.                                                                    *)
(***************************************************************************)
EXTENDS EngagementTables

VARIABLES
    status,    \* status of every engagement
    grant,     \* grant[a][e]: auditor_engagement_grants
    pending,   \* pending[a][e]: pending_auditor_invites
    accounts   \* addresses with an auditors row

vars == <<status, grant, pending, accounts>>

TypeOK ==
    /\ status \in [Engagements -> EngagementStates]
    /\ grant \in GrantTables
    /\ pending \in InviteTables
    /\ accounts \in SUBSET Auditors

Init ==
    /\ status = [e \in Engagements |-> "none"]
    /\ grant = [a \in Auditors |-> [e \in Engagements |-> NoGrant]]
    /\ pending = [a \in Auditors |-> [e \in Engagements |-> NoInvite]]
    /\ accounts = {}

-----------------------------------------------------------------------------
CreateEngagement(e) ==
    /\ status[e] = "none"
    /\ status' = [status EXCEPT ![e] = "draft"]
    /\ UNCHANGED <<grant, pending, accounts>>

\* Mistake, for comparison: the status is left to the acceptance.
MarkInvitedForgotten(e) == UNCHANGED status

\* Inviting moves a draft engagement to "invited" and leaves any other as it is.
MarkInvited(e) ==
    status' = [status EXCEPT ![e] = IF @ = "draft" THEN "invited" ELSE @]

InviteAuditor(e, a, areas) ==
    /\ Exists(status[e]) /\ status[e] # "closed"
    /\ MarkInvited(e)
    /\ \/ /\ a \in accounts
          /\ grant[a][e].status \in {"none", "revoked"}
          /\ grant' = [grant EXCEPT ![a][e] = [status |-> "invited", areas |-> areas]]
          /\ UNCHANGED pending
       \/ /\ a \notin accounts
          /\ pending' = [pending EXCEPT ![a][e] = [status |-> "live", areas |-> areas]]
          /\ UNCHANGED grant
    /\ UNCHANGED accounts

UpdateAccess(e, a, areas) ==
    /\ grant[a][e].status \in {"invited", "accepted"}
    /\ grant' = [grant EXCEPT ![a][e].areas = areas]
    /\ UNCHANGED <<status, pending, accounts>>

RemoveAuditor(e, a) ==
    /\ grant[a][e].status \in {"invited", "accepted"}
    /\ grant' = [grant EXCEPT ![a][e].status = "revoked"]
    /\ UNCHANGED <<status, pending, accounts>>

CancelInvite(e, a) ==
    /\ pending[a][e].status # "none"
    /\ pending' = [pending EXCEPT ![a][e] = NoInvite]
    /\ UNCHANGED <<status, grant, accounts>>

\* Mistake, for comparison: the invites outlive the close.
CloseEngagementKeepingInvites(e) ==
    /\ Exists(status[e])
    /\ status' = [status EXCEPT ![e] = "closed"]
    /\ grant' = RevokeGrants(grant, e)
    /\ UNCHANGED <<pending, accounts>>

CloseEngagement(e) ==
    /\ Exists(status[e])
    /\ status' = [status EXCEPT ![e] = "closed"]
    /\ grant' = RevokeGrants(grant, e)
    /\ pending' = DropInvites(pending, e)
    /\ UNCHANGED accounts

\* Mistake, for comparison: the status is not looked at.
DeleteEngagementUnguarded(e) ==
    /\ Exists(status[e])
    /\ status' = [status EXCEPT ![e] = "deleted"]
    /\ grant' = DropGrants(grant, e)
    /\ pending' = DropInvites(pending, e)
    /\ UNCHANGED accounts

DeleteEngagement(e) ==
    /\ status[e] \in {"draft", "invited", "closed"}
    /\ status' = [status EXCEPT ![e] = "deleted"]
    /\ grant' = DropGrants(grant, e)
    /\ pending' = DropInvites(pending, e)
    /\ UNCHANGED accounts

Register(a) ==
    /\ a \notin accounts
    /\ \E e \in Engagements : pending[a][e].status = "live"
    /\ accounts' = accounts \cup {a}
    /\ grant' = [grant EXCEPT ![a] = ConvertInvites(pending[a], @)]
    /\ pending' = [pending EXCEPT ![a] = DropLive(@, @)]
    /\ UNCHANGED status

\* Mistake, for comparison: any grant can be accepted, and always activates.
AcceptEngagementUnguarded(e, a) ==
    /\ grant[a][e] # NoGrant
    /\ grant' = [grant EXCEPT ![a][e].status = "accepted"]
    /\ status' = [status EXCEPT ![e] = "active"]
    /\ UNCHANGED <<pending, accounts>>

AcceptEngagement(e, a) ==
    /\ grant[a][e].status = "invited"
    /\ grant' = [grant EXCEPT ![a][e].status = "accepted"]
    /\ status' = [status EXCEPT ![e] = IF @ = "invited" THEN "active" ELSE @]
    /\ UNCHANGED <<pending, accounts>>

\* Seven days pass and the expires_at of some invites of an address is over.
ExpireInvites(a, es) ==
    /\ es # {} /\ \A e \in es : pending[a][e].status = "live"
    /\ pending' = [pending EXCEPT ![a] =
                      [e \in Engagements |->
                          IF e \in es THEN [@[e] EXCEPT !.status = "expired"] ELSE @[e]]]
    /\ UNCHANGED <<status, grant, accounts>>

Next ==
    \/ \E e \in Engagements :
          \/ CreateEngagement(e)
          \/ CloseEngagement(e)
          \/ DeleteEngagement(e)
    \/ \E a \in Auditors :
          \/ Register(a)
          \/ \E es \in SUBSET Engagements : ExpireInvites(a, es)
    \/ \E e \in Engagements, a \in Auditors :
          \/ \E areas \in SUBSET Areas : InviteAuditor(e, a, areas)
          \/ \E areas \in SUBSET Areas : UpdateAccess(e, a, areas)
          \/ RemoveAuditor(e, a)
          \/ CancelInvite(e, a)
          \/ AcceptEngagement(e, a)

Spec == Init /\ [][Next]_vars
-----------------------------------------------------------------------------
\* A closed engagement admits nobody: close_engagement revoked every grant and
\* dropped every invite, and no later invite, registration or acceptance makes
\* a new one (auditease.py close_engagement, "Revoke all grants and drop any
\* unaccepted pending invites").
ClosedIsRevoked ==
    \A e \in Engagements : status[e] = "closed" =>
        \A a \in Auditors :
            /\ grant[a][e].status \in {"none", "revoked"}
            /\ pending[a][e] = NoInvite

\* Nobody is on a draft engagement, and nothing refers to one that is not there:
\* the first invite moves it on, whether it became a grant or a pending invite.
DraftIsEmpty ==
    \A e \in Engagements : status[e] \in {"none", "draft", "deleted"} =>
        \A a \in Auditors : grant[a][e] = NoGrant /\ pending[a][e] = NoInvite

\* A usable invite waits for an address without an account, and a grant belongs
\* to an account: registration consumes the invites that inviting made
\* (invite_auditor, "unknown emails get a pending invite that auto-converts on
\* registration").
InvitesAwaitAccounts ==
    \A a \in Auditors, e \in Engagements :
        /\ pending[a][e].status = "live" => a \notin accounts
        /\ grant[a][e] # NoGrant => a \in accounts

\* A closed engagement is never opened again; it can only be deleted.
ClosedIsFinal ==
    [][\A e \in Engagements :
          status[e] = "closed" => status'[e] \in {"closed", "deleted"}]_vars

\* delete_engagement: an active engagement is closed before it is deleted, so
\* the audit work of an engagement in progress is never cascaded away.
ActiveIsNeverDeleted ==
    [][\A e \in Engagements : status[e] = "active" => status'[e] # "deleted"]_vars

\* An engagement becomes active only out of "invited", in the very step that
\* turns the grant of one of its invited auditors into an accepted one.
ActivatesByAcceptance ==
    [][\A e \in Engagements : status'[e] = "active" /\ status[e] # "active" =>
          /\ status[e] = "invited"
          /\ \E a \in Auditors : /\ grant[a][e].status = "invited"
                                 /\ grant'[a][e].status = "accepted"]_vars
=============================================================================
