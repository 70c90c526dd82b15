----------------------------- MODULE Engagement -----------------------------
(***************************************************************************)
(* The engagement handlers as the database sees them.  The API serves      *)
(* requests concurrently, each in a READ COMMITTED transaction of its own  *)
(* (app/database.py get_db): a handler selects the rows it tests, decides, *)
(* and writes later, over whatever has been committed meanwhile.  A        *)
(* request is here one step for its reads and early returns and one for    *)
(* its writes and commit, with a step more where a handler holds a row     *)
(* lock while it goes on.  Writes appear at the commit; row locks follow   *)
(* from how far each request has come.                                     *)
(***************************************************************************)
EXTENDS EngagementTables

CONSTANTS
    Requests,   \* requests in flight: worker slots of the API
    None        \* no engagement, no auditor

ASSUME NoneAssumption == None \notin Engagements \cup Auditors

VARIABLES
    status, grant, pending, accounts,   \* the tables, as in EngagementLifecycle
    req                                 \* what each request has read and will do next

tables == <<status, grant, pending, accounts>>
vars == <<status, grant, pending, accounts, req>>

Steps == {"idle", "inviteLookup", "invitePending", "inviteNew", "inviteAgain",
          "closeStatus", "closeGrants", "closeInvites", "closeCommit",
          "deleteRow", "deleteCascade",
          "access", "remove", "cancel", "register", "acceptFlush", "acceptCommit"}

\* seen: the engagement's status as selected.  rows: the address's live invites
\* as selected.  held: which of the selected invite rows have not been deleted.
\* revokes, drops: whose grants and invites a close has updated and deleted so far.
RequestStates ==
    [pc: Steps,
     e: Engagements \cup {None}, a: Auditors \cup {None}, areas: SUBSET Areas,
     seen: EngagementStates,
     rows: [Engagements -> Invites], held: SUBSET Engagements,
     revokes: SUBSET Auditors, drops: SUBSET Auditors]

Idle ==
    [pc |-> "idle", e |-> None, a |-> None, areas |-> {}, seen |-> "none",
     rows |-> [e \in Engagements |-> NoInvite], held |-> {}, revokes |-> {}, drops |-> {}]

TypeOK ==
    /\ status \in [Engagements -> EngagementStates]
    /\ grant \in GrantTables
    /\ pending \in InviteTables
    /\ accounts \in SUBSET Auditors
    /\ req \in [Requests -> RequestStates]

Init ==
    /\ status = [e \in Engagements |-> "none"]
    /\ grant = [a \in Auditors |-> [e \in Engagements |-> NoGrant]]
    /\ pending = [a \in Auditors |-> [e \in Engagements |-> NoInvite]]
    /\ accounts = {}
    /\ req = [r \in Requests |-> Idle]

At(r, step) == req[r].pc = step

\* A request that has read what it needs and goes on to `step`.
Begin(r, step, e, a) ==
    /\ At(r, "idle")
    /\ req' = [req EXCEPT ![r].pc = step, ![r].e = e, ![r].a = a]
    /\ UNCHANGED tables

Goto(r, step) == req' = [req EXCEPT ![r].pc = step]

\* The response is sent, or the transaction rolled back.
Done(r) == req' = [req EXCEPT ![r] = Idle]
-----------------------------------------------------------------------------
(* Row locks, held from the statement that writes a row to the commit.  A  *)
(* statement that writes several rows takes them together, when all are    *)
(* free.                                                                   *)

\* The transaction has updated or deleted the row of its engagement.
HoldsEngagement(q) ==
    \/ req[q].pc \in {"closeGrants", "closeInvites", "closeCommit"} /\ req[q].seen # "closed"
    \/ At(q, "deleteCascade")

\* The transaction has updated the grant of auditor a.
HoldsGrant(q, e, a) ==
    /\ req[q].e = e
    /\ \/ At(q, "acceptCommit") /\ req[q].a = a
       \/ req[q].pc \in {"closeInvites", "closeCommit"} /\ a \in req[q].revokes

\* The transaction has deleted the invite of address a.
HoldsInvite(q, e, a) == At(q, "closeCommit") /\ req[q].e = e /\ a \in req[q].drops

\* Mistakes, for comparison: no lock on the engagement, none on the grant (as if
\* accept_engagement flushed only at its commit), and a wait that the database
\* does not see.
EngagementFreeAlways(r, e) == TRUE

GrantFreeAlways(r, e, a) == TRUE

WaitsForGrantOnly(r, q) ==
    /\ req[r].e = req[q].e
    /\ At(r, "closeGrants") \/ At(r, "deleteCascade")
    /\ At(q, "acceptCommit")

EngagementFree(r, e) ==
    \A q \in Requests \ {r} : HoldsEngagement(q) => req[q].e # e

GrantFree(r, e, a) == \A q \in Requests \ {r} : ~HoldsGrant(q, e, a)

InviteFree(r, e, a) == \A q \in Requests \ {r} : ~HoldsInvite(q, e, a)

\* An INSERT that refers to the engagement waits for its deletion, no more.
NotBeingDeleted(r, e) ==
    \A q \in Requests \ {r} : At(q, "deleteCascade") => req[q].e # e

\* The lock an acceptance and a close or deletion of the same engagement take in
\* opposite orders.
WaitsFor(r, q) ==
    /\ req[r].e = req[q].e
    /\ \/ /\ At(r, "closeGrants") \/ At(r, "deleteCascade")
          /\ At(q, "acceptCommit")
       \/ /\ At(r, "acceptCommit") /\ req[r].seen = "invited"
          /\ HoldsEngagement(q)

\* PostgreSQL rolls back one transaction of a cycle of waiting ones.
DeadlockVictim(r) ==
    /\ \E q \in Requests : WaitsFor(r, q) /\ WaitsFor(q, r)
    /\ Done(r)
    /\ UNCHANGED tables
-----------------------------------------------------------------------------
CreateEngagement(e) ==
    /\ status[e] = "none"
    /\ status' = [status EXCEPT ![e] = "draft"]
    /\ UNCHANGED <<grant, pending, accounts, req>>

InviteRead(r, e, a, areas) ==
    /\ At(r, "idle")
    /\ Exists(status[e]) /\ status[e] # "closed"
    /\ req' = [req EXCEPT ![r] = [Idle EXCEPT !.pc = "inviteLookup", !.e = e, !.a = a,
                                              !.areas = areas, !.seen = status[e]]]
    /\ UNCHANGED tables

\* Mistake, for comparison: the account is not looked up.
InviteLookupByGrant(r) ==
    /\ At(r, "inviteLookup")
    /\ grant[req[r].a][req[r].e] = NoGrant /\ Goto(r, "inviteNew")
    /\ UNCHANGED tables

InviteLookup(r) ==
    LET e == req[r].e
        a == req[r].a
    IN  /\ At(r, "inviteLookup")
        /\ \/ a \notin accounts /\ Goto(r, "invitePending")
           \/ a \in accounts /\ grant[a][e].status = "none" /\ Goto(r, "inviteNew")
           \/ a \in accounts /\ grant[a][e].status = "revoked" /\ Goto(r, "inviteAgain")
           \/ \* "Auditor is already invited to this engagement"
              a \in accounts /\ grant[a][e].status \in {"invited", "accepted"} /\ Done(r)
        /\ UNCHANGED tables

\* Mistake, for comparison: the status is left to the acceptance.
MarkInvitedForgotten(r) == UNCHANGED status

\* eng.status = invited, decided on the status read before.
MarkInvited(r) ==
    IF req[r].seen = "draft"
    THEN EngagementFree(r, req[r].e) /\ status' = [status EXCEPT ![req[r].e] = "invited"]
    ELSE UNCHANGED status

InviteSave(r) ==
    LET e == req[r].e
        a == req[r].a
    IN  /\ req[r].pc \in {"invitePending", "inviteNew", "inviteAgain"}
        /\ Exists(status[e]) /\ NotBeingDeleted(r, e)
        /\ \/ /\ At(r, "invitePending") /\ InviteFree(r, e, a)
              /\ pending' = [pending EXCEPT ![a][e] = [status |-> "live", areas |-> req[r].areas]]
              /\ UNCHANGED grant
           \/ /\ \/ At(r, "inviteNew") /\ grant[a][e] = NoGrant
                 \/ At(r, "inviteAgain") /\ grant[a][e] # NoGrant /\ GrantFree(r, e, a)
              /\ grant' = [grant EXCEPT ![a][e] = [status |-> "invited", areas |-> req[r].areas]]
              /\ UNCHANGED pending
        /\ MarkInvited(r)
        /\ Done(r)
        /\ UNCHANGED accounts

CloseRead(r, e) ==
    /\ At(r, "idle")
    /\ Exists(status[e])
    /\ req' = [req EXCEPT ![r] = [Idle EXCEPT !.pc = "closeStatus", !.e = e, !.seen = status[e]]]
    /\ UNCHANGED tables

\* The UPDATE of the engagement, flushed before that of the grants; there is none
\* when the engagement was read as closed.
CloseStatus(r) ==
    /\ At(r, "closeStatus")
    /\ req[r].seen = "closed" \/ (Exists(status[req[r].e]) /\ EngagementFree(r, req[r].e))
    /\ Goto(r, "closeGrants")
    /\ UNCHANGED tables

\* Every request that has selected one of the invite rows loses it, and r ends.
ForgetInvites(r, as, es) ==
    req' = [q \in Requests |->
               IF q = r THEN Idle
               ELSE IF req[q].a \in as THEN [req[q] EXCEPT !.held = @ \ es]
               ELSE req[q]]

\* The UPDATE of the grants: those committed by now.  A grant that is committed
\* later is not among them, whatever is still to come before the commit.
CloseGrants(r) ==
    LET e == req[r].e
        there == {a \in Auditors : grant[a][e] # NoGrant}
    IN  /\ At(r, "closeGrants")
        /\ \A a \in there : GrantFree(r, e, a)
        /\ req' = [req EXCEPT ![r].pc = "closeInvites", ![r].revokes = there]
        /\ UNCHANGED tables

\* The DELETE of the invites: those committed by now.
CloseInvites(r) ==
    LET e == req[r].e
        there == {a \in Auditors : pending[a][e] # NoInvite}
    IN  /\ At(r, "closeInvites")
        /\ \A a \in there : InviteFree(r, e, a)
        /\ req' = [req EXCEPT ![r].pc = "closeCommit", ![r].drops = there]
        /\ UNCHANGED tables

CloseCommit(r) ==
    LET e == req[r].e
    IN  /\ At(r, "closeCommit")
        /\ status' = IF req[r].seen = "closed" THEN status ELSE [status EXCEPT ![e] = "closed"]
        /\ grant' = RevokeFound(grant, e, req[r].revokes)
        /\ pending' = DropFound(pending, e, req[r].drops)
        /\ ForgetInvites(r, req[r].drops, {e})
        /\ UNCHANGED accounts

DeleteRead(r, e) ==
    /\ Exists(status[e]) /\ status[e] # "active"
    /\ Begin(r, "deleteRow", e, None)

\* A row that is already gone is no error, only a warning.
DeleteRow(r) ==
    /\ At(r, "deleteRow")
    /\ EngagementFree(r, req[r].e)
    /\ IF Exists(status[req[r].e]) THEN Goto(r, "deleteCascade") ELSE Done(r)
    /\ UNCHANGED tables

DeleteCascade(r) ==
    LET e == req[r].e
    IN  /\ At(r, "deleteCascade")
        /\ \A a \in Auditors : GrantFree(r, e, a) /\ InviteFree(r, e, a)
        /\ status' = [status EXCEPT ![e] = "deleted"]
        /\ grant' = DropGrants(grant, e)
        /\ pending' = DropInvites(pending, e)
        /\ ForgetInvites(r, Auditors, {e})
        /\ UNCHANGED accounts

\* The grant update_auditor_access and remove_engagement_auditor select.
ActiveGrant(e, a) == grant[a][e].status \in {"invited", "accepted"}

\* Access rights equal to those in force are not written back.
AccessRead(r, e, a, areas) ==
    /\ At(r, "idle")
    /\ ActiveGrant(e, a) /\ areas # grant[a][e].areas
    /\ req' = [req EXCEPT ![r] = [Idle EXCEPT !.pc = "access", !.e = e, !.a = a, !.areas = areas]]
    /\ UNCHANGED tables

RemoveRead(r, e, a) == ActiveGrant(e, a) /\ Begin(r, "remove", e, a)

\* Both write the one column, whatever the row has become.
GrantSave(r) ==
    LET e == req[r].e
        a == req[r].a
    IN  /\ req[r].pc \in {"access", "remove"}
        /\ grant[a][e] # NoGrant /\ GrantFree(r, e, a)
        /\ \/ At(r, "access") /\ grant' = [grant EXCEPT ![a][e].areas = req[r].areas]
           \/ At(r, "remove") /\ grant' = [grant EXCEPT ![a][e].status = "revoked"]
        /\ Done(r)
        /\ UNCHANGED <<status, pending, accounts>>

CancelRead(r, e, a) ==
    /\ At(r, "idle")
    /\ pending[a][e] # NoInvite
    /\ req' = [req EXCEPT ![r] = [Idle EXCEPT !.pc = "cancel", !.e = e, !.a = a, !.held = {e}]]
    /\ UNCHANGED tables

CancelSave(r) ==
    LET e == req[r].e
        a == req[r].a
    IN  /\ At(r, "cancel")
        /\ IF e \in req[r].held
           THEN /\ InviteFree(r, e, a)
                /\ pending' = [pending EXCEPT ![a][e] = NoInvite]
                /\ ForgetInvites(r, {a}, {e})
           ELSE UNCHANGED pending /\ Done(r)
        /\ UNCHANGED <<status, grant, accounts>>

\* The invites that have not expired, and the account's absence, are selected.
RegisterRead(r, a) ==
    LET live == {e \in Engagements : pending[a][e].status = "live"}
    IN  /\ At(r, "idle")
        /\ a \notin accounts
        /\ live # {}
        /\ req' = [req EXCEPT ![r] =
                      [Idle EXCEPT !.pc = "register", !.a = a, !.held = live,
                                   !.rows = [e \in Engagements |->
                                                IF e \in live THEN pending[a][e] ELSE NoInvite]]]
        /\ UNCHANGED tables

\* The engagements the new grants will refer to.
Converted(r) == {e \in Engagements : req[r].rows[e].status = "live"}

RegisterSave(r) ==
    LET a == req[r].a
    IN  /\ At(r, "register")
        /\ a \notin accounts
        /\ \A e \in Converted(r) : Exists(status[e]) /\ NotBeingDeleted(r, e)
        /\ \A e \in req[r].held : InviteFree(r, e, a)
        /\ accounts' = accounts \cup {a}
        /\ grant' = [grant EXCEPT ![a] = ConvertInvites(req[r].rows, @)]
        /\ pending' = [pending EXCEPT ![a] =
                          [e \in Engagements |-> IF e \in req[r].held THEN NoInvite ELSE @[e]]]
        /\ ForgetInvites(r, {a}, req[r].held)
        /\ UNCHANGED status

AcceptRead(r, e, a) ==
    /\ grant[a][e].status = "invited"
    /\ Begin(r, "acceptFlush", e, a)

\* The SELECT of the engagement flushes the UPDATE of the grant first.
AcceptFlush(r) ==
    LET e == req[r].e
        a == req[r].a
    IN  /\ At(r, "acceptFlush")
        /\ grant[a][e] # NoGrant /\ GrantFree(r, e, a)
        /\ req' = [req EXCEPT ![r].pc = "acceptCommit", ![r].seen = status[e]]
        /\ UNCHANGED tables

AcceptCommit(r) ==
    LET e == req[r].e
        a == req[r].a
    IN  /\ At(r, "acceptCommit")
        /\ grant' = [grant EXCEPT ![a][e].status = "accepted"]
        /\ IF req[r].seen = "invited"
           THEN EngagementFree(r, e) /\ status' = [status EXCEPT ![e] = "active"]
           ELSE UNCHANGED status
        /\ Done(r)
        /\ UNCHANGED <<pending, accounts>>

\* A statement fails: the row it updates is gone (StaleDataError), the row it
\* refers to is gone or the one it inserts is there (IntegrityError).
Raises(r) ==
    LET e == req[r].e
        a == req[r].a
    IN  \/ /\ req[r].pc \in {"invitePending", "inviteNew", "inviteAgain"}
           /\ ~Exists(status[e])
        \/ At(r, "inviteNew") /\ grant[a][e] # NoGrant
        \/ At(r, "closeStatus") /\ req[r].seen # "closed" /\ ~Exists(status[e])
        \/ req[r].pc \in {"access", "remove", "acceptFlush"} /\ grant[a][e] = NoGrant
        \/ /\ At(r, "register")
           /\ a \in accounts \/ \E d \in Converted(r) : ~Exists(status[d])

Raise(r) == Raises(r) /\ Done(r) /\ UNCHANGED tables

\* The process or its connection is lost and the transaction rolled back.
Crash(r) == ~At(r, "idle") /\ Done(r) /\ UNCHANGED tables

ExpireInvite(e, a) ==
    /\ pending[a][e].status = "live"
    /\ pending' = [pending EXCEPT ![a][e].status = "expired"]
    /\ UNCHANGED <<status, grant, accounts, req>>

\* Every engagement identifier of the instance is used up.
Finished ==
    /\ \A e \in Engagements : status[e] = "deleted"
    /\ \A r \in Requests : At(r, "idle")
    /\ UNCHANGED vars

\* A request goes on to its end.
Advance(r) ==
    \/ InviteLookup(r) \/ InviteSave(r)
    \/ CloseStatus(r) \/ CloseGrants(r) \/ CloseInvites(r) \/ CloseCommit(r)
    \/ DeleteRow(r) \/ DeleteCascade(r)
    \/ GrantSave(r) \/ CancelSave(r) \/ RegisterSave(r)
    \/ AcceptFlush(r) \/ AcceptCommit(r)
    \/ Raise(r) \/ DeadlockVictim(r)

Arrive(r) ==
    \/ \E e \in Engagements : CloseRead(r, e) \/ DeleteRead(r, e)
    \/ \E a \in Auditors : RegisterRead(r, a)
    \/ \E e \in Engagements, a \in Auditors :
          \/ \E areas \in SUBSET Areas : InviteRead(r, e, a, areas) \/ AccessRead(r, e, a, areas)
          \/ RemoveRead(r, e, a)
          \/ CancelRead(r, e, a)
          \/ AcceptRead(r, e, a)

Next ==
    \/ \E r \in Requests : Arrive(r) \/ Advance(r) \/ Crash(r)
    \/ \E e \in Engagements : CreateEngagement(e)
    \/ \E e \in Engagements, a \in Auditors : ExpireInvite(e, a)
    \/ Finished

Spec == Init /\ [][Next]_vars

\* A request is served, and one that waits for a row lock gets it in its turn
\* (PostgreSQL queues waiters): strong fairness, since others may take the lock
\* and release it again and again.  Requests need not arrive, nor crash.
FairSpec == Spec /\ \A r \in Requests : SF_vars(Advance(r))
-----------------------------------------------------------------------------
\* An invite is good for a registration that has selected it, and expires after.
PendingAsRead ==
    [a \in Auditors |-> [e \in Engagements |->
        IF \E r \in Requests : At(r, "register") /\ req[r].a = a /\ e \in req[r].held
        THEN [pending[a][e] EXCEPT !.status = "live"]
        ELSE pending[a][e]]]

Lifecycle == INSTANCE EngagementLifecycle WITH pending <- PendingAsRead

Tables == INSTANCE EngagementLifecycle

\* With one request at a time the handlers are the indivisible operations of
\* EngagementLifecycle: every early return, guard and write of auditease.py,
\* auditor_engagements.py and auth.py that concerns the four tables is there.
OneAtATimeIsLifecycle == Lifecycle!Spec

\* Whatever is in flight, nothing refers to an engagement that is not there and
\* nobody is on a draft: the foreign keys and the blind "draft to invited" of
\* invite_auditor keep this between them.
DraftIsEmpty == Tables!DraftIsEmpty

\* No request, however late its commit, leaves a grant without an account.
GrantsBelongToAccounts ==
    \A a \in Auditors : (\E e \in Engagements : grant[a][e] # NoGrant) => a \in accounts

\* accept_engagement writes "active" over a status it has read earlier.  It locks
\* its grant before that read, so that the engagement it read as "invited" is not
\* deleted before it writes, nor closed by a close that revokes the grant.  Only a
\* close that has overlooked the grant, which was committed after the UPDATE of
\* the grants and before the close's own commit, comes in between.
AcceptanceIsNotOvertaken ==
    [][\A r \in Requests :
          LET e == req[r].e
          IN  /\ At(r, "acceptCommit") /\ req[r].seen = "invited"
              /\ status[e] \in {"invited", "active"}
              => \/ status'[e] \in {"invited", "active"}
                 \/ status'[e] = "closed" /\ grant'[req[r].a][e] = grant[req[r].a][e]]_vars

\* An engagement becomes active only in the commit of an acceptance that read it
\* as "invited"; stale as that may be, it is written over "invited" or over a
\* close, never over a draft or in place of a deleted engagement.
ActivatesOnlyAsInvited ==
    [][\A e \in Engagements : status'[e] = "active" /\ status[e] # "active" =>
          /\ status[e] \in {"invited", "closed"}
          /\ \E r \in Requests :
                /\ At(r, "acceptCommit") /\ req[r].e = e /\ req[r].seen = "invited"
                /\ grant'[req[r].a][e].status = "accepted"]_vars

\* A deleted engagement stays deleted: closing it, inviting to it and deleting it
\* again each find the row gone or wait for its lock, and never write it anew.
DeletedIsFinal ==
    [][\A e \in Engagements : status[e] = "deleted" => status'[e] = "deleted"]_vars

\* Every request ends, though accept_engagement locks the grant and then the
\* engagement and close_engagement the engagement and then its grants.
EveryRequestEnds == \A r \in Requests : ~At(r, "idle") ~> At(r, "idle")

-----------------------------------------------------------------------------
(* What the repository says of the handlers and concurrent requests refute. *)

\* auditease.py invite_auditor, "Cannot invite on a closed engagement": a closed
\* engagement is not reopened by an invite.
ClosedIsFinal == Tables!ClosedIsFinal

\* auditease.py delete_engagement, "Allowed only while draft/invited (before real
\* audit work), or closed (cleanup)".
ActiveIsNeverDeleted == Tables!ActiveIsNeverDeleted

\* auditease.py invite_auditor, "unknown emails get a pending invite that
\* auto-converts on registration": no usable invite waits for an address that
\* has registered.
InvitesAwaitAccounts == Tables!InvitesAwaitAccounts
=============================================================================
