----------------------- MODULE EngagementLifecycleProofs -----------------------
(***************************************************************************)
(* EngagementLifecycle for any number of engagements, auditors and areas.  *)
(* Whoever is on a closed engagement was revoked when it closed; that none *)
(* comes back needs the other two invariants: an acceptance starts from an *)
(* invited grant and a registration from an invite, and a closed           *)
(* engagement has neither.                                                 *)
(***************************************************************************)
EXTENDS EngagementLifecycle, EngagementTablesProofs

Inv == TypeOK /\ ClosedIsRevoked /\ DraftIsEmpty /\ InvitesAwaitAccounts

-----------------------------------------------------------------------------
\* Every operation keeps the tables well formed.
THEOREM LifecycleTypeCorrect == Spec => []TypeOK
<1>1. Init => TypeOK
  BY DEF Init, TypeOK, EngagementStates, GrantTables, InviteTables, Grants, Invites,
         NoGrant, NoInvite
<1>2. TypeOK /\ [Next]_vars => TypeOK'
  <2> SUFFICES ASSUME TypeOK, [Next]_vars
               PROVE  TypeOK'
    OBVIOUS
  <2> USE DEF TypeOK, EngagementStates
  <2>1. ASSUME NEW e \in Engagements, CreateEngagement(e)
        PROVE  TypeOK'
    BY <2>1 DEF CreateEngagement
  <2>2. ASSUME NEW e \in Engagements, CloseEngagement(e)
        PROVE  TypeOK'
    BY <2>2, RevokeGrantsType, DropInvitesType DEF CloseEngagement
  <2>3. ASSUME NEW e \in Engagements, DeleteEngagement(e)
        PROVE  TypeOK'
    BY <2>3, DropGrantsType, DropInvitesType DEF DeleteEngagement
  <2>4. ASSUME NEW a \in Auditors, Register(a)
        PROVE  TypeOK'
    BY <2>4, ConvertInvitesType DEF Register, GrantTables, InviteTables
  <2>5. ASSUME NEW a \in Auditors, NEW es \in SUBSET Engagements, ExpireInvites(a, es)
        PROVE  TypeOK'
    <3>1. \A e \in Engagements : pending[a][e] \in Invites
      BY DEF InviteTables
    <3>2. \A e \in es : [pending[a][e] EXCEPT !.status = "expired"] \in Invites
      BY <2>5, <3>1 DEF ExpireInvites, Invites, NoInvite
    <3> QED
      BY <2>5, <3>1, <3>2 DEF ExpireInvites, InviteTables
  <2>6. ASSUME NEW e \in Engagements, NEW a \in Auditors, NEW areas \in SUBSET Areas,
               InviteAuditor(e, a, areas)
        PROVE  TypeOK'
    <3>1. /\ [status |-> "invited", areas |-> areas] \in Grants
          /\ [status |-> "live", areas |-> areas] \in Invites
      BY DEF Grants, Invites
    <3>2. status' \in [Engagements -> EngagementStates]
      BY <2>6 DEF InviteAuditor, MarkInvited
    <3>3. grant' \in GrantTables
      BY <2>6, <3>1, WriteGrantType DEF InviteAuditor
    <3>4. pending' \in InviteTables
      BY <2>6, <3>1, WriteInviteType DEF InviteAuditor
    <3> QED
      BY <2>6, <3>2, <3>3, <3>4 DEF InviteAuditor
  <2>7. ASSUME NEW e \in Engagements, NEW a \in Auditors, NEW areas \in SUBSET Areas,
               UpdateAccess(e, a, areas)
        PROVE  TypeOK'
    <3>1. [grant[a][e] EXCEPT !.areas = areas] \in Grants
      BY <2>7 DEF UpdateAccess, GrantTables, Grants, NoGrant
    <3> QED
      BY <2>7, <3>1, WriteGrantType DEF UpdateAccess
  <2>8. ASSUME NEW e \in Engagements, NEW a \in Auditors, RemoveAuditor(e, a)
        PROVE  TypeOK'
    <3>1. grant[a][e] # NoGrant
      BY <2>8 DEF RemoveAuditor, NoGrant
    <3> QED
      BY <2>8, <3>1, WriteGrantStatusType DEF RemoveAuditor
  <2>9. ASSUME NEW e \in Engagements, NEW a \in Auditors, CancelInvite(e, a)
        PROVE  TypeOK'
    BY <2>9 DEF CancelInvite, InviteTables, Invites, NoInvite
  <2>10. ASSUME NEW e \in Engagements, NEW a \in Auditors, AcceptEngagement(e, a)
         PROVE  TypeOK'
    <3>1. grant[a][e] # NoGrant
      BY <2>10 DEF AcceptEngagement, NoGrant
    <3> QED
      BY <2>10, <3>1, WriteGrantStatusType DEF AcceptEngagement
  <2>11. CASE UNCHANGED vars
    BY <2>11 DEF vars
  <2> QED
    BY <2>1, <2>2, <2>3, <2>4, <2>5, <2>6, <2>7, <2>8, <2>9, <2>10, <2>11 DEF Next
<1> QED
  BY <1>1, <1>2, PTL DEF Spec

\* Every operation preserves the inductive invariant: one step per operation, one
\* per conjunct it disturbs.
LEMMA LifecycleInvInductive == Inv /\ TypeOK' /\ [Next]_vars => Inv'
<1> SUFFICES ASSUME Inv, TypeOK', [Next]_vars
             PROVE  ClosedIsRevoked' /\ DraftIsEmpty' /\ InvitesAwaitAccounts'
  BY DEF Inv
<1> USE DEF Inv
<1>0. /\ \A e \in Engagements : status[e] \in EngagementStates
      /\ \A a \in Auditors, e \in Engagements :
            grant[a][e] \in Grants /\ pending[a][e] \in Invites
  BY DEF TypeOK, GrantTables, InviteTables
<1>1. ASSUME NEW e \in Engagements, CreateEngagement(e)
      PROVE  ClosedIsRevoked' /\ DraftIsEmpty' /\ InvitesAwaitAccounts'
  BY <1>1 DEF CreateEngagement, TypeOK, ClosedIsRevoked, DraftIsEmpty, InvitesAwaitAccounts
<1>2. ASSUME NEW e \in Engagements, CloseEngagement(e)
      PROVE  ClosedIsRevoked' /\ DraftIsEmpty' /\ InvitesAwaitAccounts'
  <2>1. /\ status' = [status EXCEPT ![e] = "closed"]
        /\ \A a \in Auditors :
              /\ grant'[a][e].status \in {"none", "revoked"} /\ pending'[a][e] = NoInvite
              /\ grant[a][e] = NoGrant => grant'[a][e] = NoGrant
              /\ \A d \in Engagements \ {e} :
                    grant'[a][d] = grant[a][d] /\ pending'[a][d] = pending[a][d]
    BY <1>2, RevokeGrantsType, DropInvitesType DEF CloseEngagement, TypeOK
  <2>2. ClosedIsRevoked'
    BY <2>1 DEF ClosedIsRevoked, TypeOK
  <2>3. DraftIsEmpty'
    BY <2>1 DEF DraftIsEmpty, TypeOK
  <2>4. InvitesAwaitAccounts'
    BY <1>2, <2>1 DEF CloseEngagement, InvitesAwaitAccounts, NoInvite
  <2> QED
    BY <2>2, <2>3, <2>4
<1>3. ASSUME NEW e \in Engagements, DeleteEngagement(e)
      PROVE  ClosedIsRevoked' /\ DraftIsEmpty' /\ InvitesAwaitAccounts'
  <2>1. /\ status' = [status EXCEPT ![e] = "deleted"]
        /\ \A a \in Auditors :
              /\ grant'[a][e] = NoGrant /\ pending'[a][e] = NoInvite
              /\ \A d \in Engagements \ {e} :
                    grant'[a][d] = grant[a][d] /\ pending'[a][d] = pending[a][d]
    BY <1>3, DropGrantsType, DropInvitesType DEF DeleteEngagement, TypeOK
  <2>2. ClosedIsRevoked'
    BY <2>1 DEF ClosedIsRevoked, TypeOK, NoGrant
  <2>3. DraftIsEmpty'
    BY <2>1 DEF DraftIsEmpty, TypeOK
  <2>4. InvitesAwaitAccounts'
    BY <1>3, <2>1 DEF DeleteEngagement, InvitesAwaitAccounts, NoInvite
  <2> QED
    BY <2>2, <2>3, <2>4
<1>4. ASSUME NEW a \in Auditors, Register(a)
      PROVE  ClosedIsRevoked' /\ DraftIsEmpty' /\ InvitesAwaitAccounts'
  <2>1. /\ status' = status /\ accounts' = accounts \cup {a}
        /\ \A e \in Engagements :
              /\ pending'[a][e].status # "live"
              /\ pending[a][e] = NoInvite =>
                    pending'[a][e] = NoInvite /\ grant'[a][e] = grant[a][e]
        /\ \A b \in Auditors \ {a} : grant'[b] = grant[b] /\ pending'[b] = pending[b]
    <3>1. pending[a] \in [Engagements -> Invites] /\ grant[a] \in [Engagements -> Grants]
      BY DEF TypeOK, GrantTables, InviteTables
    <3>2. /\ grant' = [grant EXCEPT ![a] = ConvertInvites(pending[a], grant[a])]
          /\ pending' = [pending EXCEPT ![a] = DropLive(pending[a], pending[a])]
      BY <1>4 DEF Register
    <3>3. \A e \in Engagements : pending[a][e] = NoInvite => pending[a][e].status # "live"
      BY DEF NoInvite
    <3>4. /\ grant'[a] = ConvertInvites(pending[a], grant[a])
          /\ pending'[a] = DropLive(pending[a], pending[a])
          /\ \A b \in Auditors \ {a} : grant'[b] = grant[b] /\ pending'[b] = pending[b]
      BY <3>2 DEF TypeOK, GrantTables, InviteTables
    <3>5. \A e \in Engagements :
              /\ pending'[a][e].status # "live"
              /\ pending[a][e] = NoInvite =>
                    pending'[a][e] = NoInvite /\ grant'[a][e] = grant[a][e]
      BY <3>1, <3>3, <3>4, ConvertInvitesType
    <3> QED
      BY <1>4, <3>4, <3>5 DEF Register
  <2>2. ClosedIsRevoked'
    BY <2>1 DEF ClosedIsRevoked
  <2>3. DraftIsEmpty'
    BY <2>1 DEF DraftIsEmpty
  <2>4. InvitesAwaitAccounts'
    BY <2>1 DEF InvitesAwaitAccounts
  <2> QED
    BY <2>2, <2>3, <2>4
<1>5. ASSUME NEW a \in Auditors, NEW es \in SUBSET Engagements, ExpireInvites(a, es)
      PROVE  ClosedIsRevoked' /\ DraftIsEmpty' /\ InvitesAwaitAccounts'
  <2>1. \A b \in Auditors, e \in Engagements :
            /\ pending'[b][e].status = "live" => pending[b][e].status = "live"
            /\ pending[b][e] = NoInvite => pending'[b][e] = NoInvite
    BY <1>5, <1>0 DEF ExpireInvites, TypeOK, InviteTables, Invites, NoInvite
  <2> QED
    BY <1>5, <2>1 DEF ExpireInvites, ClosedIsRevoked, DraftIsEmpty, InvitesAwaitAccounts
<1>6. ASSUME NEW e \in Engagements, NEW a \in Auditors, NEW areas \in SUBSET Areas,
             InviteAuditor(e, a, areas)
      PROVE  ClosedIsRevoked' /\ DraftIsEmpty' /\ InvitesAwaitAccounts'
  <2>1. /\ status[e] \notin {"none", "deleted", "closed"}
        /\ status'[e] \in {"invited", "active"}
        /\ \A d \in Engagements \ {e} : status'[d] = status[d]
    BY <1>6, <1>0 DEF InviteAuditor, MarkInvited, Exists, TypeOK, EngagementStates
  <2>2. \A b \in Auditors, d \in Engagements :
            /\ d # e => grant'[b][d] = grant[b][d] /\ pending'[b][d] = pending[b][d]
            /\ pending'[b][d].status = "live" => b \notin accounts
            /\ grant'[b][d] # NoGrant => b \in accounts
    <3>1. /\ a \in accounts => pending' = pending
          /\ a \notin accounts => grant' = grant
          /\ \A b \in Auditors, d \in Engagements :
                (b # a \/ d # e) => grant'[b][d] = grant[b][d] /\ pending'[b][d] = pending[b][d]
      BY <1>6 DEF InviteAuditor, TypeOK, GrantTables, InviteTables
    <3> QED
      BY <3>1 DEF InvitesAwaitAccounts
  <2> QED
    BY <1>6, <2>1, <2>2 DEF InviteAuditor, ClosedIsRevoked, DraftIsEmpty, InvitesAwaitAccounts
<1>7. ASSUME NEW e \in Engagements, NEW a \in Auditors, NEW areas \in SUBSET Areas,
             UpdateAccess(e, a, areas)
      PROVE  ClosedIsRevoked' /\ DraftIsEmpty' /\ InvitesAwaitAccounts'
  <2>1. \A b \in Auditors, d \in Engagements :
            (b # a \/ d # e) => grant'[b][d] = grant[b][d]
    BY <1>7 DEF UpdateAccess, TypeOK, GrantTables
  <2>2. grant[a][e] # NoGrant /\ grant[a][e].status \notin {"none", "revoked"}
    BY <1>7 DEF UpdateAccess, NoGrant
  <2> QED
    BY <1>7, <2>1, <2>2 DEF UpdateAccess, ClosedIsRevoked, DraftIsEmpty, InvitesAwaitAccounts
<1>8. ASSUME NEW e \in Engagements, NEW a \in Auditors, RemoveAuditor(e, a)
      PROVE  ClosedIsRevoked' /\ DraftIsEmpty' /\ InvitesAwaitAccounts'
  <2>1. \A b \in Auditors, d \in Engagements :
            (b # a \/ d # e) => grant'[b][d] = grant[b][d]
    BY <1>8 DEF RemoveAuditor, TypeOK, GrantTables
  <2>2. grant[a][e] # NoGrant /\ grant[a][e].status \notin {"none", "revoked"}
    BY <1>8 DEF RemoveAuditor, NoGrant
  <2> QED
    BY <1>8, <2>1, <2>2 DEF RemoveAuditor, ClosedIsRevoked, DraftIsEmpty, InvitesAwaitAccounts
<1>9. ASSUME NEW e \in Engagements, NEW a \in Auditors, CancelInvite(e, a)
      PROVE  ClosedIsRevoked' /\ DraftIsEmpty' /\ InvitesAwaitAccounts'
  <2>1. \A b \in Auditors, d \in Engagements :
            pending'[b][d] = pending[b][d] \/ pending'[b][d] = NoInvite
    BY <1>9 DEF CancelInvite, TypeOK, InviteTables
  <2> QED
    BY <1>9, <2>1
    DEF CancelInvite, ClosedIsRevoked, DraftIsEmpty, InvitesAwaitAccounts, NoInvite
<1>10. ASSUME NEW e \in Engagements, NEW a \in Auditors, AcceptEngagement(e, a)
       PROVE  ClosedIsRevoked' /\ DraftIsEmpty' /\ InvitesAwaitAccounts'
  <2>1. grant[a][e] # NoGrant /\ grant[a][e].status \notin {"none", "revoked"}
    BY <1>10 DEF AcceptEngagement, NoGrant
  <2>2. status[e] \in {"invited", "active"} /\ status'[e] = "active"
    BY <1>10, <1>0, <2>1
    DEF AcceptEngagement, EngagementStates, ClosedIsRevoked, DraftIsEmpty, TypeOK
  <2>3. /\ \A d \in Engagements \ {e} : status'[d] = status[d]
        /\ \A b \in Auditors, d \in Engagements :
              (b # a \/ d # e) => grant'[b][d] = grant[b][d]
    BY <1>10 DEF AcceptEngagement, TypeOK, GrantTables
  <2> QED
    BY <1>10, <2>1, <2>2, <2>3
    DEF AcceptEngagement, ClosedIsRevoked, DraftIsEmpty, InvitesAwaitAccounts
<1>11. CASE UNCHANGED vars
  BY <1>11 DEF vars, ClosedIsRevoked, DraftIsEmpty, InvitesAwaitAccounts
<1> QED
  BY <1>1, <1>2, <1>3, <1>4, <1>5, <1>6, <1>7, <1>8, <1>9, <1>10, <1>11 DEF Next

\* The inductive invariant holds in every state of the atomic life cycle.
THEOREM LifecycleInvariant == Spec => []Inv
<1>1. Init => Inv
  BY DEF Init, Inv, TypeOK, EngagementStates, GrantTables, InviteTables, Grants, Invites,
         NoGrant, NoInvite, ClosedIsRevoked, DraftIsEmpty, InvitesAwaitAccounts
<1> QED
  BY <1>1, LifecycleTypeCorrect, LifecycleInvInductive, PTL DEF Spec

\* A closed engagement has no invited or accepted grant and no invite: closing
\* takes everyone off, and nothing an auditor still holds leads back.
THEOREM LifecycleClosedIsRevoked == Spec => []ClosedIsRevoked
  BY LifecycleInvariant, PTL DEF Inv

\* Nobody is on a draft: the first invite makes it invited, and what deletes an
\* engagement leaves no grant or invite to it.
THEOREM LifecycleDraftIsEmpty == Spec => []DraftIsEmpty
  BY LifecycleInvariant, PTL DEF Inv

\* Usable invites wait for addresses without an account, and grants belong to
\* accounts.
THEOREM LifecycleInvitesAwaitAccounts == Spec => []InvitesAwaitAccounts
  BY LifecycleInvariant, PTL DEF Inv
-----------------------------------------------------------------------------
(* How the status of an engagement moves in one step.                      *)

Moves(e) ==
    /\ status[e] = "closed" => status'[e] \in {"closed", "deleted"}
    /\ status[e] = "active" => status'[e] # "deleted"
    /\ status'[e] = "active" /\ status[e] # "active" =>
          /\ status[e] = "invited"
          /\ \E a \in Auditors : /\ grant[a][e].status = "invited"
                                 /\ grant'[a][e].status = "accepted"

\* How one step may change an engagement's status, for the action properties.
LEMMA LifecycleMoves == TypeOK /\ [Next]_vars => \A e \in Engagements : Moves(e)
<1> SUFFICES ASSUME TypeOK, [Next]_vars, NEW d \in Engagements
             PROVE  Moves(d)
  OBVIOUS
<1> USE DEF TypeOK, Moves
<1>1. ASSUME NEW e \in Engagements, CreateEngagement(e)
      PROVE  Moves(d)
  BY <1>1 DEF CreateEngagement
<1>2. ASSUME NEW e \in Engagements, CloseEngagement(e)
      PROVE  Moves(d)
  BY <1>2 DEF CloseEngagement
<1>3. ASSUME NEW e \in Engagements, DeleteEngagement(e)
      PROVE  Moves(d)
  BY <1>3 DEF DeleteEngagement
<1>4. ASSUME NEW e \in Engagements, NEW a \in Auditors, NEW areas \in SUBSET Areas,
             InviteAuditor(e, a, areas)
      PROVE  Moves(d)
  BY <1>4 DEF InviteAuditor, MarkInvited
<1>5. ASSUME NEW e \in Engagements, NEW a \in Auditors, AcceptEngagement(e, a)
      PROVE  Moves(d)
  <2>1. grant[a][e].status = "invited" /\ grant'[a][e].status = "accepted"
    BY <1>5 DEF AcceptEngagement, GrantTables, Grants
  <2>2. status' = [status EXCEPT ![e] = IF @ = "invited" THEN "active" ELSE @]
    BY <1>5 DEF AcceptEngagement
  <2> QED
    BY <2>1, <2>2
<1>6. CASE UNCHANGED status
  BY <1>6
<1> QED
  BY <1>1, <1>2, <1>3, <1>4, <1>5, <1>6
  DEF Next, vars, Register, ExpireInvites, UpdateAccess, RemoveAuditor, CancelInvite

\* A closed engagement is never reopened.
THEOREM LifecycleClosedIsFinal == Spec => ClosedIsFinal
<1>1. TypeOK /\ [Next]_vars =>
        [\A e \in Engagements : status[e] = "closed" => status'[e] \in {"closed", "deleted"}]_vars
  BY LifecycleMoves DEF Moves
<1> QED
  BY <1>1, LifecycleTypeCorrect, PTL DEF Spec, ClosedIsFinal

\* An active engagement is never deleted.
THEOREM LifecycleActiveIsNeverDeleted == Spec => ActiveIsNeverDeleted
<1>1. TypeOK /\ [Next]_vars =>
        [\A e \in Engagements : status[e] = "active" => status'[e] # "deleted"]_vars
  BY LifecycleMoves DEF Moves
<1> QED
  BY <1>1, LifecycleTypeCorrect, PTL DEF Spec, ActiveIsNeverDeleted

\* An engagement becomes active only out of "invited", as one of its invited
\* auditors accepts.
THEOREM LifecycleActivatesByAcceptance == Spec => ActivatesByAcceptance
<1>1. TypeOK /\ [Next]_vars =>
        [\A e \in Engagements : status'[e] = "active" /\ status[e] # "active" =>
            /\ status[e] = "invited"
            /\ \E a \in Auditors : /\ grant[a][e].status = "invited"
                                   /\ grant'[a][e].status = "accepted"]_vars
  BY LifecycleMoves DEF Moves
<1> QED
  BY <1>1, LifecycleTypeCorrect, PTL DEF Spec, ActivatesByAcceptance
=============================================================================
