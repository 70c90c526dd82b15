----------------------- MODULE EngagementTablesProofs -----------------------
(***************************************************************************)
(* Lemmas about the statements of EngagementTables, for the proofs about   *)
(* EngagementLifecycle and Engagement.                                     *)
(***************************************************************************)
EXTENDS EngagementTables, TLAPS

-----------------------------------------------------------------------------
(* What the bulk statements make of the tables.                            *)

\* Revoking the grants found keeps the table well formed and touches no other row.
LEMMA RevokeFoundType ==
    ASSUME NEW table \in GrantTables, NEW e \in Engagements, NEW found
    PROVE  /\ RevokeFound(table, e, found) \in GrantTables
           /\ \A a \in Auditors :
                 /\ a \in found => RevokeFound(table, e, found)[a][e].status = "revoked"
                 /\ a \notin found => RevokeFound(table, e, found)[a][e] = table[a][e]
                 /\ \A d \in Engagements \ {e} :
                       RevokeFound(table, e, found)[a][d] = table[a][d]
<1> DEFINE Revoked(a, g) == IF a \in found THEN [g EXCEPT !.status = "revoked"] ELSE g
<1>1. \A a \in Auditors, g \in Grants : /\ Revoked(a, g) \in Grants
                                        /\ a \in found => Revoked(a, g).status = "revoked"
                                        /\ a \notin found => Revoked(a, g) = g
  BY DEF Grants, NoGrant
<1>2. \A a \in Auditors :
          /\ table[a] \in [Engagements -> Grants]
          /\ RevokeFound(table, e, found)[a] = [table[a] EXCEPT ![e] = Revoked(a, table[a][e])]
  BY DEF RevokeFound, GrantTables
<1>3. \A a \in Auditors :
          /\ RevokeFound(table, e, found)[a] \in [Engagements -> Grants]
          /\ RevokeFound(table, e, found)[a][e] = Revoked(a, table[a][e])
          /\ \A d \in Engagements \ {e} : RevokeFound(table, e, found)[a][d] = table[a][d]
  <2> TAKE a \in Auditors
  <2> DEFINE row == table[a]
             g == Revoked(a, row[e])
  <2>1. row \in [Engagements -> Grants] /\ g \in Grants
    <3> HIDE DEF Revoked
    <3> QED
      BY <1>1, <1>2
  <2>2. RevokeFound(table, e, found)[a] = [row EXCEPT ![e] = g]
    BY <1>2
  <2> HIDE DEF row, g
  <2>3. /\ [row EXCEPT ![e] = g] \in [Engagements -> Grants]
        /\ [row EXCEPT ![e] = g][e] = g
        /\ \A d \in Engagements \ {e} : [row EXCEPT ![e] = g][d] = row[d]
    BY <2>1
  <2> QED
    BY <2>2, <2>3 DEF row, g
<1>4. RevokeFound(table, e, found) \in GrantTables
  BY <1>3 DEF RevokeFound, GrantTables
<1>5. ASSUME NEW a \in Auditors
      PROVE  /\ a \in found => RevokeFound(table, e, found)[a][e].status = "revoked"
             /\ a \notin found => RevokeFound(table, e, found)[a][e] = table[a][e]
             /\ \A d \in Engagements \ {e} :
                   RevokeFound(table, e, found)[a][d] = table[a][d]
  <2> DEFINE g == table[a][e]
  <2>1. g \in Grants
    BY <1>2
  <2>2. /\ a \in found => Revoked(a, g).status = "revoked"
        /\ a \notin found => Revoked(a, g) = g
    <3> HIDE DEF Revoked, g
    <3> QED
      BY <1>1, <2>1
  <2>3. RevokeFound(table, e, found)[a][e] = Revoked(a, g)
    BY <1>3
  <2> HIDE DEF Revoked
  <2> QED
    BY <1>3, <2>2, <2>3
<1> QED
  BY <1>4, <1>5

\* Closing an engagement keeps the grants well formed, revokes those of that
\* engagement and touches no other.
LEMMA RevokeGrantsType ==
    ASSUME NEW table \in GrantTables, NEW e \in Engagements
    PROVE  /\ RevokeGrants(table, e) \in GrantTables
           /\ \A a \in Auditors :
                 /\ RevokeGrants(table, e)[a][e].status \in {"none", "revoked"}
                 /\ table[a][e] = NoGrant => RevokeGrants(table, e)[a][e] = NoGrant
                 /\ table[a][e].status # "none" => RevokeGrants(table, e)[a][e] # NoGrant
                 /\ \A d \in Engagements \ {e} : RevokeGrants(table, e)[a][d] = table[a][d]
<1> DEFINE found == {a \in Auditors : table[a][e] # NoGrant}
<1>1. \A a \in Auditors : a \in found <=> table[a][e] # NoGrant
  OBVIOUS
<1>2. RevokeGrants(table, e) = RevokeFound(table, e, found)
  BY DEF RevokeGrants
<1>3. NoGrant.status = "none"
  BY DEF NoGrant
<1> HIDE DEF found
<1> QED
  BY <1>1, <1>2, <1>3, RevokeFoundType

\* The cascade of a deletion keeps the grants well formed.
LEMMA DropGrantsType ==
    ASSUME NEW table \in GrantTables, NEW e \in Engagements
    PROVE  /\ DropGrants(table, e) \in GrantTables
           /\ \A a \in Auditors :
                 /\ DropGrants(table, e)[a][e] = NoGrant
                 /\ \A d \in Engagements \ {e} : DropGrants(table, e)[a][d] = table[a][d]
  BY DEF DropGrants, GrantTables, Grants, NoGrant

\* Dropping the invites found keeps the table well formed and touches no other row.
LEMMA DropFoundType ==
    ASSUME NEW table \in InviteTables, NEW e \in Engagements, NEW found
    PROVE  /\ DropFound(table, e, found) \in InviteTables
           /\ \A a \in Auditors :
                 /\ a \in found => DropFound(table, e, found)[a][e] = NoInvite
                 /\ a \notin found => DropFound(table, e, found)[a][e] = table[a][e]
                 /\ \A d \in Engagements \ {e} : DropFound(table, e, found)[a][d] = table[a][d]
  BY DEF DropFound, InviteTables, Invites, NoInvite

\* Dropping an engagement's invites keeps the invites well formed.
LEMMA DropInvitesType ==
    ASSUME NEW table \in InviteTables, NEW e \in Engagements
    PROVE  /\ DropInvites(table, e) \in InviteTables
           /\ \A a \in Auditors :
                 /\ DropInvites(table, e)[a][e] = NoInvite
                 /\ \A d \in Engagements \ {e} : DropInvites(table, e)[a][d] = table[a][d]
<1> DEFINE found == {a \in Auditors : table[a][e] # NoInvite}
<1>1. \A a \in Auditors : a \in found <=> table[a][e] # NoInvite
  OBVIOUS
<1>2. DropInvites(table, e) = DropFound(table, e, found)
  BY DEF DropInvites
<1> HIDE DEF found
<1> QED
  BY <1>1, <1>2, DropFoundType

\* Converting an address's invites yields well-formed grants.
LEMMA ConvertInvitesType ==
    ASSUME NEW invites \in [Engagements -> Invites], NEW grants \in [Engagements -> Grants]
    PROVE  /\ ConvertInvites(invites, grants) \in [Engagements -> Grants]
           /\ DropLive(invites, invites) \in [Engagements -> Invites]
           /\ \A e \in Engagements :
                 /\ DropLive(invites, invites)[e].status # "live"
                 /\ invites[e] = NoInvite => DropLive(invites, invites)[e] = NoInvite
                 /\ invites[e].status # "live" => ConvertInvites(invites, grants)[e] = grants[e]
                 /\ invites[e].status = "live" => ConvertInvites(invites, grants)[e] # NoGrant
<1>1. \A i \in Invites : i.status = "live" =>
          /\ [status |-> "invited", areas |-> i.areas] \in Grants
          /\ [status |-> "invited", areas |-> i.areas] # NoGrant
  BY DEF Invites, NoInvite, Grants, NoGrant
<1>2. /\ ConvertInvites(invites, grants) \in [Engagements -> Grants]
      /\ \A e \in Engagements :
            /\ invites[e].status # "live" => ConvertInvites(invites, grants)[e] = grants[e]
            /\ invites[e].status = "live" => ConvertInvites(invites, grants)[e] # NoGrant
  BY <1>1 DEF ConvertInvites
<1>3. NoInvite \in Invites /\ NoInvite.status # "live"
  BY DEF Invites, NoInvite
<1> QED
  BY <1>2, <1>3 DEF DropLive

\* Writing one grant keeps the table well formed.
LEMMA WriteGrantType ==
    ASSUME NEW table \in GrantTables, NEW a \in Auditors, NEW e \in Engagements,
           NEW g \in Grants
    PROVE  [table EXCEPT ![a][e] = g] \in GrantTables
  BY DEF GrantTables

\* Writing one grant's status keeps the table well formed.
LEMMA WriteGrantStatusType ==
    ASSUME NEW table \in GrantTables, NEW a \in Auditors, NEW e \in Engagements,
           table[a][e] # NoGrant,
           NEW s \in {"invited", "accepted", "revoked"}
    PROVE  /\ [table EXCEPT ![a][e].status = s] \in GrantTables
           /\ [table EXCEPT ![a][e].status = s][a][e] # NoGrant
<1>1. /\ [table[a][e] EXCEPT !.status = s] \in Grants
      /\ [table[a][e] EXCEPT !.status = s].status = s
  BY DEF GrantTables, Grants
<1> QED
  BY <1>1 DEF GrantTables, NoGrant

\* Writing one invite keeps the table well formed.
LEMMA WriteInviteType ==
    ASSUME NEW table \in InviteTables, NEW a \in Auditors, NEW e \in Engagements,
           NEW i \in Invites
    PROVE  [table EXCEPT ![a][e] = i] \in InviteTables
  BY DEF InviteTables
=============================================================================
