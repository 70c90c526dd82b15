-------------------------- MODULE EngagementProofs --------------------------
(***************************************************************************)
(* Engagement for any number of requests in flight.  What a request has    *)
(* read goes stale; the invariant says what of it still holds: statuses do *)
(* not go back to "draft", a row that a request has locked is there, and   *)
(* no row is locked twice.                                                 *)
(***************************************************************************)
EXTENDS Engagement, EngagementTablesProofs

Inviting(r) == req[r].pc \in {"inviteLookup", "invitePending", "inviteNew", "inviteAgain"}

RequestOK(r) ==
    /\ req[r].pc \notin {"idle", "register"} => req[r].e \in Engagements
    /\ req[r].pc \notin {"idle", "closeStatus", "closeGrants", "closeInvites", "closeCommit",
                       "deleteRow", "deleteCascade"} =>
          req[r].a \in Auditors
    /\ Inviting(r) => /\ status[req[r].e] # "none"
                      /\ req[r].seen # "draft" => status[req[r].e] # "draft"
    /\ At(r, "inviteNew") => req[r].a \in accounts
    /\ HoldsEngagement(r) => Exists(status[req[r].e])
    /\ \A e \in Engagements, a \in Auditors : HoldsGrant(r, e, a) => grant[a][e] # NoGrant
    /\ \A e \in Converted(r) : status[e] \notin {"none", "draft"}

OneHolder ==
    \A q, r \in Requests :
        HoldsEngagement(q) /\ HoldsEngagement(r) /\ req[q].e = req[r].e => q = r

OneGrantHolder ==
    \A q, r \in Requests, e \in Engagements, a \in Auditors :
        HoldsGrant(q, e, a) /\ HoldsGrant(r, e, a) => q = r

\* A request that has locked nothing.
Unlocked(r) ==
    ~HoldsEngagement(r) /\ \A e \in Engagements, a \in Auditors : ~HoldsGrant(r, e, a)

IInv ==
    /\ TypeOK
    /\ DraftIsEmpty
    /\ GrantsBelongToAccounts
    /\ OneHolder
    /\ OneGrantHolder
    /\ \A r \in Requests : RequestOK(r)

-----------------------------------------------------------------------------

\* A request that has ended has nothing left to be wrong about.
LEMMA IdleIsOK ==
    /\ Idle \in RequestStates
    /\ Idle.pc = "idle"
    /\ \A e \in Engagements : Idle.rows[e].status # "live"
  BY DEF Idle, RequestStates, Steps, EngagementStates, Invites, NoInvite

\* DraftIsEmpty, which is the abstract module's, in the terms of this one.
LEMMA DraftIsEmptyHere ==
    DraftIsEmpty <=> \A e \in Engagements : status[e] \in {"none", "draft", "deleted"} =>
                        \A a \in Auditors : grant[a][e] = NoGrant /\ pending[a][e] = NoInvite
  BY DEF DraftIsEmpty, Tables!DraftIsEmpty, Tables!NoGrant, Tables!NoInvite, NoGrant, NoInvite

\* A step that only reads: one request moves, and the tables stay.
LEMMA ReadStep ==
    ASSUME IInv, UNCHANGED tables, NEW r \in Requests, NEW to \in RequestStates,
           req' = [req EXCEPT ![r] = to],
           RequestOK(r)',
           HoldsEngagement(r)' => EngagementFree(r, to.e),
           \A e \in Engagements, a \in Auditors : HoldsGrant(r, e, a)' => GrantFree(r, e, a)
    PROVE  IInv'
<1> USE DEF IInv
<1>1. /\ req'[r] = to
      /\ \A q \in Requests \ {r} : req'[q] = req[q]
      /\ UNCHANGED <<status, grant, pending, accounts>>
  BY DEF TypeOK, tables
<1>2. TypeOK'
  BY <1>1 DEF TypeOK
<1>3. DraftIsEmpty' /\ GrantsBelongToAccounts'
  BY <1>1 DEF DraftIsEmpty, Tables!DraftIsEmpty, GrantsBelongToAccounts
<1>4. \A q \in Requests \ {r} :
          /\ HoldsEngagement(q)' = HoldsEngagement(q)
          /\ \A e \in Engagements, a \in Auditors : HoldsGrant(q, e, a)' = HoldsGrant(q, e, a)
  BY <1>1 DEF HoldsEngagement, HoldsGrant, At
<1>5. OneHolder'
  BY <1>1, <1>4 DEF OneHolder, EngagementFree
<1>6. OneGrantHolder'
  BY <1>1, <1>4 DEF OneGrantHolder, GrantFree
<1>7. \A q \in Requests \ {r} : RequestOK(q)'
  BY <1>1, <1>4 DEF RequestOK, Inviting, At, Converted
<1> QED
  BY <1>2, <1>3, <1>5, <1>6, <1>7

\* A step that only reads and leaves its request without a lock.
LEMMA UnlockedStep ==
    ASSUME IInv, UNCHANGED tables, NEW r \in Requests, NEW to \in RequestStates,
           req' = [req EXCEPT ![r] = to],
           RequestOK(r)', Unlocked(r)'
    PROVE  IInv'
  BY ReadStep DEF Unlocked

\* A step that changes the tables: some requests end, the others are where they
\* were and what they rely on is left to them.
LEMMA WriteStep ==
    ASSUME IInv,
           \A q \in Requests :
               \/ req'[q] = Idle
               \/ /\ req'[q].pc = req[q].pc /\ req'[q].e = req[q].e /\ req'[q].a = req[q].a
                  /\ req'[q].seen = req[q].seen /\ req'[q].rows = req[q].rows
                  /\ req'[q].revokes = req[q].revokes
                  /\ HoldsEngagement(q) => Exists(status'[req[q].e])
                  /\ \A e \in Engagements, a \in Auditors :
                        HoldsGrant(q, e, a) => grant'[a][e] # NoGrant,
           accounts \subseteq accounts',
           \A e \in Engagements : /\ status[e] # "none" => status'[e] # "none"
                                  /\ status[e] \notin {"none", "draft"} =>
                                        status'[e] \notin {"none", "draft"}
    PROVE  OneHolder' /\ OneGrantHolder' /\ \A q \in Requests : RequestOK(q)'
<1> USE DEF IInv
<1>1. ASSUME NEW q \in Requests, req'[q] = Idle
      PROVE  RequestOK(q)' /\ Unlocked(q)'
  BY <1>1, IdleIsOK
  DEF RequestOK, Unlocked, Inviting, At, HoldsEngagement, HoldsGrant, Converted
<1>2. ASSUME NEW q \in Requests, req'[q] # Idle
      PROVE  /\ RequestOK(q)' /\ (HoldsEngagement(q)' => HoldsEngagement(q))
             /\ \A e \in Engagements, a \in Auditors :
                   HoldsGrant(q, e, a)' => HoldsGrant(q, e, a)
  <2>1. /\ req'[q].pc = req[q].pc /\ req'[q].e = req[q].e /\ req'[q].a = req[q].a
        /\ req'[q].seen = req[q].seen /\ req'[q].rows = req[q].rows
        /\ HoldsEngagement(q)' = HoldsEngagement(q)
        /\ \A e \in Engagements, a \in Auditors : HoldsGrant(q, e, a)' = HoldsGrant(q, e, a)
    BY <1>2 DEF HoldsEngagement, HoldsGrant, At
  <2>2. RequestOK(q)
    OBVIOUS
  <2>3. Inviting(q) => req[q].e \in Engagements
    BY <2>2 DEF RequestOK, Inviting
  <2> QED
    BY <1>2, <2>1, <2>2, <2>3 DEF RequestOK, Inviting, At, Converted
<1>3. \A q \in Requests : req'[q] # Idle => req'[q].e = req[q].e
  OBVIOUS
<1>4. OneHolder'
  BY <1>1, <1>2, <1>3 DEF OneHolder, Unlocked
<1>5. OneGrantHolder'
  BY <1>1, <1>2 DEF OneGrantHolder, Unlocked
<1> QED
  BY <1>1, <1>2, <1>4, <1>5
-----------------------------------------------------------------------------
(* The steps that leave the tables alone.                                  *)

\* A request that selects its rows leaves the tables alone and establishes what it
\* will rely on.
LEMMA ArriveStep ==
    ASSUME IInv, NEW r \in Requests, Arrive(r)
    PROVE  IInv'
<1> USE DEF IInv
<1>0. /\ \A e \in Engagements : status[e] \in EngagementStates
      /\ \A a \in Auditors : pending[a] \in [Engagements -> Invites]
      /\ req[r] \in RequestStates
      /\ RequestOK(r)
  BY DEF TypeOK, InviteTables
<1>1. ASSUME NEW e \in Engagements, CloseRead(r, e)
      PROVE  IInv'
  <2> DEFINE to == [Idle EXCEPT !.pc = "closeStatus", !.e = e, !.seen = status[e]]
  <2>1. to \in RequestStates /\ req' = [req EXCEPT ![r] = to] /\ UNCHANGED tables
    BY <1>0, <1>1, IdleIsOK DEF CloseRead, RequestStates, Steps
  <2>2. RequestOK(r)' /\ Unlocked(r)'
    BY <1>0, <1>1, <2>1, IdleIsOK
    DEF CloseRead, RequestOK, Inviting, At, HoldsEngagement, HoldsGrant, Unlocked,
        Converted, TypeOK, RequestStates, tables, Exists
  <2> QED
    BY <2>1, <2>2, UnlockedStep
<1>2. ASSUME NEW e \in Engagements, DeleteRead(r, e)
      PROVE  IInv'
  <2> DEFINE to == [req[r] EXCEPT !.pc = "deleteRow", !.e = e, !.a = None]
  <2>1. to \in RequestStates /\ req' = [req EXCEPT ![r] = to] /\ UNCHANGED tables
    BY <1>0, <1>2, IdleIsOK DEF DeleteRead, Begin, RequestStates, Steps
  <2>2. RequestOK(r)' /\ Unlocked(r)'
    BY <1>0, <1>2, <2>1, IdleIsOK
    DEF DeleteRead, Begin, RequestOK, Inviting, At, HoldsEngagement, HoldsGrant, Unlocked,
        Converted, TypeOK, RequestStates, tables, Exists
  <2> QED
    BY <2>1, <2>2, UnlockedStep
<1>3. ASSUME NEW a \in Auditors, RegisterRead(r, a)
      PROVE  IInv'
  <2> DEFINE live == {e \in Engagements : pending[a][e].status = "live"}
             found == [e \in Engagements |-> IF e \in live THEN pending[a][e] ELSE NoInvite]
             to == [Idle EXCEPT !.pc = "register", !.a = a, !.held = live, !.rows = found]
  <2>1. found \in [Engagements -> Invites]
    BY <1>0 DEF Invites, NoInvite
  <2>2. \A e \in Engagements : found[e].status = "live" => status[e] \notin {"none", "draft"}
    <3>1. NoInvite.status # "live"
      BY DEF NoInvite
    <3>2. \A e \in Engagements : found[e].status = "live" => pending[a][e] # NoInvite
      BY <3>1
    <3>3. \A e \in Engagements :
             status[e] \in {"none", "draft"} => pending[a][e] = NoInvite
      BY DraftIsEmptyHere
    <3> QED
      BY <3>2, <3>3
  <2>3. req' = [req EXCEPT ![r] = to] /\ UNCHANGED tables
    BY <1>3 DEF RegisterRead
  <2> HIDE DEF found
  <2>4. to \in RequestStates
    BY <2>1, IdleIsOK DEF RequestStates, Steps
  <2>5. req'[r] = to
    BY <2>3 DEF TypeOK
  <2>6. to.pc = "register" /\ to.a = a /\ to.rows = found
    BY <2>4 DEF Idle
  <2>7. RequestOK(r)' /\ Unlocked(r)'
    BY <2>2, <2>3, <2>5, <2>6
    DEF RequestOK, Inviting, At, HoldsEngagement, HoldsGrant, Unlocked, Converted, tables
  <2> QED
    BY <2>3, <2>4, <2>7, UnlockedStep
<1>4. ASSUME NEW e \in Engagements, NEW a \in Auditors, NEW areas \in SUBSET Areas,
             InviteRead(r, e, a, areas)
      PROVE  IInv'
  <2> DEFINE to == [Idle EXCEPT !.pc = "inviteLookup", !.e = e, !.a = a,
                                !.areas = areas, !.seen = status[e]]
  <2>1. to \in RequestStates /\ req' = [req EXCEPT ![r] = to] /\ UNCHANGED tables
    BY <1>0, <1>4, IdleIsOK DEF InviteRead, RequestStates, Steps
  <2>2. RequestOK(r)' /\ Unlocked(r)'
    BY <1>0, <1>4, <2>1, IdleIsOK
    DEF InviteRead, RequestOK, Inviting, At, HoldsEngagement, HoldsGrant, Unlocked,
        Converted, TypeOK, RequestStates, tables, Exists
  <2> QED
    BY <2>1, <2>2, UnlockedStep
<1>5. ASSUME NEW e \in Engagements, NEW a \in Auditors, NEW areas \in SUBSET Areas,
             AccessRead(r, e, a, areas)
      PROVE  IInv'
  <2> DEFINE to == [Idle EXCEPT !.pc = "access", !.e = e, !.a = a, !.areas = areas]
  <2>1. to \in RequestStates /\ req' = [req EXCEPT ![r] = to] /\ UNCHANGED tables
    BY <1>0, <1>5, IdleIsOK DEF AccessRead, RequestStates, Steps
  <2>2. RequestOK(r)' /\ Unlocked(r)'
    BY <1>0, <1>5, <2>1, IdleIsOK
    DEF AccessRead, RequestOK, Inviting, At, HoldsEngagement, HoldsGrant, Unlocked,
        Converted, TypeOK, RequestStates, tables, Exists
  <2> QED
    BY <2>1, <2>2, UnlockedStep
<1>6. ASSUME NEW e \in Engagements, NEW a \in Auditors, RemoveRead(r, e, a)
      PROVE  IInv'
  <2> DEFINE to == [req[r] EXCEPT !.pc = "remove", !.e = e, !.a = a]
  <2>1. to \in RequestStates /\ req' = [req EXCEPT ![r] = to] /\ UNCHANGED tables
    BY <1>0, <1>6, IdleIsOK DEF RemoveRead, Begin, RequestStates, Steps
  <2>2. RequestOK(r)' /\ Unlocked(r)'
    BY <1>0, <1>6, <2>1, IdleIsOK
    DEF RemoveRead, Begin, RequestOK, Inviting, At, HoldsEngagement, HoldsGrant, Unlocked,
        Converted, TypeOK, RequestStates, tables, Exists
  <2> QED
    BY <2>1, <2>2, UnlockedStep
<1>7. ASSUME NEW e \in Engagements, NEW a \in Auditors, CancelRead(r, e, a)
      PROVE  IInv'
  <2> DEFINE to == [Idle EXCEPT !.pc = "cancel", !.e = e, !.a = a, !.held = {e}]
  <2>1. to \in RequestStates /\ req' = [req EXCEPT ![r] = to] /\ UNCHANGED tables
    BY <1>0, <1>7, IdleIsOK DEF CancelRead, RequestStates, Steps
  <2>2. RequestOK(r)' /\ Unlocked(r)'
    BY <1>0, <1>7, <2>1, IdleIsOK
    DEF CancelRead, RequestOK, Inviting, At, HoldsEngagement, HoldsGrant, Unlocked,
        Converted, TypeOK, RequestStates, tables, Exists
  <2> QED
    BY <2>1, <2>2, UnlockedStep
<1>8. ASSUME NEW e \in Engagements, NEW a \in Auditors, AcceptRead(r, e, a)
      PROVE  IInv'
  <2> DEFINE to == [req[r] EXCEPT !.pc = "acceptFlush", !.e = e, !.a = a]
  <2>1. to \in RequestStates /\ req' = [req EXCEPT ![r] = to] /\ UNCHANGED tables
    BY <1>0, <1>8, IdleIsOK DEF AcceptRead, Begin, RequestStates, Steps
  <2>2. RequestOK(r)' /\ Unlocked(r)'
    BY <1>0, <1>8, <2>1, IdleIsOK
    DEF AcceptRead, Begin, RequestOK, Inviting, At, HoldsEngagement, HoldsGrant, Unlocked,
        Converted, TypeOK, RequestStates, tables, Exists
  <2> QED
    BY <2>1, <2>2, UnlockedStep
<1> QED
  BY <1>1, <1>2, <1>3, <1>4, <1>5, <1>6, <1>7, <1>8 DEF Arrive

\* Ending a request without writing (early return, failed statement, deadlock
\* victim, lost connection) preserves the invariant.
LEMMA EndStep ==
    ASSUME IInv, NEW r \in Requests, Done(r), UNCHANGED tables
    PROVE  IInv'
<1>1. req' = [req EXCEPT ![r] = Idle]
  BY DEF Done
<1>2. RequestOK(r)' /\ Unlocked(r)'
  BY <1>1, IdleIsOK
  DEF IInv, TypeOK, RequestOK, Inviting, At, HoldsEngagement, HoldsGrant, Unlocked, Converted
<1> QED
  BY <1>1, <1>2, IdleIsOK, UnlockedStep

\* The second SELECT of invite_auditor preserves the invariant.
LEMMA LookupStep ==
    ASSUME IInv, NEW r \in Requests, InviteLookup(r)
    PROVE  IInv'
<1> USE DEF IInv
<1>1. CASE Done(r)
  BY <1>1, EndStep DEF InviteLookup
<1>2. ASSUME NEW step \in {"invitePending", "inviteNew", "inviteAgain"}, Goto(r, step),
             step = "inviteNew" => req[r].a \in accounts
      PROVE  IInv'
  <2> DEFINE to == [req[r] EXCEPT !.pc = step]
  <2>1. /\ to \in RequestStates /\ req' = [req EXCEPT ![r] = to] /\ UNCHANGED tables
        /\ At(r, "inviteLookup") /\ RequestOK(r)
    BY <1>2 DEF InviteLookup, Goto, TypeOK, RequestStates, Steps
  <2>2. RequestOK(r)' /\ Unlocked(r)'
    BY <1>2, <2>1
    DEF RequestOK, Inviting, At, HoldsEngagement, HoldsGrant, Unlocked, Converted,
        TypeOK, RequestStates, tables
  <2> QED
    BY <2>1, <2>2, UnlockedStep
<1> QED
  BY <1>1, <1>2 DEF InviteLookup

\* close_engagement takes the engagement's row lock only when nobody holds it.
LEMMA CloseStatusStep ==
    ASSUME IInv, NEW r \in Requests, CloseStatus(r)
    PROVE  IInv'
<1> USE DEF IInv
<1> DEFINE to == [req[r] EXCEPT !.pc = "closeGrants"]
<1>1. /\ to \in RequestStates /\ req' = [req EXCEPT ![r] = to] /\ UNCHANGED tables
      /\ At(r, "closeStatus") /\ RequestOK(r)
  BY DEF CloseStatus, Goto, TypeOK, RequestStates, Steps
<1>2. \A e \in Engagements, a \in Auditors : ~HoldsGrant(r, e, a)'
  BY <1>1 DEF At, HoldsGrant, TypeOK, RequestStates
<1>3. RequestOK(r)' /\ (HoldsEngagement(r)' => EngagementFree(r, to.e))
  BY <1>1, <1>2
  DEF CloseStatus, RequestOK, Inviting, At, HoldsEngagement, Converted, TypeOK, RequestStates,
      tables
<1> QED
  BY <1>1, <1>2, <1>3, ReadStep

\* Its UPDATE of the grants locks rows that are there and that nobody holds.
LEMMA CloseGrantsStep ==
    ASSUME IInv, NEW r \in Requests, CloseGrants(r)
    PROVE  IInv'
<1> USE DEF IInv
<1> DEFINE there == {a \in Auditors : grant[a][req[r].e] # NoGrant}
           to == [req[r] EXCEPT !.pc = "closeInvites", !.revokes = there]
<1>1. /\ to \in RequestStates /\ req' = [req EXCEPT ![r] = to] /\ UNCHANGED tables
      /\ At(r, "closeGrants") /\ RequestOK(r) /\ req[r].e \in Engagements
      /\ \A a \in there : GrantFree(r, req[r].e, a)
  BY DEF CloseGrants, TypeOK, RequestStates, Steps, RequestOK, At
<1>2. req'[r] = to /\ to.e = req[r].e /\ to.pc = "closeInvites" /\ to.seen = req[r].seen
      /\ to.revokes = there /\ to.rows = req[r].rows
  BY <1>1 DEF TypeOK, RequestStates
<1> HIDE DEF to
<1>3. \A e \in Engagements, a \in Auditors :
          HoldsGrant(r, e, a)' => e = req[r].e /\ a \in there
  BY <1>2 DEF HoldsGrant, At
<1>4. HoldsEngagement(r)' = HoldsEngagement(r)
  BY <1>1, <1>2 DEF HoldsEngagement, At
<1>5. RequestOK(r)'
  BY <1>1, <1>2, <1>3, <1>4 DEF RequestOK, Inviting, At, Converted, tables
<1>6. HoldsEngagement(r)' => EngagementFree(r, to.e)
  BY <1>2, <1>4 DEF OneHolder, EngagementFree
<1> QED
  BY <1>1, <1>3, <1>5, <1>6, ReadStep

\* Its DELETE of the invites locks no row that the invariant is about.
LEMMA CloseInvitesStep ==
    ASSUME IInv, NEW r \in Requests, CloseInvites(r)
    PROVE  IInv'
<1> USE DEF IInv
<1> DEFINE there == {a \in Auditors : pending[a][req[r].e] # NoInvite}
           to == [req[r] EXCEPT !.pc = "closeCommit", !.drops = there]
<1>1. /\ to \in RequestStates /\ req' = [req EXCEPT ![r] = to] /\ UNCHANGED tables
      /\ At(r, "closeInvites") /\ RequestOK(r) /\ req[r].e \in Engagements
  BY DEF CloseInvites, TypeOK, RequestStates, Steps, RequestOK, At
<1>2. req'[r] = to /\ to.e = req[r].e /\ to.pc = "closeCommit" /\ to.seen = req[r].seen
      /\ to.revokes = req[r].revokes /\ to.rows = req[r].rows
  BY <1>1 DEF TypeOK, RequestStates
<1> HIDE DEF to
<1>3. \A e \in Engagements, a \in Auditors : HoldsGrant(r, e, a)' = HoldsGrant(r, e, a)
  BY <1>1, <1>2 DEF HoldsGrant, At
<1>4. HoldsEngagement(r)' = HoldsEngagement(r)
  BY <1>1, <1>2 DEF HoldsEngagement, At
<1>5. RequestOK(r)'
  BY <1>1, <1>2, <1>3, <1>4 DEF RequestOK, Inviting, At, Converted, tables
<1>6. HoldsEngagement(r)' => EngagementFree(r, to.e)
  BY <1>2, <1>4 DEF OneHolder, EngagementFree
<1>7. \A e \in Engagements, a \in Auditors : HoldsGrant(r, e, a)' => GrantFree(r, e, a)
  BY <1>3 DEF OneGrantHolder, GrantFree
<1> QED
  BY <1>1, <1>5, <1>6, <1>7, ReadStep

\* delete_engagement takes the engagement's row lock only when nobody holds it.
LEMMA DeleteRowStep ==
    ASSUME IInv, NEW r \in Requests, DeleteRow(r)
    PROVE  IInv'
<1> USE DEF IInv
<1>1. CASE Done(r)
  BY <1>1, EndStep DEF DeleteRow
<1>2. CASE Exists(status[req[r].e]) /\ Goto(r, "deleteCascade")
  <2> DEFINE to == [req[r] EXCEPT !.pc = "deleteCascade"]
  <2>1. /\ to \in RequestStates /\ req' = [req EXCEPT ![r] = to] /\ UNCHANGED tables
        /\ At(r, "deleteRow") /\ RequestOK(r)
    BY <1>2 DEF DeleteRow, Goto, TypeOK, RequestStates, Steps
  <2>2. \A e \in Engagements, a \in Auditors : ~HoldsGrant(r, e, a)'
    BY <2>1 DEF At, HoldsGrant, TypeOK, RequestStates
  <2>3. RequestOK(r)' /\ EngagementFree(r, to.e)
    BY <1>2, <2>1, <2>2
    DEF DeleteRow, RequestOK, Inviting, At, HoldsEngagement, Converted, TypeOK, RequestStates,
        tables
  <2> QED
    BY <2>1, <2>2, <2>3, ReadStep
<1> QED
  BY <1>1, <1>2 DEF DeleteRow

\* An acceptance locks a grant that is there and that nobody holds.
LEMMA AcceptFlushStep ==
    ASSUME IInv, NEW r \in Requests, AcceptFlush(r)
    PROVE  IInv'
<1> USE DEF IInv
<1> DEFINE to == [req[r] EXCEPT !.pc = "acceptCommit", !.seen = status[req[r].e]]
<1>1. /\ At(r, "acceptFlush") /\ RequestOK(r)
      /\ req[r].e \in Engagements /\ req[r].a \in Auditors
      /\ grant[req[r].a][req[r].e] # NoGrant /\ GrantFree(r, req[r].e, req[r].a)
  BY DEF AcceptFlush, RequestOK, At
<1>2. to \in RequestStates /\ req' = [req EXCEPT ![r] = to] /\ UNCHANGED tables
  BY <1>1 DEF AcceptFlush, TypeOK, RequestStates, Steps
<1>3. \A e \in Engagements, a \in Auditors :
          HoldsGrant(r, e, a)' => e = req[r].e /\ a = req[r].a
  BY <1>1, <1>2 DEF HoldsGrant, At, TypeOK, RequestStates
<1>4. RequestOK(r)' /\ ~HoldsEngagement(r)'
  BY <1>1, <1>2, <1>3
  DEF RequestOK, Inviting, At, HoldsEngagement, Converted, TypeOK, RequestStates, tables
<1> QED
  BY <1>1, <1>2, <1>3, <1>4, ReadStep
-----------------------------------------------------------------------------
(* The commits.                                                            *)

\* What the other requests rely on survives the end of a request.
LEMMA DoneReq ==
    ASSUME TypeOK, NEW r \in Requests, Done(r)
    PROVE  /\ req' \in [Requests -> RequestStates]
           /\ req'[r] = Idle
           /\ \A q \in Requests \ {r} : req'[q] = req[q]
  BY IdleIsOK DEF TypeOK, Done

\* What the other requests rely on survives the deletion of invite rows they hold.
LEMMA ForgetReq ==
    ASSUME TypeOK, NEW r \in Requests, NEW as, NEW es, ForgetInvites(r, as, es)
    PROVE  /\ req' \in [Requests -> RequestStates]
           /\ req'[r] = Idle
           /\ \A q \in Requests \ {r} :
                 /\ req'[q].pc = req[q].pc /\ req'[q].e = req[q].e /\ req'[q].a = req[q].a
                 /\ req'[q].seen = req[q].seen /\ req'[q].rows = req[q].rows
                 /\ req'[q].revokes = req[q].revokes
<1>1. req' = [q \in Requests |->
                 IF q = r THEN Idle
                 ELSE IF req[q].a \in as THEN [req[q] EXCEPT !.held = @ \ es]
                 ELSE req[q]]
  BY DEF ForgetInvites
<1>2. \A q \in Requests : req[q] \in RequestStates
  BY DEF TypeOK
<1>3. \A q \in Requests : [req[q] EXCEPT !.held = @ \ es] \in RequestStates
  BY <1>2 DEF RequestStates
<1>4. \A q \in Requests : req'[q] \in RequestStates
  BY <1>1, <1>2, <1>3, IdleIsOK
<1>5. \A q \in Requests \ {r} :
          \/ req'[q] = req[q]
          \/ req'[q] = [req[q] EXCEPT !.held = @ \ es]
  BY <1>1
<1>6. ASSUME NEW q \in Requests \ {r}
      PROVE  /\ req'[q].pc = req[q].pc /\ req'[q].e = req[q].e /\ req'[q].a = req[q].a
             /\ req'[q].seen = req[q].seen /\ req'[q].rows = req[q].rows
             /\ req'[q].revokes = req[q].revokes
  BY <1>2, <1>5 DEF RequestStates
<1> QED
  BY <1>1, <1>4, <1>6

\* What a lock protects is there as long as no engagement and no grant is removed.
LEMMA LockedIsKept ==
    ASSUME IInv, NEW q \in Requests,
           \A e \in Engagements : Exists(status[e]) => Exists(status'[e]),
           \A e \in Engagements, a \in Auditors : grant[a][e] # NoGrant => grant'[a][e] # NoGrant
    PROVE  /\ HoldsEngagement(q) => Exists(status'[req[q].e])
           /\ \A e \in Engagements, a \in Auditors :
                 HoldsGrant(q, e, a) => grant'[a][e] # NoGrant
<1>1. RequestOK(q)
  BY DEF IInv
<1>2. HoldsEngagement(q) => req[q].e \in Engagements
  BY <1>1 DEF RequestOK, HoldsEngagement, At
<1> QED
  BY <1>1, <1>2 DEF RequestOK

\* A new draft has nobody on it, since nothing refers to an engagement that is not there.
LEMMA CreateStep ==
    ASSUME IInv, NEW e \in Engagements, CreateEngagement(e)
    PROVE  IInv'
<1> USE DEF IInv
<1>1. /\ status' = [status EXCEPT ![e] = "draft"] /\ status[e] = "none"
      /\ UNCHANGED <<grant, pending, accounts, req>>
  BY DEF CreateEngagement
<1>2. TypeOK'
  BY <1>1 DEF TypeOK, EngagementStates
<1>3. DraftIsEmpty' /\ GrantsBelongToAccounts'
  <2>1. GrantsBelongToAccounts'
    BY <1>1 DEF GrantsBelongToAccounts
  <2>2. \A d \in Engagements : status'[d] \in {"none", "draft", "deleted"} =>
                                  status[d] \in {"none", "draft", "deleted"}
    BY <1>1 DEF TypeOK
  <2>3. DraftIsEmpty'
    BY <1>1, <2>2 DEF DraftIsEmpty, Tables!DraftIsEmpty
  <2> QED
    BY <2>1, <2>3
<1>4. \A d \in Engagements : d # e => status'[d] = status[d]
  BY <1>1 DEF TypeOK
<1>5. \A q \in Requests : HoldsEngagement(q) => req[q].e \in Engagements
  BY DEF RequestOK, HoldsEngagement, At
<1>6. \A q \in Requests :
          /\ HoldsEngagement(q) => Exists(status'[req[q].e])
          /\ \A d \in Engagements, a \in Auditors :
                HoldsGrant(q, d, a) => grant'[a][d] # NoGrant
  BY <1>1, <1>4, <1>5 DEF RequestOK, Exists
<1>7. OneHolder' /\ OneGrantHolder' /\ \A q \in Requests : RequestOK(q)'
  BY <1>1, <1>4, <1>6, WriteStep DEF TypeOK
<1> QED
  BY <1>2, <1>3, <1>7

\* The expiry of an invite changes no engagement and no grant.
LEMMA ExpireStep ==
    ASSUME IInv, NEW e \in Engagements, NEW a \in Auditors, ExpireInvite(e, a)
    PROVE  IInv'
<1> USE DEF IInv
<1>1. /\ pending' = [pending EXCEPT ![a][e].status = "expired"]
      /\ pending[a][e].status = "live"
      /\ UNCHANGED <<status, grant, accounts, req>>
  BY DEF ExpireInvite
<1>2. TypeOK'
  <2>1. [pending[a][e] EXCEPT !.status = "expired"] \in Invites
    BY <1>1 DEF TypeOK, InviteTables, Invites, NoInvite
  <2> QED
    BY <1>1, <2>1 DEF TypeOK, InviteTables
<1>3. DraftIsEmpty' /\ GrantsBelongToAccounts'
  <2>1. \A b \in Auditors, d \in Engagements : b # a \/ d # e => pending'[b][d] = pending[b][d]
    BY <1>1 DEF TypeOK, InviteTables
  <2>2. pending[a][e] # NoInvite
    BY <1>1 DEF NoInvite
  <2>3. \A b \in Auditors, d \in Engagements :
            pending[b][d] = NoInvite => pending'[b][d] = NoInvite
    BY <2>1, <2>2
  <2> QED
    BY <1>1, <2>3, DraftIsEmptyHere
    DEF DraftIsEmpty, Tables!DraftIsEmpty, Tables!NoInvite, NoInvite, GrantsBelongToAccounts
<1>4. OneHolder' /\ OneGrantHolder' /\ \A q \in Requests : RequestOK(q)'
  BY <1>1, WriteStep DEF RequestOK
<1> QED
  BY <1>2, <1>3, <1>4

\* The commit of invite_auditor: with the grant or invite comes the status that
\* allows it, or the status read before allowed it already.
LEMMA InviteSaveStep ==
    ASSUME IInv, NEW r \in Requests, InviteSave(r)
    PROVE  IInv'
<1> DEFINE e == req[r].e
           a == req[r].a
<1> USE DEF IInv
<1>1. /\ Inviting(r) /\ ~At(r, "inviteLookup") /\ RequestOK(r)
      /\ e \in Engagements /\ a \in Auditors /\ req[r].areas \in SUBSET Areas
      /\ Done(r) /\ accounts' = accounts /\ Exists(status[e])
  BY DEF InviteSave, Inviting, RequestOK, At, TypeOK, RequestStates
<1>2. /\ [status |-> "invited", areas |-> req[r].areas] \in Grants
      /\ [status |-> "live", areas |-> req[r].areas] \in Invites
  BY <1>1 DEF Grants, Invites
<1>3. /\ status' \in [Engagements -> EngagementStates]
      /\ \A d \in Engagements : d # e => status'[d] = status[d]
      /\ status'[e] \in {status[e], "invited"}
      /\ status'[e] \notin {"none", "draft", "deleted"}
  BY <1>1 DEF InviteSave, MarkInvited, TypeOK, EngagementStates, RequestOK, Exists
<1>4. /\ grant' \in GrantTables /\ pending' \in InviteTables
      /\ \A b \in Auditors, d \in Engagements :
            b # a \/ d # e => grant'[b][d] = grant[b][d] /\ pending'[b][d] = pending[b][d]
  <2>1. CASE At(r, "invitePending")
    <3>1. pending' = [pending EXCEPT ![a][e] = [status |-> "live", areas |-> req[r].areas]]
          /\ grant' = grant
      BY <2>1 DEF InviteSave, At
    <3> QED
      BY <1>1, <1>2, <3>1, WriteInviteType DEF TypeOK, InviteTables
  <2>2. CASE ~At(r, "invitePending")
    <3>1. grant' = [grant EXCEPT ![a][e] = [status |-> "invited", areas |-> req[r].areas]]
          /\ pending' = pending
      BY <2>2 DEF InviteSave
    <3> QED
      BY <1>1, <1>2, <3>1, WriteGrantType DEF TypeOK, GrantTables
  <2> QED
    BY <2>1, <2>2
<1>5. TypeOK'
  BY <1>1, <1>3, <1>4, DoneReq DEF TypeOK
<1>6. DraftIsEmpty'
  <2>1. \A d \in Engagements : status'[d] \in {"none", "draft", "deleted"} =>
            \A b \in Auditors : grant'[b][d] = NoGrant /\ pending'[b][d] = NoInvite
    BY <1>3, <1>4, DraftIsEmptyHere
  <2> QED
    BY <2>1
    DEF DraftIsEmpty, Tables!DraftIsEmpty, Tables!NoGrant, Tables!NoInvite, NoGrant, NoInvite
<1>7. GrantsBelongToAccounts'
  <2>1. grant' # grant => a \in accounts
    BY <1>1 DEF InviteSave, RequestOK, GrantsBelongToAccounts
  <2> QED
    BY <1>1, <1>4, <2>1 DEF GrantsBelongToAccounts
<1>8. ASSUME NEW q \in Requests \ {r}
      PROVE  /\ HoldsEngagement(q) => Exists(status'[req[q].e])
             /\ \A d \in Engagements, b \in Auditors :
                   HoldsGrant(q, d, b) => grant'[b][d] # NoGrant
  <2>1. \A d \in Engagements : Exists(status[d]) => Exists(status'[d])
    BY <1>3 DEF Exists
  <2>2. grant'[a][e] = grant[a][e] \/ grant'[a][e] # NoGrant
    BY <1>1 DEF InviteSave, NoGrant, TypeOK, GrantTables
  <2>3. \A d \in Engagements, b \in Auditors : grant[b][d] # NoGrant => grant'[b][d] # NoGrant
    BY <1>4, <2>2
  <2> QED
    BY <2>1, <2>3, LockedIsKept
<1>9. OneHolder' /\ OneGrantHolder' /\ \A q \in Requests : RequestOK(q)'
  <2>1. \A d \in Engagements : /\ status[d] # "none" => status'[d] # "none"
                               /\ status[d] \notin {"none", "draft"} =>
                                     status'[d] \notin {"none", "draft"}
    BY <1>3
  <2> QED
    BY <1>1, <1>8, <2>1, DoneReq, WriteStep
<1> QED
  BY <1>5, <1>6, <1>7, <1>9

\* The commit of close_engagement: the grants it has locked are there to be revoked.
LEMMA CloseCommitStep ==
    ASSUME IInv, NEW r \in Requests, CloseCommit(r)
    PROVE  IInv'
<1> DEFINE e == req[r].e
           found == req[r].revokes
           dropped == req[r].drops
<1> USE DEF IInv
<1>1. /\ e \in Engagements /\ At(r, "closeCommit") /\ RequestOK(r)
      /\ status' = IF req[r].seen = "closed" THEN status ELSE [status EXCEPT ![e] = "closed"]
      /\ grant' = RevokeFound(grant, e, found) /\ pending' = DropFound(pending, e, dropped)
      /\ accounts' = accounts /\ ForgetInvites(r, dropped, {e})
      /\ req[r].seen # "closed" => Exists(status[e])
  BY DEF CloseCommit, RequestOK, At, HoldsEngagement
<1>2. \A a \in Auditors : a \in found => grant[a][e] # NoGrant
  BY <1>1 DEF RequestOK, HoldsGrant, At
<1> HIDE DEF e, found, dropped
<1>3. /\ grant' \in GrantTables /\ pending' \in InviteTables
      /\ \A a \in Auditors, d \in Engagements :
            /\ grant[a][d] = NoGrant <=> grant'[a][d] = NoGrant
            /\ pending[a][d] = NoInvite => pending'[a][d] = NoInvite
  <2>1. /\ grant' \in GrantTables
        /\ \A a \in Auditors :
              /\ a \in found => grant'[a][e].status = "revoked"
              /\ a \notin found => grant'[a][e] = grant[a][e]
              /\ \A d \in Engagements \ {e} : grant'[a][d] = grant[a][d]
    BY <1>1, RevokeFoundType DEF TypeOK
  <2>2. /\ pending' \in InviteTables
        /\ \A a \in Auditors :
              /\ a \in dropped => pending'[a][e] = NoInvite
              /\ a \notin dropped => pending'[a][e] = pending[a][e]
              /\ \A d \in Engagements \ {e} : pending'[a][d] = pending[a][d]
    BY <1>1, DropFoundType DEF TypeOK
  <2>3. NoGrant.status # "revoked"
    BY DEF NoGrant
  <2> QED
    BY <1>2, <2>1, <2>2, <2>3
<1>4. TypeOK'
  BY <1>1, <1>3, ForgetReq DEF TypeOK, EngagementStates
<1>5. DraftIsEmpty'
  <2>1. \A d \in Engagements : status'[d] \in {"none", "draft", "deleted"} =>
                                   status'[d] = status[d]
    BY <1>1 DEF TypeOK
  <2>2. \A d \in Engagements : status'[d] \in {"none", "draft", "deleted"} =>
            \A b \in Auditors : grant'[b][d] = NoGrant /\ pending'[b][d] = NoInvite
    BY <1>3, <2>1, DraftIsEmptyHere
  <2> QED
    BY <2>2
    DEF DraftIsEmpty, Tables!DraftIsEmpty, Tables!NoGrant, Tables!NoInvite, NoGrant, NoInvite
<1>6. GrantsBelongToAccounts'
  BY <1>1, <1>3 DEF GrantsBelongToAccounts
<1>7. ASSUME NEW q \in Requests \ {r}
      PROVE  /\ HoldsEngagement(q) => Exists(status'[req[q].e])
             /\ \A d \in Engagements, b \in Auditors :
                   HoldsGrant(q, d, b) => grant'[b][d] # NoGrant
  <2>1. \A d \in Engagements : Exists(status[d]) => Exists(status'[d])
    BY <1>1 DEF TypeOK, Exists
  <2> QED
    BY <1>3, <2>1, LockedIsKept
<1>8. \A d \in Engagements : /\ status[d] # "none" => status'[d] # "none"
                             /\ status[d] \notin {"none", "draft"} =>
                                   status'[d] \notin {"none", "draft"}
  BY <1>1 DEF TypeOK
<1>9. OneHolder' /\ OneGrantHolder' /\ \A q \in Requests : RequestOK(q)'
  BY <1>1, <1>7, <1>8, ForgetReq, WriteStep
<1> QED
  BY <1>4, <1>5, <1>6, <1>9

\* The commit of delete_engagement removes every row that refers to the engagement.
LEMMA DeleteCascadeStep ==
    ASSUME IInv, NEW r \in Requests, DeleteCascade(r)
    PROVE  IInv'
<1> DEFINE e == req[r].e
<1> USE DEF IInv
<1>1. /\ e \in Engagements /\ HoldsEngagement(r) /\ RequestOK(r) /\ Exists(status[e])
      /\ \A a \in Auditors : GrantFree(r, e, a)
      /\ status' = [status EXCEPT ![e] = "deleted"]
      /\ accounts' = accounts /\ ForgetInvites(r, Auditors, {e})
  BY DEF DeleteCascade, RequestOK, At, HoldsEngagement
<1>2. /\ grant' \in GrantTables /\ pending' \in InviteTables
      /\ \A a \in Auditors :
            /\ grant'[a][e] = NoGrant /\ pending'[a][e] = NoInvite
            /\ \A d \in Engagements \ {e} :
                  grant'[a][d] = grant[a][d] /\ pending'[a][d] = pending[a][d]
  BY <1>1, DropGrantsType, DropInvitesType DEF DeleteCascade, TypeOK
<1>3. TypeOK'
  BY <1>1, <1>2, ForgetReq DEF TypeOK, EngagementStates
<1>4. DraftIsEmpty'
  <2>1. \A d \in Engagements \ {e} : status'[d] = status[d]
    BY <1>1 DEF TypeOK
  <2>2. \A d \in Engagements : status'[d] \in {"none", "draft", "deleted"} =>
            \A b \in Auditors : grant'[b][d] = NoGrant /\ pending'[b][d] = NoInvite
    BY <1>1, <1>2, <2>1, DraftIsEmptyHere
  <2> QED
    BY <2>2
    DEF DraftIsEmpty, Tables!DraftIsEmpty, Tables!NoGrant, Tables!NoInvite, NoGrant, NoInvite
<1>5. GrantsBelongToAccounts'
  BY <1>1, <1>2 DEF GrantsBelongToAccounts
<1>6. ASSUME NEW q \in Requests \ {r}
      PROVE  /\ HoldsEngagement(q) => Exists(status'[req[q].e])
             /\ \A d \in Engagements, b \in Auditors :
                   HoldsGrant(q, d, b) => grant'[b][d] # NoGrant
  <2>1. HoldsEngagement(q) => Exists(status'[req[q].e])
    <3>1. HoldsEngagement(q) => req[q].e \in Engagements \ {e} /\ Exists(status[req[q].e])
      BY <1>1 DEF RequestOK, HoldsEngagement, At, OneHolder
    <3> QED
      BY <1>1, <3>1 DEF TypeOK
  <2>2. ASSUME NEW d \in Engagements, NEW b \in Auditors, HoldsGrant(q, d, b)
        PROVE  grant'[b][d] # NoGrant
    <3>1. d # e
      BY <1>1, <2>2 DEF GrantFree
    <3> QED
      BY <1>2, <2>2, <3>1 DEF RequestOK
  <2> QED
    BY <2>1, <2>2
<1>7. \A d \in Engagements : /\ status[d] # "none" => status'[d] # "none"
                             /\ status[d] \notin {"none", "draft"} =>
                                   status'[d] \notin {"none", "draft"}
  BY <1>1 DEF TypeOK
<1>8. OneHolder' /\ OneGrantHolder' /\ \A q \in Requests : RequestOK(q)'
  BY <1>1, <1>6, <1>7, ForgetReq, WriteStep
<1> QED
  BY <1>3, <1>4, <1>5, <1>8

\* One grant changes, and stays a grant.
LEMMA GrantWriteStep ==
    ASSUME IInv, NEW r \in Requests, NEW e \in Engagements, NEW a \in Auditors,
           Done(r), UNCHANGED <<pending, accounts>>,
           grant' \in GrantTables, grant[a][e] # NoGrant, grant'[a][e] # NoGrant,
           \A b \in Auditors, d \in Engagements :
               b # a \/ d # e => grant'[b][d] = grant[b][d],
           status' \in [Engagements -> EngagementStates],
           \/ status' = status
           \/ status' = [status EXCEPT ![e] = "active"]
    PROVE  IInv'
<1> USE DEF IInv
<1>0. status[e] \notin {"none", "draft", "deleted"}
  BY DraftIsEmptyHere
<1>1. \A d \in Engagements :
          \/ status'[d] = status[d]
          \/ status[d] \notin {"none", "draft", "deleted"} /\ status'[d] = "active"
  BY <1>0 DEF TypeOK
<1>2. TypeOK'
  BY DoneReq DEF TypeOK
<1>3. DraftIsEmpty'
  <2>1. \A d \in Engagements : status'[d] \in {"none", "draft", "deleted"} =>
            \A b \in Auditors : grant'[b][d] = NoGrant /\ pending'[b][d] = NoInvite
    BY <1>0, <1>1, DraftIsEmptyHere
  <2> QED
    BY <2>1
    DEF DraftIsEmpty, Tables!DraftIsEmpty, Tables!NoGrant, Tables!NoInvite, NoGrant, NoInvite
<1>4. GrantsBelongToAccounts'
  BY DEF GrantsBelongToAccounts
<1>5. ASSUME NEW q \in Requests \ {r}
      PROVE  /\ HoldsEngagement(q) => Exists(status'[req[q].e])
             /\ \A d \in Engagements, b \in Auditors :
                   HoldsGrant(q, d, b) => grant'[b][d] # NoGrant
  <2>1. \A d \in Engagements : Exists(status[d]) => Exists(status'[d])
    BY <1>1 DEF Exists
  <2>2. \A d \in Engagements, b \in Auditors : grant[b][d] # NoGrant => grant'[b][d] # NoGrant
    OBVIOUS
  <2> QED
    BY <2>1, <2>2, LockedIsKept
<1>6. OneHolder' /\ OneGrantHolder' /\ \A q \in Requests : RequestOK(q)'
  <2>1. \A d \in Engagements : /\ status[d] # "none" => status'[d] # "none"
                               /\ status[d] \notin {"none", "draft"} =>
                                     status'[d] \notin {"none", "draft"}
    BY <1>1
  <2> QED
    BY <1>5, <2>1, DoneReq, WriteStep
<1> QED
  BY <1>2, <1>3, <1>4, <1>6

\* Access rights and removals write a grant that is still there.
LEMMA GrantSaveStep ==
    ASSUME IInv, NEW r \in Requests, GrantSave(r)
    PROVE  IInv'
<1> DEFINE e == req[r].e
           a == req[r].a
<1> USE DEF IInv
<1>1. /\ e \in Engagements /\ a \in Auditors /\ req[r].areas \in SUBSET Areas
      /\ grant[a][e] # NoGrant /\ grant[a][e] \in Grants /\ grant \in GrantTables
      /\ Done(r) /\ UNCHANGED <<status, pending, accounts>>
      /\ status \in [Engagements -> EngagementStates]
  BY DEF GrantSave, RequestOK, At, TypeOK, RequestStates, GrantTables
<1>2. grant' \in GrantTables /\ grant'[a][e] # NoGrant
  <2>1. CASE At(r, "access")
    <3> DEFINE g == [grant[a][e] EXCEPT !.areas = req[r].areas]
    <3>1. g \in Grants /\ g # NoGrant
      BY <1>1 DEF Grants, NoGrant
    <3>2. grant' = [grant EXCEPT ![a][e].areas = req[r].areas]
      BY <2>1 DEF GrantSave, At
    <3>3. grant' = [grant EXCEPT ![a][e] = g]
      BY <3>2
    <3> HIDE DEF g
    <3> QED
      BY <1>1, <3>1, <3>3, WriteGrantType DEF GrantTables
  <2>2. CASE At(r, "remove")
    <3>1. grant' = [grant EXCEPT ![a][e].status = "revoked"]
      BY <2>2 DEF GrantSave, At
    <3> QED
      BY <1>1, <3>1, WriteGrantStatusType
  <2> QED
    BY <2>1, <2>2 DEF GrantSave
<1>3. \A b \in Auditors, d \in Engagements : b # a \/ d # e => grant'[b][d] = grant[b][d]
  BY <1>1 DEF GrantSave, GrantTables
<1> HIDE DEF e, a
<1> QED
  BY <1>1, <1>2, <1>3, GrantWriteStep

\* The commit of accept_engagement writes the grant it has locked.
LEMMA AcceptCommitStep ==
    ASSUME IInv, NEW r \in Requests, AcceptCommit(r)
    PROVE  IInv'
<1> DEFINE e == req[r].e
           a == req[r].a
<1> USE DEF IInv
<1>1. /\ e \in Engagements /\ a \in Auditors
      /\ grant[a][e] # NoGrant /\ grant \in GrantTables
      /\ Done(r) /\ UNCHANGED <<pending, accounts>>
      /\ status \in [Engagements -> EngagementStates]
  BY DEF AcceptCommit, RequestOK, HoldsGrant, At, TypeOK
<1>2. grant' = [grant EXCEPT ![a][e].status = "accepted"]
  BY DEF AcceptCommit
<1>3. /\ grant' \in GrantTables /\ grant'[a][e] # NoGrant
      /\ \A b \in Auditors, d \in Engagements : b # a \/ d # e => grant'[b][d] = grant[b][d]
  <2>1. grant' \in GrantTables /\ grant'[a][e] # NoGrant
    BY <1>1, <1>2, WriteGrantStatusType
  <2>2. \A b \in Auditors, d \in Engagements : b # a \/ d # e => grant'[b][d] = grant[b][d]
    BY <1>1, <1>2 DEF GrantTables
  <2> QED
    BY <2>1, <2>2
<1>4. /\ status' \in [Engagements -> EngagementStates]
      /\ status' = status \/ status' = [status EXCEPT ![e] = "active"]
  BY <1>1 DEF AcceptCommit, EngagementStates
<1> HIDE DEF e, a
<1> QED
  BY <1>1, <1>3, <1>4, GrantWriteStep

\* A cancelled invite is taken from whoever has selected it.
LEMMA CancelSaveStep ==
    ASSUME IInv, NEW r \in Requests, CancelSave(r)
    PROVE  IInv'
<1> DEFINE e == req[r].e
           a == req[r].a
<1> USE DEF IInv
<1>1. /\ e \in Engagements /\ a \in Auditors /\ UNCHANGED <<status, grant, accounts>>
  BY DEF CancelSave, RequestOK, At
<1>2. CASE e \notin req[r].held
  BY <1>1, <1>2, EndStep DEF CancelSave, tables
<1>3. CASE e \in req[r].held
  <2>1. pending' = [pending EXCEPT ![a][e] = NoInvite] /\ ForgetInvites(r, {a}, {e})
    BY <1>3 DEF CancelSave
  <2>2. /\ pending' \in InviteTables
        /\ \A b \in Auditors, d \in Engagements :
              pending[b][d] = NoInvite => pending'[b][d] = NoInvite
    BY <1>1, <2>1, WriteInviteType DEF TypeOK, InviteTables, Invites
  <2>3. TypeOK'
    BY <1>1, <2>1, <2>2, ForgetReq DEF TypeOK
  <2>4. DraftIsEmpty' /\ GrantsBelongToAccounts'
    <3>1. \A d \in Engagements : status'[d] \in {"none", "draft", "deleted"} =>
              \A b \in Auditors : grant'[b][d] = NoGrant /\ pending'[b][d] = NoInvite
      BY <1>1, <2>2, DraftIsEmptyHere
    <3> QED
      BY <1>1, <3>1
      DEF DraftIsEmpty, Tables!DraftIsEmpty, Tables!NoGrant, Tables!NoInvite, NoGrant,
          NoInvite, GrantsBelongToAccounts
  <2>5. OneHolder' /\ OneGrantHolder' /\ \A q \in Requests : RequestOK(q)'
    BY <1>1, <2>1, ForgetReq, WriteStep DEF RequestOK
  <2> QED
    BY <2>3, <2>4, <2>5
<1> QED
  BY <1>2, <1>3

\* The commit of auditor_register: the new grants refer to engagements that exist and
\* are not drafts.
LEMMA RegisterSaveStep ==
    ASSUME IInv, NEW r \in Requests, RegisterSave(r)
    PROVE  IInv'
<1> DEFINE a == req[r].a
           rows == req[r].rows
           left == [e \in Engagements |-> IF e \in req[r].held THEN NoInvite ELSE pending[a][e]]
<1> USE DEF IInv
<1>1. /\ a \in Auditors /\ At(r, "register") /\ RequestOK(r)
      /\ a \notin accounts /\ accounts' = accounts \cup {a} /\ status' = status
      /\ ForgetInvites(r, {a}, req[r].held)
      /\ rows \in [Engagements -> Invites]
      /\ \A e \in Engagements : rows[e].status = "live" => Exists(status[e])
  BY DEF RegisterSave, RequestOK, At, TypeOK, RequestStates, Converted
<1>2. /\ grant' = [grant EXCEPT ![a] = ConvertInvites(rows, grant[a])]
      /\ pending' = [pending EXCEPT ![a] = left]
  BY DEF RegisterSave
<1>3. /\ grant[a] \in [Engagements -> Grants] /\ pending[a] \in [Engagements -> Invites]
      /\ NoInvite \in Invites
  BY <1>1 DEF TypeOK, GrantTables, InviteTables, Invites
<1>4. /\ left \in [Engagements -> Invites]
      /\ \A e \in Engagements : pending[a][e] = NoInvite => left[e] = NoInvite
  BY <1>3
<1> HIDE DEF a, rows, left
<1>5. /\ grant' \in GrantTables /\ pending' \in InviteTables
      /\ grant'[a] = ConvertInvites(rows, grant[a]) /\ pending'[a] = left
      /\ \A b \in Auditors \ {a} : grant'[b] = grant[b] /\ pending'[b] = pending[b]
  BY <1>1, <1>2, <1>3, <1>4, ConvertInvitesType DEF TypeOK, GrantTables, InviteTables
<1>6. TypeOK'
  BY <1>1, <1>5, ForgetReq DEF TypeOK
<1>7. \A e \in Engagements : rows[e].status = "live" => status[e] \notin {"none", "draft", "deleted"}
  BY <1>1 DEF RequestOK, Converted, Exists, rows
<1>8. \A e \in Engagements : status[e] \in {"none", "draft", "deleted"} =>
          grant'[a][e] = grant[a][e] /\ (pending[a][e] = NoInvite => pending'[a][e] = NoInvite)
  <2>1. \A e \in Engagements :
            rows[e].status # "live" => ConvertInvites(rows, grant[a])[e] = grant[a][e]
    BY <1>1, <1>3, ConvertInvitesType
  <2>2. \A e \in Engagements :
            status[e] \in {"none", "draft", "deleted"} => rows[e].status # "live"
    BY <1>7
  <2> QED
    BY <1>4, <1>5, <2>1, <2>2
<1>9. DraftIsEmpty'
  <2>1. \A d \in Engagements : status'[d] \in {"none", "draft", "deleted"} =>
            \A b \in Auditors : grant'[b][d] = NoGrant /\ pending'[b][d] = NoInvite
    BY <1>1, <1>5, <1>8, DraftIsEmptyHere
  <2> QED
    BY <2>1
    DEF DraftIsEmpty, Tables!DraftIsEmpty, Tables!NoGrant, Tables!NoInvite, NoGrant, NoInvite
<1>10. GrantsBelongToAccounts'
  BY <1>1, <1>5 DEF GrantsBelongToAccounts
<1>11. ASSUME NEW q \in Requests \ {r}
       PROVE  /\ HoldsEngagement(q) => Exists(status'[req[q].e])
              /\ \A d \in Engagements, b \in Auditors :
                    HoldsGrant(q, d, b) => grant'[b][d] # NoGrant
  <2>1. \A d \in Engagements, b \in Auditors : grant[b][d] # NoGrant => grant'[b][d] # NoGrant
    BY <1>1, <1>5 DEF GrantsBelongToAccounts
  <2> QED
    BY <1>1, <2>1, LockedIsKept
<1>12. OneHolder' /\ OneGrantHolder' /\ \A q \in Requests : RequestOK(q)'
  BY <1>1, <1>11, ForgetReq, WriteStep
<1> QED
  BY <1>6, <1>9, <1>10, <1>12

-----------------------------------------------------------------------------

\* Every step preserves the inductive invariant, by the lemma of its action.
LEMMA IInvInductive == IInv /\ [Next]_vars => IInv'
<1> SUFFICES ASSUME IInv, [Next]_vars
             PROVE  IInv'
  OBVIOUS
<1>1. ASSUME NEW r \in Requests, Arrive(r)
      PROVE  IInv'
  BY <1>1, ArriveStep
<1>2. ASSUME NEW r \in Requests, Advance(r)
      PROVE  IInv'
  <2>1. CASE Raise(r) \/ DeadlockVictim(r)
    BY <2>1, EndStep DEF Raise, DeadlockVictim
  <2> QED
    BY <1>2, <2>1, LookupStep, InviteSaveStep, CloseStatusStep, CloseGrantsStep, CloseInvitesStep,
       CloseCommitStep, DeleteRowStep, DeleteCascadeStep, GrantSaveStep, CancelSaveStep, RegisterSaveStep, AcceptFlushStep,
       AcceptCommitStep
    DEF Advance
<1>3. ASSUME NEW r \in Requests, Crash(r)
      PROVE  IInv'
  BY <1>3, EndStep DEF Crash
<1>4. ASSUME NEW e \in Engagements, CreateEngagement(e)
      PROVE  IInv'
  BY <1>4, CreateStep
<1>5. ASSUME NEW e \in Engagements, NEW a \in Auditors, ExpireInvite(e, a)
      PROVE  IInv'
  BY <1>5, ExpireStep
<1>6. CASE UNCHANGED vars
  BY <1>6
  DEF vars, IInv, TypeOK, DraftIsEmpty, Tables!DraftIsEmpty, GrantsBelongToAccounts, OneHolder,
      OneGrantHolder, RequestOK, Inviting, At, HoldsEngagement, HoldsGrant, Converted
<1> QED
  BY <1>1, <1>2, <1>3, <1>4, <1>5, <1>6 DEF Next, Finished

\* The empty tables satisfy the inductive invariant.
LEMMA IInvInit == Init => IInv
<1> SUFFICES ASSUME Init
             PROVE  IInv
  OBVIOUS
<1>1. \A r \in Requests : req[r] = Idle
  BY DEF Init
<1>2. TypeOK
  BY IdleIsOK
  DEF Init, TypeOK, EngagementStates, GrantTables, InviteTables, Grants, Invites
<1>3. DraftIsEmpty /\ GrantsBelongToAccounts
  BY DraftIsEmptyHere DEF Init, GrantsBelongToAccounts
<1>4. OneHolder /\ OneGrantHolder /\ \A r \in Requests : RequestOK(r)
  BY <1>1, IdleIsOK
  DEF OneHolder, OneGrantHolder, RequestOK, Inviting, At, HoldsEngagement, HoldsGrant, Converted
<1> QED
  BY <1>2, <1>3, <1>4 DEF IInv

\* The inductive invariant holds in every state, whatever the requests in flight.
THEOREM EngagementInvariant == Spec => []IInv
  BY IInvInit, IInvInductive, PTL DEF Spec

\* The tables and the requests in flight stay well formed.
THEOREM EngagementTypeCorrect == Spec => []TypeOK
<1>1. IInv => TypeOK
  BY DEF IInv
<1> QED
  BY <1>1, EngagementInvariant, PTL

\* With any number of requests in flight, nobody is on a draft engagement and no
\* row refers to an engagement that is not there.
THEOREM EngagementDraftIsEmpty == Spec => []DraftIsEmpty
<1>1. IInv => DraftIsEmpty
  BY DEF IInv
<1> QED
  BY <1>1, EngagementInvariant, PTL

\* Every grant belongs to an account, whoever registers or invites meanwhile.
THEOREM EngagementGrantsBelongToAccounts == Spec => []GrantsBelongToAccounts
<1>1. IInv => GrantsBelongToAccounts
  BY DEF IInv
<1> QED
  BY <1>1, EngagementInvariant, PTL

-----------------------------------------------------------------------------
(* How the status of an engagement moves in one step, whatever is in flight. *)

Moves(e) ==
    \/ status'[e] = status[e]
    \/ status[e] = "none" /\ status'[e] = "draft"
    \/ Exists(status[e]) /\ status'[e] = "invited"
    \/ \E q \in Requests : /\ CloseCommit(q) /\ req[q].e = e
                           /\ Exists(status[e]) /\ status'[e] = "closed"
    \/ \E q \in Requests : DeleteCascade(q) /\ req[q].e = e /\ status'[e] = "deleted"
    \/ \E q \in Requests : /\ AcceptCommit(q) /\ req[q].e = e
                           /\ req[q].seen = "invited" /\ status'[e] = "active"

\* How one step may change an engagement's status, for the action properties.
LEMMA EngagementMoves == IInv /\ [Next]_vars => \A e \in Engagements : Moves(e)
<1> SUFFICES ASSUME IInv, [Next]_vars, NEW d \in Engagements
             PROVE  Moves(d)
  OBVIOUS
<1>0. status \in [Engagements -> EngagementStates]
  BY DEF IInv, TypeOK
<1>1. ASSUME UNCHANGED status
      PROVE  Moves(d)
  BY <1>1 DEF Moves
<1>2. ASSUME NEW e \in Engagements, CreateEngagement(e)
      PROVE  Moves(d)
  BY <1>0, <1>2 DEF CreateEngagement, Moves
<1>3. ASSUME NEW r \in Requests, InviteSave(r)
      PROVE  Moves(d)
  <2>1. \/ status' = status
        \/ Exists(status[req[r].e]) /\ status' = [status EXCEPT ![req[r].e] = "invited"]
    BY <1>3 DEF InviteSave, MarkInvited
  <2> QED
    BY <1>0, <2>1 DEF Moves
<1>4. ASSUME NEW r \in Requests, CloseCommit(r)
      PROVE  Moves(d)
  <2>1. RequestOK(r)
    BY DEF IInv
  <2>2. \/ status' = status
        \/ Exists(status[req[r].e]) /\ status' = [status EXCEPT ![req[r].e] = "closed"]
    BY <1>4, <2>1 DEF CloseCommit, RequestOK, HoldsEngagement, At
  <2>3. status'[d] # status[d] =>
            CloseCommit(r) /\ req[r].e = d /\ Exists(status[d]) /\ status'[d] = "closed"
    BY <1>0, <1>4, <2>2
  <2> QED
    BY <2>3 DEF Moves
<1>5. ASSUME NEW r \in Requests, DeleteCascade(r)
      PROVE  Moves(d)
  <2>1. status' = [status EXCEPT ![req[r].e] = "deleted"]
    BY <1>5 DEF DeleteCascade
  <2>2. status'[d] # status[d] =>
            DeleteCascade(r) /\ req[r].e = d /\ status'[d] = "deleted"
    BY <1>0, <1>5, <2>1
  <2> QED
    BY <2>2 DEF Moves
<1>6. ASSUME NEW r \in Requests, AcceptCommit(r)
      PROVE  Moves(d)
  <2>1. \/ status' = status
        \/ req[r].seen = "invited" /\ status' = [status EXCEPT ![req[r].e] = "active"]
    BY <1>6 DEF AcceptCommit
  <2>2. status'[d] # status[d] =>
            /\ AcceptCommit(r) /\ req[r].e = d
            /\ req[r].seen = "invited" /\ status'[d] = "active"
    BY <1>0, <1>6, <2>1
  <2> QED
    BY <2>2 DEF Moves
<1>7. ASSUME NEW r \in Requests, Arrive(r)
      PROVE  UNCHANGED status
  BY <1>7
  DEF Arrive, tables, Begin, CloseRead, DeleteRead, RegisterRead, InviteRead, AccessRead,
      RemoveRead, CancelRead, AcceptRead
<1>8. ASSUME NEW r \in Requests, Advance(r)
      PROVE  Moves(d)
  <2>1. CASE \/ InviteLookup(r) \/ CloseStatus(r) \/ CloseGrants(r) \/ CloseInvites(r)
             \/ DeleteRow(r) \/ AcceptFlush(r) \/ Raise(r) \/ DeadlockVictim(r)
    BY <2>1, <1>1
    DEF InviteLookup, CloseStatus, CloseGrants, CloseInvites, DeleteRow, AcceptFlush, Raise,
        DeadlockVictim, tables
  <2>2. CASE GrantSave(r) \/ CancelSave(r) \/ RegisterSave(r)
    BY <2>2, <1>1 DEF GrantSave, CancelSave, RegisterSave
  <2> QED
    BY <1>3, <1>4, <1>5, <1>6, <1>8, <2>1, <2>2 DEF Advance
<1>9. ASSUME NEW r \in Requests, Crash(r)
      PROVE  UNCHANGED status
  BY <1>9 DEF Crash, tables
<1>10. ASSUME NEW e \in Engagements, NEW a \in Auditors, ExpireInvite(e, a)
       PROVE  UNCHANGED status
  BY <1>10 DEF ExpireInvite
<1>11. CASE UNCHANGED vars
  BY <1>1, <1>11 DEF vars
<1> QED
  BY <1>1, <1>2, <1>7, <1>8, <1>9, <1>10, <1>11 DEF Next, Finished

\* What an acceptance that is about to commit has locked and relies on.
LEMMA Accepting ==
    ASSUME IInv, NEW r \in Requests, At(r, "acceptCommit")
    PROVE  /\ req[r].e \in Engagements /\ req[r].a \in Auditors
           /\ HoldsGrant(r, req[r].e, req[r].a)
           /\ grant[req[r].a][req[r].e] # NoGrant
           /\ status[req[r].e] \notin {"none", "draft", "deleted"}
<1>1. req[r].e \in Engagements /\ req[r].a \in Auditors
  BY DEF IInv, RequestOK, At
<1>2. HoldsGrant(r, req[r].e, req[r].a)
  BY DEF HoldsGrant
<1>3. grant[req[r].a][req[r].e] # NoGrant
  BY <1>1, <1>2 DEF IInv, RequestOK
<1> QED
  BY <1>1, <1>2, <1>3, DraftIsEmptyHere DEF IInv

\* A close that overtakes an acceptance leaves its grant alone: the row is not among
\* those the close has locked.
LEMMA OvertakenByOversight ==
    ASSUME IInv, NEW r \in Requests, At(r, "acceptCommit"),
           NEW q \in Requests, CloseCommit(q), req[q].e = req[r].e
    PROVE  grant'[req[r].a][req[r].e] = grant[req[r].a][req[r].e]
<1>1. At(q, "closeCommit") /\ grant' = RevokeFound(grant, req[q].e, req[q].revokes)
  BY DEF CloseCommit
<1>2. q # r
  BY <1>1 DEF At
<1>3. req[r].a \in req[q].revokes => HoldsGrant(q, req[r].e, req[r].a)
  BY <1>1 DEF HoldsGrant, At
<1>4. req[r].a \notin req[q].revokes
  BY <1>2, <1>3, Accepting DEF IInv, OneGrantHolder
<1> QED
  BY <1>1, <1>4, Accepting, RevokeFoundType DEF IInv, TypeOK

\* An engagement that an acceptance has read as "invited" is not deleted before that
\* acceptance commits, nor closed but by a close that has overlooked its grant.
THEOREM EngagementAcceptanceIsNotOvertaken == Spec => AcceptanceIsNotOvertaken
<1>1. ASSUME IInv, [Next]_vars, NEW r \in Requests,
             At(r, "acceptCommit"), status[req[r].e] \in {"invited", "active"}
      PROVE  \/ status'[req[r].e] \in {"invited", "active"}
             \/ /\ status'[req[r].e] = "closed"
                /\ grant'[req[r].a][req[r].e] = grant[req[r].a][req[r].e]
  <2> DEFINE e == req[r].e
  <2>1. Moves(e) /\ status[e] # "none"
    BY <1>1, EngagementMoves, Accepting
  <2>2. ASSUME NEW q \in Requests, DeleteCascade(q), req[q].e = e
        PROVE  FALSE
    <3>1. q # r
      BY <1>1, <2>2 DEF DeleteCascade, At
    <3>2. GrantFree(q, e, req[r].a)
      BY <1>1, <2>2, Accepting DEF DeleteCascade
    <3> QED
      BY <1>1, <3>1, <3>2, Accepting DEF GrantFree
  <2>3. ASSUME NEW q \in Requests, CloseCommit(q), req[q].e = e
        PROVE  grant'[req[r].a][e] = grant[req[r].a][e]
    BY <1>1, <2>3, OvertakenByOversight
  <2> QED
    BY <1>1, <2>1, <2>2, <2>3 DEF Moves
<1>2. IInv /\ [Next]_vars =>
        [\A r \in Requests :
            LET e == req[r].e
            IN  /\ At(r, "acceptCommit") /\ req[r].seen = "invited"
                /\ status[e] \in {"invited", "active"}
                => \/ status'[e] \in {"invited", "active"}
                   \/ status'[e] = "closed" /\ grant'[req[r].a][e] = grant[req[r].a][e]]_vars
  BY <1>1
<1> QED
  BY <1>2, EngagementInvariant, PTL DEF Spec, AcceptanceIsNotOvertaken

\* Whatever is in flight, an engagement becomes active only in the commit of an
\* acceptance that read it as "invited", and out of no draft or deleted engagement.
THEOREM EngagementActivatesOnlyAsInvited == Spec => ActivatesOnlyAsInvited
<1>1. ASSUME IInv, [Next]_vars, NEW e \in Engagements,
             status'[e] = "active", status[e] # "active"
      PROVE  /\ status[e] \in {"invited", "closed"}
             /\ \E r \in Requests :
                   /\ At(r, "acceptCommit") /\ req[r].e = e /\ req[r].seen = "invited"
                   /\ grant'[req[r].a][e].status = "accepted"
  <2>1. PICK r \in Requests : AcceptCommit(r) /\ req[r].e = e /\ req[r].seen = "invited"
    BY <1>1, EngagementMoves DEF Moves
  <2>2. At(r, "acceptCommit") /\ grant' = [grant EXCEPT ![req[r].a][e].status = "accepted"]
    BY <2>1 DEF AcceptCommit
  <2>3. /\ req[r].a \in Auditors /\ grant[req[r].a][e] # NoGrant
        /\ status[e] \notin {"none", "draft", "deleted"}
    BY <1>1, <2>1, <2>2, Accepting
  <2>4. grant'[req[r].a][e].status = "accepted"
    <3>1. grant \in GrantTables
      BY <1>1 DEF IInv, TypeOK
    <3>2. grant'[req[r].a][e] = [grant[req[r].a][e] EXCEPT !.status = "accepted"]
      BY <2>2, <2>3, <3>1 DEF GrantTables
    <3>3. grant[req[r].a][e] \in [status: {"invited", "accepted", "revoked"}, areas: SUBSET Areas]
      BY <2>3, <3>1 DEF GrantTables, Grants
    <3> QED
      BY <3>2, <3>3
  <2>5. status[e] \in {"invited", "closed"}
    BY <1>1, <2>3 DEF IInv, TypeOK, EngagementStates
  <2> QED
    BY <2>1, <2>2, <2>4, <2>5
<1>2. IInv /\ [Next]_vars =>
        [\A e \in Engagements : status'[e] = "active" /\ status[e] # "active" =>
            /\ status[e] \in {"invited", "closed"}
            /\ \E r \in Requests :
                  /\ At(r, "acceptCommit") /\ req[r].e = e /\ req[r].seen = "invited"
                  /\ grant'[req[r].a][e].status = "accepted"]_vars
  BY <1>1
<1> QED
  BY <1>2, EngagementInvariant, PTL DEF Spec, ActivatesOnlyAsInvited

\* No request, however stale what it has read, brings back a deleted engagement.
THEOREM EngagementDeletedIsFinal == Spec => DeletedIsFinal
<1>1. ASSUME IInv, [Next]_vars, NEW e \in Engagements, status[e] = "deleted"
      PROVE  status'[e] = "deleted"
  <2>1. ASSUME NEW r \in Requests, AcceptCommit(r), req[r].e = e
        PROVE  FALSE
    BY <1>1, <2>1, Accepting DEF AcceptCommit
  <2> QED
    BY <1>1, <2>1, EngagementMoves DEF Moves, Exists
<1>2. IInv /\ [Next]_vars =>
        [\A e \in Engagements : status[e] = "deleted" => status'[e] = "deleted"]_vars
  BY <1>1
<1> QED
  BY <1>2, EngagementInvariant, PTL DEF Spec, DeletedIsFinal
=============================================================================
