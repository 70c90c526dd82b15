------------------------ MODULE EngagementSerialProofs ------------------------
(***************************************************************************)
(* Engagement with at most one request at a time implements                *)
(* EngagementLifecycle, for any number of engagements, auditors and areas. *)
(* What a request has tested is then still so when it writes (StillTrue):  *)
(* only new engagements and the expiry of invites come between, and a      *)
(* registration that has selected an invite is not affected by its expiry, *)
(* which is why the mapping shows that invite as live until then.  What    *)
(* the indivisible operations promise follows for the handlers, the three  *)
(* promises included that two requests at once can break.                  *)
(***************************************************************************)
EXTENDS EngagementProofs

OneAtATime == \A q, r \in Requests : q = r

\* What a request has read and relies on is so until it ends.
StillTrue(r) ==
    LET e == req[r].e
        a == req[r].a
        held == req[r].held
    IN  /\ Inviting(r) =>
              Exists(status[e]) /\ status[e] # "closed" /\ req[r].seen = status[e]
        /\ At(r, "invitePending") => a \notin accounts
        /\ At(r, "inviteNew") => a \in accounts /\ grant[a][e].status = "none"
        /\ At(r, "inviteAgain") => a \in accounts /\ grant[a][e].status = "revoked"
        /\ req[r].pc \in {"closeStatus", "closeGrants", "closeInvites", "closeCommit"} =>
              Exists(status[e]) /\ req[r].seen = status[e]
        /\ req[r].pc \in {"closeInvites", "closeCommit"} =>
              \A b \in Auditors : b \in req[r].revokes <=> grant[b][e] # NoGrant
        /\ At(r, "closeCommit") =>
              \A b \in Auditors : b \in req[r].drops <=> pending[b][e] # NoInvite
        /\ req[r].pc \in {"deleteRow", "deleteCascade"} =>
              status[e] \in {"draft", "invited", "closed"}
        /\ req[r].pc \in {"access", "remove"} => ActiveGrant(e, a)
        /\ At(r, "cancel") => held = {e} /\ pending[a][e].status # "none"
        /\ At(r, "register") =>
              /\ a \notin accounts /\ held # {}
              /\ \A d \in Engagements : d \in held =>
                    /\ req[r].rows[d].status = "live"
                    /\ pending[a][d].status # "none"
                    /\ req[r].rows[d].areas = pending[a][d].areas
              /\ \A d \in Engagements \ held :
                    req[r].rows[d] = NoInvite /\ pending[a][d].status # "live"
        /\ req[r].pc \in {"acceptFlush", "acceptCommit"} => grant[a][e].status = "invited"
        /\ At(r, "acceptCommit") => req[r].seen = status[e]

SInv == IInv /\ \A r \in Requests : StillTrue(r)

-----------------------------------------------------------------------------
(* The invariant.                                                          *)

\* Nothing is required of a request that has ended.
LEMMA EndedIsTrue == ASSUME NEW r \in Requests, req'[r] = Idle
                     PROVE  StillTrue(r)'
  BY IdleIsOK DEF StillTrue, Inviting, At

\* What a request has selected is so when it has just selected it.
LEMMA ArriveIsTrue ==
    ASSUME IInv, NEW r \in Requests, Arrive(r)
    PROVE  StillTrue(r)'
<1> USE DEF At, Inviting, tables
<1>0. /\ req \in [Requests -> RequestStates] /\ Idle \in RequestStates
      /\ \A a \in Auditors : pending[a] \in [Engagements -> Invites]
      /\ status \in [Engagements -> EngagementStates]
  BY IdleIsOK DEF IInv, TypeOK, InviteTables
<1>1. ASSUME NEW e \in Engagements, CloseRead(r, e)
      PROVE  StillTrue(r)'
  BY <1>0, <1>1 DEF CloseRead, StillTrue, RequestStates
<1>2. ASSUME NEW e \in Engagements, DeleteRead(r, e)
      PROVE  StillTrue(r)'
  BY <1>0, <1>2 DEF DeleteRead, Begin, StillTrue, RequestStates, Exists, EngagementStates
<1>3. ASSUME NEW a \in Auditors, RegisterRead(r, a)
      PROVE  StillTrue(r)'
  <2> DEFINE live == {e \in Engagements : pending[a][e].status = "live"}
             found == [e \in Engagements |-> IF e \in live THEN pending[a][e] ELSE NoInvite]
             to == [Idle EXCEPT !.pc = "register", !.a = a, !.held = live, !.rows = found]
  <2>1. /\ req'[r] = to /\ a \notin accounts /\ live # {}
        /\ pending' = pending /\ accounts' = accounts
    BY <1>0, <1>3 DEF RegisterRead
  <2>2. /\ \A d \in Engagements : d \in live =>
              found[d] = pending[a][d] /\ pending[a][d].status = "live"
        /\ \A d \in Engagements \ live :
              found[d] = NoInvite /\ pending[a][d].status # "live"
    OBVIOUS
  <2> HIDE DEF live, found
  <2>3. /\ req'[r].pc = "register" /\ req'[r].a = a /\ req'[r].held = live
        /\ req'[r].rows = found
    BY <1>0, <2>1 DEF RequestStates
  <2> QED
    BY <2>1, <2>2, <2>3 DEF StillTrue
<1>4. ASSUME NEW e \in Engagements, NEW a \in Auditors, NEW areas \in SUBSET Areas,
             InviteRead(r, e, a, areas)
      PROVE  StillTrue(r)'
  BY <1>0, <1>4 DEF InviteRead, StillTrue, RequestStates
<1>5. ASSUME NEW e \in Engagements, NEW a \in Auditors, NEW areas \in SUBSET Areas,
             AccessRead(r, e, a, areas)
      PROVE  StillTrue(r)'
  BY <1>0, <1>5 DEF AccessRead, StillTrue, RequestStates, ActiveGrant
<1>6. ASSUME NEW e \in Engagements, NEW a \in Auditors, RemoveRead(r, e, a)
      PROVE  StillTrue(r)'
  BY <1>0, <1>6 DEF RemoveRead, Begin, StillTrue, RequestStates, ActiveGrant
<1>7. ASSUME NEW e \in Engagements, NEW a \in Auditors, CancelRead(r, e, a)
      PROVE  StillTrue(r)'
  <2>1. pending[a][e].status # "none"
    BY <1>0, <1>7 DEF CancelRead, Invites, NoInvite
  <2> QED
    BY <1>0, <1>7, <2>1 DEF CancelRead, StillTrue, RequestStates
<1>8. ASSUME NEW e \in Engagements, NEW a \in Auditors, AcceptRead(r, e, a)
      PROVE  StillTrue(r)'
  BY <1>0, <1>8 DEF AcceptRead, Begin, StillTrue, RequestStates
<1> QED
  BY <1>1, <1>2, <1>3, <1>4, <1>5, <1>6, <1>7, <1>8 DEF Arrive

\* A step of the request between its first and its last one looks at the tables
\* again and finds them as they were.
LEMMA GoOnIsTrue ==
    ASSUME IInv, NEW r \in Requests, StillTrue(r),
           \/ InviteLookup(r) \/ CloseStatus(r) \/ CloseGrants(r) \/ CloseInvites(r)
           \/ DeleteRow(r) \/ AcceptFlush(r)
    PROVE  StillTrue(r)'
<1> USE DEF At, Inviting, tables, Goto
<1>0. req \in [Requests -> RequestStates] /\ status \in [Engagements -> EngagementStates]
  BY DEF IInv, TypeOK
<1>1. CASE Done(r)
  BY <1>0, <1>1, EndedIsTrue DEF Done
<1>2. ASSUME NEW step \in {"invitePending", "inviteNew", "inviteAgain"},
             Goto(r, step), InviteLookup(r),
             step = "invitePending" => req[r].a \notin accounts,
             step = "inviteNew" =>
                 req[r].a \in accounts /\ grant[req[r].a][req[r].e].status = "none",
             step = "inviteAgain" =>
                 req[r].a \in accounts /\ grant[req[r].a][req[r].e].status = "revoked"
      PROVE  StillTrue(r)'
  <2>1. req'[r] = [req[r] EXCEPT !.pc = step] /\ req[r] \in RequestStates
    BY <1>0, <1>2
  <2>2. /\ req'[r].pc = step /\ req'[r].e = req[r].e /\ req'[r].a = req[r].a
        /\ req'[r].seen = req[r].seen
    BY <2>1 DEF RequestStates
  <2>3. /\ UNCHANGED <<status, grant, pending, accounts>>
        /\ Exists(status[req[r].e]) /\ status[req[r].e] # "closed"
        /\ req[r].seen = status[req[r].e]
    BY <1>2 DEF InviteLookup, StillTrue
  <2> QED
    BY <1>2, <2>2, <2>3 DEF StillTrue
<1>6. CASE InviteLookup(r)
  BY <1>1, <1>2, <1>6 DEF InviteLookup
<1>3. CASE CloseStatus(r)
  BY <1>0, <1>3 DEF CloseStatus, StillTrue, RequestStates
<1>7. CASE CloseGrants(r)
  <2>1. /\ req[r].pc = "closeGrants" /\ UNCHANGED <<status, grant>>
        /\ req'[r] = [req[r] EXCEPT !.pc = "closeInvites",
                                   !.revokes = {b \in Auditors : grant[b][req[r].e] # NoGrant}]
    BY <1>0, <1>7 DEF CloseGrants
  <2>2. /\ req'[r].pc = "closeInvites" /\ req'[r].e = req[r].e /\ req'[r].seen = req[r].seen
        /\ req'[r].revokes = {b \in Auditors : grant[b][req[r].e] # NoGrant}
    BY <1>0, <2>1 DEF RequestStates
  <2>3. Exists(status[req[r].e]) /\ req[r].seen = status[req[r].e]
    BY <2>1 DEF StillTrue
  <2> QED
    BY <2>1, <2>2, <2>3 DEF StillTrue
<1>8. CASE CloseInvites(r)
  <2>1. /\ req[r].pc = "closeInvites" /\ UNCHANGED <<status, grant, pending>>
        /\ req'[r] = [req[r] EXCEPT !.pc = "closeCommit",
                                   !.drops = {b \in Auditors : pending[b][req[r].e] # NoInvite}]
    BY <1>0, <1>8 DEF CloseInvites
  <2>2. /\ req'[r].pc = "closeCommit" /\ req'[r].e = req[r].e /\ req'[r].seen = req[r].seen
        /\ req'[r].revokes = req[r].revokes
        /\ req'[r].drops = {b \in Auditors : pending[b][req[r].e] # NoInvite}
    BY <1>0, <2>1 DEF RequestStates
  <2>3. /\ Exists(status[req[r].e]) /\ req[r].seen = status[req[r].e]
        /\ \A b \in Auditors : b \in req[r].revokes <=> grant[b][req[r].e] # NoGrant
    BY <2>1 DEF StillTrue
  <2> QED
    BY <2>1, <2>2, <2>3 DEF StillTrue
<1>4. CASE ~Done(r) /\ DeleteRow(r)
  BY <1>0, <1>4 DEF DeleteRow, StillTrue, RequestStates
<1>5. CASE AcceptFlush(r)
  BY <1>0, <1>5 DEF AcceptFlush, StillTrue, RequestStates
<1> QED
  BY <1>1, <1>3, <1>4, <1>5, <1>6, <1>7, <1>8

\* A new engagement is none that a request has selected.
LEMMA CreateKeepsTrue ==
    ASSUME IInv, NEW r \in Requests, StillTrue(r), NEW e \in Engagements, CreateEngagement(e)
    PROVE  StillTrue(r)'
<1>1. /\ status[e] = "none" /\ \A d \in Engagements \ {e} : status'[d] = status[d]
      /\ UNCHANGED <<grant, pending, accounts, req>>
  BY DEF CreateEngagement, IInv, TypeOK
<1>2. /\ req[r].pc \notin {"idle", "register"} => req[r].e \in Engagements
      /\ At(r, "acceptCommit") => grant[req[r].a][req[r].e] # NoGrant /\ req[r].a \in Auditors
  BY DEF IInv, RequestOK, HoldsGrant, At
<1>3. req[r].pc = "acceptCommit" => req[r].e # e
  BY <1>1, <1>2, DraftIsEmptyHere DEF IInv, At
<1> QED
  BY <1>1, <1>2, <1>3 DEF StillTrue, Inviting, At, Exists, ActiveGrant

\* An invite that expires is there as before, and still good for a registration
\* that has selected it.
LEMMA ExpireKeepsTrue ==
    ASSUME IInv, NEW r \in Requests, StillTrue(r),
           NEW e \in Engagements, NEW a \in Auditors, ExpireInvite(e, a)
    PROVE  StillTrue(r)'
<1>1. /\ pending' = [pending EXCEPT ![a][e].status = "expired"]
      /\ pending[a][e].status = "live" /\ pending \in InviteTables
      /\ UNCHANGED <<status, grant, accounts, req>>
  BY DEF ExpireInvite, IInv, TypeOK
<1>2. \A b \in Auditors, d \in Engagements :
          /\ pending'[b][d].areas = pending[b][d].areas
          /\ pending'[b][d].status = "none" <=> pending[b][d].status = "none"
          /\ pending'[b][d].status = "live" => pending[b][d].status = "live"
          /\ pending'[b][d] = NoInvite <=> pending[b][d] = NoInvite
  <2>1. \A b \in Auditors, d \in Engagements : b # a \/ d # e => pending'[b][d] = pending[b][d]
    BY <1>1 DEF InviteTables
  <2>2. pending'[a][e] = [pending[a][e] EXCEPT !.status = "expired"]
    BY <1>1 DEF InviteTables
  <2>3. pending[a][e] \in [status: {"live", "expired"}, areas: SUBSET Areas]
    BY <1>1 DEF InviteTables, Invites, NoInvite
  <2>4. pending'[a][e].status = "expired" /\ pending'[a][e].areas = pending[a][e].areas
    BY <2>2, <2>3
  <2> QED
    BY <1>1, <2>1, <2>4 DEF NoInvite
<1>3. /\ At(r, "closeCommit") => req[r].e \in Engagements
      /\ At(r, "cancel") => req[r].e \in Engagements /\ req[r].a \in Auditors
      /\ At(r, "register") => req[r].a \in Auditors
  BY DEF IInv, RequestOK, At
<1> QED
  BY <1>1, <1>2, <1>3 DEF StillTrue, Inviting, At, ActiveGrant

\* With one request at a time, what it has read and relies on stays so.
LEMMA SInvInductive == ASSUME OneAtATime PROVE SInv /\ [Next]_vars => SInv'
<1> SUFFICES ASSUME SInv, [Next]_vars
             PROVE  SInv'
  OBVIOUS
<1>0. IInv' /\ TypeOK /\ \A r \in Requests : StillTrue(r)
  BY IInvInductive DEF SInv, IInv
<1>1. ASSUME NEW r \in Requests, Arrive(r) \/ Advance(r) \/ Crash(r)
      PROVE  StillTrue(r)'
  <2>1. CASE Arrive(r)
    BY <2>1, ArriveIsTrue DEF SInv
  <2>2. CASE \/ InviteLookup(r) \/ CloseStatus(r) \/ CloseGrants(r) \/ CloseInvites(r)
             \/ DeleteRow(r) \/ AcceptFlush(r)
    BY <2>2, GoOnIsTrue DEF SInv
  <2>3. CASE Done(r)
    BY <1>0, <2>3, DoneReq, EndedIsTrue
  <2>4. CASE CloseCommit(r) \/ DeleteCascade(r) \/ RegisterSave(r) \/ CancelSave(r)
    <3>1. ASSUME NEW as, NEW es, ForgetInvites(r, as, es)
          PROVE  req'[r] = Idle
      BY <1>0, <3>1, ForgetReq
    <3> QED
      BY <2>3, <2>4, <3>1, EndedIsTrue DEF CloseCommit, DeleteCascade, RegisterSave, CancelSave
  <2>5. CASE \/ InviteSave(r) \/ GrantSave(r) \/ AcceptCommit(r) \/ Raise(r)
             \/ DeadlockVictim(r) \/ Crash(r)
    BY <2>3, <2>5 DEF InviteSave, GrantSave, AcceptCommit, Raise, DeadlockVictim, Crash
  <2> QED
    BY <1>1, <2>1, <2>2, <2>4, <2>5 DEF Advance
<1>2. ASSUME NEW e \in Engagements, CreateEngagement(e), NEW r \in Requests
      PROVE  StillTrue(r)'
  BY <1>0, <1>2, CreateKeepsTrue DEF SInv
<1>3. ASSUME NEW e \in Engagements, NEW a \in Auditors, ExpireInvite(e, a), NEW r \in Requests
      PROVE  StillTrue(r)'
  BY <1>0, <1>3, ExpireKeepsTrue DEF SInv
<1>4. ASSUME UNCHANGED vars, NEW r \in Requests
      PROVE  StillTrue(r)'
  BY <1>0, <1>4 DEF vars, StillTrue, Inviting, At, ActiveGrant, SInv
<1>5. ASSUME NEW r \in Requests
      PROVE  StillTrue(r)'
  <2>1. ASSUME NEW q \in Requests
        PROVE  (Arrive(q) => Arrive(r)) /\ (Advance(q) => Advance(r)) /\ (Crash(q) => Crash(r))
    <3>1. q = r
      BY <2>1 DEF OneAtATime
    <3> QED
      BY <3>1, Zenon
  <2>2. CASE \E q \in Requests : Arrive(q) \/ Advance(q) \/ Crash(q)
    <3>1. Arrive(r) \/ Advance(r) \/ Crash(r)
      BY <2>1, <2>2, Zenon
    <3> QED
      BY <1>1, <3>1
  <2>3. CASE \E e \in Engagements : CreateEngagement(e)
    BY <1>2, <2>3
  <2>4. CASE \E e \in Engagements, a \in Auditors : ExpireInvite(e, a)
    BY <1>3, <2>4
  <2> QED
    BY <1>4, <2>2, <2>3, <2>4 DEF Next, Finished
<1> QED
  BY <1>0, <1>5 DEF SInv

\* No request has read anything yet.
LEMMA SInvInit == Init => SInv
<1> SUFFICES ASSUME Init
             PROVE  SInv
  OBVIOUS
<1>1. \A r \in Requests : StillTrue(r)
  BY IdleIsOK DEF Init, StillTrue, Inviting, At
<1> QED
  BY <1>1, IInvInit DEF SInv

-----------------------------------------------------------------------------
(* The refinement.                                                         *)

\* The operators of the tables, which the instance has copies of, are ours.
LEMMA SameOperators ==
    /\ Lifecycle!NoGrant = NoGrant /\ Lifecycle!NoInvite = NoInvite
    /\ \A s : Lifecycle!Exists(s) = Exists(s)
    /\ \A t, e : /\ Lifecycle!RevokeGrants(t, e) = RevokeGrants(t, e)
                 /\ Lifecycle!DropGrants(t, e) = DropGrants(t, e)
                 /\ Lifecycle!DropInvites(t, e) = DropInvites(t, e)
    /\ \A i, g : Lifecycle!ConvertInvites(i, g) = ConvertInvites(i, g)
    /\ \A i, l : Lifecycle!DropLive(i, l) = DropLive(i, l)
  BY DEF Lifecycle!NoGrant, Lifecycle!NoInvite, Lifecycle!Exists, Lifecycle!RevokeGrants,
         Lifecycle!RevokeFound, Lifecycle!DropGrants, Lifecycle!DropInvites,
         Lifecycle!DropFound, Lifecycle!ConvertInvites, Lifecycle!DropLive, NoGrant, NoInvite,
         Exists, RevokeGrants, RevokeFound, DropGrants, DropInvites, DropFound,
         ConvertInvites, DropLive

\* With no registration under way the mapping shows the invites as they are.
LEMMA PendingIsAsRead ==
    ASSUME TypeOK, \A r \in Requests : req[r].pc # "register"
    PROVE  PendingAsRead = pending
<1>1. pending = [a \in Auditors |-> [e \in Engagements |-> pending[a][e]]]
  BY DEF TypeOK, InviteTables
<1> QED
  BY <1>1 DEF PendingAsRead, At

\* The same after a step.
LEMMA PendingIsAsReadNext ==
    ASSUME TypeOK', \A r \in Requests : req'[r].pc # "register"
    PROVE  PendingAsRead' = pending'
<1>1. pending' = [a \in Auditors |-> [e \in Engagements |-> pending'[a][e]]]
  BY DEF TypeOK, InviteTables
<1> QED
  BY <1>1 DEF PendingAsRead, At

\* A step of a request that is not a registration, nor becomes one.
LEMMA NotRegistering ==
    ASSUME OneAtATime, TypeOK, TypeOK', NEW r \in Requests,
           req[r].pc # "register", req'[r].pc # "register"
    PROVE  PendingAsRead = pending /\ PendingAsRead' = pending'
  BY PendingIsAsRead, PendingIsAsReadNext DEF OneAtATime

\* invite_auditor is InviteAuditor.
LEMMA InviteSaveRefines ==
    ASSUME OneAtATime, SInv, TypeOK', NEW r \in Requests, InviteSave(r)
    PROVE  Lifecycle!Next
<1> DEFINE e == req[r].e
           a == req[r].a
           areas == req[r].areas
<1>1. /\ RequestOK(r) /\ StillTrue(r) /\ TypeOK /\ Inviting(r) /\ Done(r)
      /\ ~At(r, "inviteLookup")
  BY DEF SInv, IInv, InviteSave, Inviting, At
<1>2. e \in Engagements /\ a \in Auditors /\ areas \in SUBSET Areas
  BY <1>1 DEF RequestOK, Inviting, TypeOK, RequestStates
<1>3. req'[r] = Idle /\ PendingAsRead = pending /\ PendingAsRead' = pending'
  <2>1. req'[r] = Idle
    BY <1>1, DoneReq
  <2> QED
    BY <1>1, <2>1, IdleIsOK, NotRegistering DEF Inviting
<1>4. Exists(status[e]) /\ status[e] # "closed" /\ req[r].seen = status[e]
  BY <1>1 DEF StillTrue
<1>5. status' = [status EXCEPT ![e] = IF status[e] = "draft" THEN "invited" ELSE status[e]]
  BY <1>1, <1>2, <1>4 DEF InviteSave, MarkInvited, TypeOK
<1>6. \/ /\ a \in accounts
         /\ grant[a][e].status \in {"none", "revoked"}
         /\ grant' = [grant EXCEPT ![a][e] = [status |-> "invited", areas |-> areas]]
         /\ pending' = pending
      \/ /\ a \notin accounts
         /\ pending' = [pending EXCEPT ![a][e] = [status |-> "live", areas |-> areas]]
         /\ grant' = grant
  BY <1>1 DEF InviteSave, StillTrue
<1>7. accounts' = accounts
  BY DEF InviteSave
<1> HIDE DEF e, a, areas
<1>8. Lifecycle!InviteAuditor(e, a, areas)
  BY <1>3, <1>4, <1>5, <1>6, <1>7, SameOperators
  DEF Lifecycle!InviteAuditor, Lifecycle!MarkInvited
<1> QED
  BY <1>2, <1>8 DEF Lifecycle!Next

\* close_engagement is CloseEngagement.
LEMMA CloseCommitRefines ==
    ASSUME OneAtATime, SInv, TypeOK', NEW r \in Requests, CloseCommit(r)
    PROVE  Lifecycle!Next
<1> DEFINE e == req[r].e
<1>1. RequestOK(r) /\ StillTrue(r) /\ TypeOK /\ req[r].pc = "closeCommit"
  BY DEF SInv, IInv, CloseCommit, At
<1>2. e \in Engagements /\ Exists(status[e]) /\ req[r].seen = status[e]
  BY <1>1 DEF RequestOK, StillTrue
<1>3. PendingAsRead = pending /\ PendingAsRead' = pending'
  <2>1. req'[r] = Idle
    BY <1>1, ForgetReq DEF CloseCommit
  <2> QED
    BY <1>1, <2>1, IdleIsOK, NotRegistering
<1>4. /\ req[r].revokes = {a \in Auditors : grant[a][e] # NoGrant}
      /\ req[r].drops = {a \in Auditors : pending[a][e] # NoInvite}
  <2>1. req[r].revokes \in SUBSET Auditors /\ req[r].drops \in SUBSET Auditors
    BY <1>1 DEF TypeOK, RequestStates
  <2>2. \A a \in Auditors : /\ a \in req[r].revokes <=> grant[a][e] # NoGrant
                            /\ a \in req[r].drops <=> pending[a][e] # NoInvite
    BY <1>1 DEF StillTrue, At
  <2> QED
    BY <2>1, <2>2
<1>5. /\ status' = [status EXCEPT ![e] = "closed"]
      /\ grant' = RevokeGrants(grant, e) /\ pending' = DropInvites(pending, e)
      /\ accounts' = accounts
  BY <1>1, <1>2, <1>4 DEF CloseCommit, TypeOK, RevokeGrants, DropInvites
<1>6. Lifecycle!CloseEngagement(e)
  BY <1>2, <1>3, <1>5, SameOperators DEF Lifecycle!CloseEngagement
<1> QED
  BY <1>2, <1>6 DEF Lifecycle!Next

\* delete_engagement is DeleteEngagement.
LEMMA DeleteCascadeRefines ==
    ASSUME OneAtATime, SInv, TypeOK', NEW r \in Requests, DeleteCascade(r)
    PROVE  Lifecycle!Next
<1> DEFINE e == req[r].e
<1>1. RequestOK(r) /\ StillTrue(r) /\ TypeOK /\ req[r].pc = "deleteCascade"
  BY DEF SInv, IInv, DeleteCascade, At
<1>2. e \in Engagements /\ status[e] \in {"draft", "invited", "closed"}
  BY <1>1 DEF RequestOK, StillTrue
<1>3. PendingAsRead = pending /\ PendingAsRead' = pending'
  <2>1. req'[r] = Idle
    BY <1>1, ForgetReq DEF DeleteCascade
  <2> QED
    BY <1>1, <2>1, IdleIsOK, NotRegistering
<1>4. Lifecycle!DeleteEngagement(e)
  BY <1>2, <1>3, SameOperators DEF Lifecycle!DeleteEngagement, DeleteCascade
<1> QED
  BY <1>2, <1>4 DEF Lifecycle!Next

\* update_auditor_access is UpdateAccess, remove_engagement_auditor RemoveAuditor.
LEMMA GrantSaveRefines ==
    ASSUME OneAtATime, SInv, TypeOK', NEW r \in Requests, GrantSave(r)
    PROVE  Lifecycle!Next
<1> DEFINE e == req[r].e
           a == req[r].a
           areas == req[r].areas
<1>1. /\ RequestOK(r) /\ StillTrue(r) /\ TypeOK /\ req[r].pc \in {"access", "remove"}
      /\ Done(r)
  BY DEF SInv, IInv, GrantSave
<1>2. e \in Engagements /\ a \in Auditors /\ areas \in SUBSET Areas
  BY <1>1 DEF RequestOK, TypeOK, RequestStates
<1>3. PendingAsRead = pending /\ PendingAsRead' = pending'
  <2>1. req'[r] = Idle
    BY <1>1, DoneReq
  <2> QED
    BY <1>1, <2>1, IdleIsOK, NotRegistering
<1>4. grant[a][e].status \in {"invited", "accepted"}
  BY <1>1 DEF StillTrue, ActiveGrant
<1>5. UNCHANGED <<status, pending, accounts>>
  BY DEF GrantSave
<1>6. \/ grant' = [grant EXCEPT ![a][e].areas = areas]
      \/ grant' = [grant EXCEPT ![a][e].status = "revoked"]
  BY DEF GrantSave
<1> HIDE DEF e, a, areas
<1>7. Lifecycle!UpdateAccess(e, a, areas) \/ Lifecycle!RemoveAuditor(e, a)
  BY <1>3, <1>4, <1>5, <1>6 DEF Lifecycle!UpdateAccess, Lifecycle!RemoveAuditor
<1> QED
  BY <1>2, <1>7 DEF Lifecycle!Next

\* cancel_pending_invite is CancelInvite.
LEMMA CancelSaveRefines ==
    ASSUME OneAtATime, SInv, TypeOK', NEW r \in Requests, CancelSave(r)
    PROVE  Lifecycle!Next
<1> DEFINE e == req[r].e
           a == req[r].a
<1>1. RequestOK(r) /\ StillTrue(r) /\ TypeOK /\ req[r].pc = "cancel"
  BY DEF SInv, IInv, CancelSave, At
<1>2. /\ e \in Engagements /\ a \in Auditors
      /\ req[r].held = {e} /\ pending[a][e].status # "none"
  BY <1>1 DEF RequestOK, StillTrue, At
<1>3. /\ pending' = [pending EXCEPT ![a][e] = NoInvite]
      /\ ForgetInvites(r, {a}, {e}) /\ UNCHANGED <<status, grant, accounts>>
  BY <1>2 DEF CancelSave
<1>4. PendingAsRead = pending /\ PendingAsRead' = pending'
  <2>1. req'[r] = Idle
    BY <1>1, <1>3, ForgetReq
  <2> QED
    BY <1>1, <2>1, IdleIsOK, NotRegistering
<1> HIDE DEF e, a
<1>5. Lifecycle!CancelInvite(e, a)
  BY <1>2, <1>3, <1>4, SameOperators DEF Lifecycle!CancelInvite
<1> QED
  BY <1>2, <1>5 DEF Lifecycle!Next

\* accept_engagement is AcceptEngagement.
LEMMA AcceptCommitRefines ==
    ASSUME OneAtATime, SInv, TypeOK', NEW r \in Requests, AcceptCommit(r)
    PROVE  Lifecycle!Next
<1> DEFINE e == req[r].e
           a == req[r].a
<1>1. /\ RequestOK(r) /\ StillTrue(r) /\ TypeOK /\ req[r].pc = "acceptCommit"
      /\ Done(r)
  BY DEF SInv, IInv, AcceptCommit, At
<1>2. /\ e \in Engagements /\ a \in Auditors
      /\ grant[a][e].status = "invited" /\ req[r].seen = status[e]
  BY <1>1 DEF RequestOK, StillTrue, At
<1>3. PendingAsRead = pending /\ PendingAsRead' = pending'
  <2>1. req'[r] = Idle
    BY <1>1, DoneReq
  <2> QED
    BY <1>1, <2>1, IdleIsOK, NotRegistering
<1>4. /\ grant' = [grant EXCEPT ![a][e].status = "accepted"]
      /\ UNCHANGED <<pending, accounts>>
  BY DEF AcceptCommit
<1>5. status' = [status EXCEPT ![e] = IF status[e] = "invited" THEN "active" ELSE status[e]]
  BY <1>1, <1>2 DEF AcceptCommit, TypeOK
<1> HIDE DEF e, a
<1>6. Lifecycle!AcceptEngagement(e, a)
  BY <1>2, <1>3, <1>4, <1>5 DEF Lifecycle!AcceptEngagement
<1> QED
  BY <1>2, <1>6 DEF Lifecycle!Next

\* What the mapping shows while r registers: the invites r has selected as r read
\* them, the others as they are, and none of those of r's address live.
ShownAsRead(r) ==
    \A b \in Auditors, d \in Engagements :
        /\ b # req[r].a => PendingAsRead[b][d] = pending[b][d]
        /\ b = req[r].a =>
              /\ d \in req[r].held =>
                    /\ PendingAsRead[b][d] = req[r].rows[d]
                    /\ PendingAsRead[b][d] = [pending[b][d] EXCEPT !.status = "live"]
                    /\ req[r].rows[d].status = "live"
              /\ d \notin req[r].held =>
                    /\ PendingAsRead[b][d] = pending[b][d]
                    /\ req[r].rows[d].status # "live"
                    /\ pending[b][d].status # "live"

\* While an address registers, the mapping shows its invites as it has read them.
LEMMA Registering ==
    ASSUME OneAtATime, SInv, NEW r \in Requests, At(r, "register")
    PROVE  ShownAsRead(r)
<1> SUFFICES ASSUME NEW b \in Auditors, NEW d \in Engagements
             PROVE  /\ b # req[r].a => PendingAsRead[b][d] = pending[b][d]
                    /\ b = req[r].a =>
                          /\ d \in req[r].held =>
                                /\ PendingAsRead[b][d] = req[r].rows[d]
                                /\ PendingAsRead[b][d] = [pending[b][d] EXCEPT !.status = "live"]
                                /\ req[r].rows[d].status = "live"
                          /\ d \notin req[r].held =>
                                /\ PendingAsRead[b][d] = pending[b][d]
                                /\ req[r].rows[d].status # "live"
                                /\ pending[b][d].status # "live"
  BY DEF ShownAsRead
<1>1. StillTrue(r) /\ req[r].rows \in [Engagements -> Invites] /\ pending \in InviteTables
  BY DEF SInv, IInv, TypeOK, RequestStates
<1>2. (\E q \in Requests : At(q, "register") /\ req[q].a = b /\ d \in req[q].held)
          <=> (req[r].a = b /\ d \in req[r].held)
  BY DEF OneAtATime
<1>3. PendingAsRead[b][d] = IF req[r].a = b /\ d \in req[r].held
                            THEN [pending[b][d] EXCEPT !.status = "live"]
                            ELSE pending[b][d]
  BY <1>2 DEF PendingAsRead
<1>4. ASSUME req[r].a = b, d \in req[r].held
      PROVE  /\ [pending[b][d] EXCEPT !.status = "live"] = req[r].rows[d]
             /\ req[r].rows[d].status = "live"
  <2>1. /\ req[r].rows[d].status = "live" /\ pending[b][d].status # "none"
        /\ req[r].rows[d].areas = pending[b][d].areas
    BY <1>1, <1>4 DEF StillTrue
  <2>2. /\ req[r].rows[d] \in [status: {"live", "expired"}, areas: SUBSET Areas]
        /\ pending[b][d] \in [status: {"live", "expired"}, areas: SUBSET Areas]
    BY <1>1, <2>1 DEF InviteTables, Invites, NoInvite
  <2> QED
    BY <2>1, <2>2
<1>5. ASSUME req[r].a = b, d \notin req[r].held
      PROVE  req[r].rows[d].status # "live" /\ pending[b][d].status # "live"
  BY <1>1, <1>5 DEF StillTrue, NoInvite
<1> QED
  BY <1>3, <1>4, <1>5

\* auditor_register is Register.
LEMMA RegisterSaveRefines ==
    ASSUME OneAtATime, SInv, TypeOK', NEW r \in Requests, RegisterSave(r)
    PROVE  Lifecycle!Next
<1> DEFINE a == req[r].a
           held == req[r].held
           rows == req[r].rows
           left == [e \in Engagements |-> IF e \in held THEN NoInvite ELSE pending[a][e]]
<1>1. /\ RequestOK(r) /\ StillTrue(r) /\ TypeOK /\ At(r, "register")
      /\ ShownAsRead(r)
  BY Registering DEF SInv, IInv, RegisterSave
<1>2. /\ a \in Auditors /\ a \notin accounts /\ held # {} /\ held \in SUBSET Engagements
      /\ \A d \in Engagements : rows[d].status = "live" <=> d \in held
  BY <1>1 DEF RequestOK, StillTrue, TypeOK, RequestStates, At, NoInvite
<1>3. /\ accounts' = accounts \cup {a} /\ status' = status
      /\ grant' = [grant EXCEPT ![a] = ConvertInvites(rows, grant[a])]
      /\ pending' = [pending EXCEPT ![a] = left]
  BY DEF RegisterSave
<1>4. PendingAsRead' = pending'
  <2>1. req'[r] = Idle
    BY <1>1, ForgetReq DEF RegisterSave
  <2> QED
    BY <2>1, IdleIsOK, PendingIsAsReadNext DEF OneAtATime
<1>5. \A b \in Auditors : b # a => PendingAsRead[b] = pending[b]
  <2>1. ASSUME NEW b \in Auditors, b # a
        PROVE  PendingAsRead[b] = pending[b]
    <3>1. ASSUME NEW d \in Engagements
          PROVE  PendingAsRead[b][d] = pending[b][d]
      BY <1>1, <2>1 DEF ShownAsRead
    <3>2. PendingAsRead[b] = [d \in Engagements |-> PendingAsRead[b][d]]
      BY <2>1 DEF PendingAsRead
    <3>3. pending[b] = [d \in Engagements |-> pending[b][d]]
      BY <1>1, <2>1 DEF TypeOK, InviteTables
    <3> QED
      BY <3>1, <3>2, <3>3
  <2> QED
    BY <2>1
<1>6. ASSUME NEW d \in Engagements
      PROVE  /\ d \in held => /\ PendingAsRead[a][d] = rows[d]
                              /\ PendingAsRead[a][d].status = "live"
             /\ d \notin held => /\ PendingAsRead[a][d] = pending[a][d]
                                 /\ PendingAsRead[a][d].status # "live"
  BY <1>1, <1>2 DEF ShownAsRead
<1> HIDE DEF a, held, rows
<1>7. \E e \in Engagements : PendingAsRead[a][e].status = "live"
  BY <1>2, <1>6
<1>8. ConvertInvites(PendingAsRead[a], grant[a]) = ConvertInvites(rows, grant[a])
  BY <1>2, <1>6 DEF ConvertInvites
<1>9. DropLive(PendingAsRead[a], PendingAsRead[a]) = left
  BY <1>6 DEF DropLive
<1>10. [PendingAsRead EXCEPT ![a] = left] = [pending EXCEPT ![a] = left]
  <2> HIDE DEF left
  <2>1. /\ PendingAsRead = [b \in Auditors |-> PendingAsRead[b]]
        /\ pending = [b \in Auditors |-> pending[b]]
    BY <1>1 DEF PendingAsRead, TypeOK, InviteTables
  <2> QED
    BY <1>5, <2>1
<1> HIDE DEF left
<1>11. Lifecycle!Register(a)
  BY <1>2, <1>3, <1>4, <1>7, <1>8, <1>9, <1>10, SameOperators DEF Lifecycle!Register
<1> QED
  BY <1>2, <1>11 DEF Lifecycle!Next

\* A request that ends without a write is nothing to the tables, but a
\* registration that fails lets the invites expire that it had kept in use.
LEMMA EndRefines ==
    ASSUME OneAtATime, SInv, TypeOK', NEW r \in Requests, Done(r), UNCHANGED tables
    PROVE  [Lifecycle!Next]_(Lifecycle!vars)
<1>1. RequestOK(r) /\ TypeOK /\ req'[r] = Idle
  BY DoneReq DEF SInv, IInv
<1>2. PendingAsRead' = pending'
  BY <1>1, IdleIsOK, PendingIsAsReadNext DEF OneAtATime
<1>3. UNCHANGED <<status, grant, pending, accounts>>
  BY DEF tables
<1>4. CASE ~At(r, "register")
  <2>1. PendingAsRead = pending
    BY <1>1, <1>4, PendingIsAsRead DEF OneAtATime, At
  <2> QED
    BY <1>2, <1>3, <2>1 DEF Lifecycle!vars
<1>5. CASE At(r, "register")
  <2> DEFINE a == req[r].a
             held == req[r].held
             es == {d \in Engagements : d \in held /\ pending[a][d].status # "live"}
  <2>1. a \in Auditors /\ ShownAsRead(r)
    BY <1>1, <1>5, Registering DEF RequestOK, At
  <2>2. ASSUME NEW b \in Auditors, NEW d \in Engagements, b # a
        PROVE  PendingAsRead[b][d] = pending[b][d]
    BY <2>1, <2>2 DEF ShownAsRead
  <2>3. ASSUME NEW d \in Engagements
        PROVE  /\ d \in es => /\ PendingAsRead[a][d].status = "live"
                              /\ [PendingAsRead[a][d] EXCEPT !.status = "expired"]
                                     = pending[a][d]
               /\ d \notin es => PendingAsRead[a][d] = pending[a][d]
    <3>1. CASE d \notin held
      BY <2>1, <3>1 DEF ShownAsRead
    <3>2. CASE d \in held
      <4>1. /\ PendingAsRead[a][d] = [pending[a][d] EXCEPT !.status = "live"]
            /\ PendingAsRead[a][d].status = "live"
        BY <2>1, <3>2 DEF ShownAsRead
      <4>2. pending[a][d].status # "none"
        BY <1>5, <3>2 DEF SInv, StillTrue
      <4>3. pending[a][d] \in [status: {"live", "expired"}, areas: SUBSET Areas]
        BY <1>1, <2>1, <4>2 DEF TypeOK, InviteTables, Invites, NoInvite
      <4>4. /\ pending[a][d].status # "live" =>
                  [PendingAsRead[a][d] EXCEPT !.status = "expired"] = pending[a][d]
            /\ pending[a][d].status = "live" => PendingAsRead[a][d] = pending[a][d]
        BY <4>1, <4>3
      <4> QED
        BY <3>2, <4>1, <4>4
    <3> QED
      BY <3>1, <3>2
  <2>4. /\ PendingAsRead = [b \in Auditors |-> [d \in Engagements |-> PendingAsRead[b][d]]]
        /\ pending = [b \in Auditors |-> [d \in Engagements |-> pending[b][d]]]
    BY <1>1 DEF PendingAsRead, TypeOK, InviteTables
  <2>5. es \in SUBSET Engagements
    OBVIOUS
  <2> HIDE DEF a, held, es
  <2>6. CASE es = {}
    <3>1. \A b \in Auditors, d \in Engagements : PendingAsRead[b][d] = pending[b][d]
      BY <2>2, <2>3, <2>6
    <3>2. PendingAsRead = pending
      BY <2>4, <3>1
    <3> QED
      BY <1>2, <1>3, <3>2 DEF Lifecycle!vars
  <2>7. CASE es # {}
    <3> DEFINE over == [d \in Engagements |->
                           IF d \in es THEN [PendingAsRead[a][d] EXCEPT !.status = "expired"]
                           ELSE PendingAsRead[a][d]]
    <3>1. pending[a] = over
      BY <2>1, <2>3, <2>4
    <3>2. pending = [PendingAsRead EXCEPT ![a] = over]
      <4> HIDE DEF over
      <4>1. /\ pending = [b \in Auditors |-> pending[b]]
            /\ PendingAsRead = [b \in Auditors |-> PendingAsRead[b]]
            /\ \A b \in Auditors : b # a => PendingAsRead[b] = pending[b]
        BY <2>2, <2>4
      <4> QED
        BY <2>1, <3>1, <4>1
    <3>3. \A d \in es : PendingAsRead[a][d].status = "live"
      BY <2>3, <2>5
    <3>4. Lifecycle!ExpireInvites(a, es)
      BY <1>2, <1>3, <2>7, <3>2, <3>3 DEF Lifecycle!ExpireInvites
    <3> QED
      BY <2>1, <2>5, <3>4 DEF Lifecycle!Next
  <2> QED
    BY <2>6, <2>7
<1> QED
  BY <1>4, <1>5

\* Selecting rows is nothing to the tables, nor is going on to the next statement:
\* a registration selects the invites that are live anyway.
LEMMA ReadRefines ==
    ASSUME OneAtATime, SInv, TypeOK', NEW r \in Requests,
           \/ Arrive(r)
           \/ InviteLookup(r) \/ CloseStatus(r) \/ CloseGrants(r) \/ CloseInvites(r)
           \/ DeleteRow(r) \/ AcceptFlush(r)
    PROVE  [Lifecycle!Next]_(Lifecycle!vars)
<1>0. TypeOK /\ req \in [Requests -> RequestStates] /\ Idle \in RequestStates
  BY IdleIsOK DEF SInv, IInv, TypeOK
<1>1. CASE Done(r) /\ UNCHANGED tables
  BY <1>1, EndRefines
<1>2. ASSUME req[r].pc # "register", req'[r].pc # "register", UNCHANGED tables
      PROVE  UNCHANGED Lifecycle!vars
  BY <1>0, <1>2, NotRegistering DEF Lifecycle!vars, tables
<1>3. ASSUME NEW a \in Auditors, RegisterRead(r, a)
      PROVE  UNCHANGED Lifecycle!vars
  <2> DEFINE live == {e \in Engagements : pending[a][e].status = "live"}
             found == [e \in Engagements |-> IF e \in live THEN pending[a][e] ELSE NoInvite]
             to == [Idle EXCEPT !.pc = "register", !.a = a, !.held = live, !.rows = found]
  <2>1. req'[r] = to /\ UNCHANGED tables /\ At(r, "idle")
    BY <1>0, <1>3 DEF RegisterRead
  <2>2. PendingAsRead = pending
    BY <1>0, <2>1, PendingIsAsRead DEF OneAtATime, At
  <2>3. \A d \in Engagements : d \in live =>
            [pending[a][d] EXCEPT !.status = "live"] = pending[a][d]
    <3>1. \A d \in Engagements : d \in live =>
              pending[a][d] \in [status: {"live", "expired"}, areas: SUBSET Areas]
      BY <1>0 DEF TypeOK, InviteTables, Invites, NoInvite
    <3> QED
      BY <3>1
  <2> HIDE DEF live, found
  <2>4. req'[r].a = a /\ req'[r].held = live
    BY <1>0, <2>1 DEF RequestStates
  <2>5. \A b \in Auditors, d \in Engagements :
            (\E q \in Requests : req'[q].pc = "register" /\ req'[q].a = b /\ d \in req'[q].held)
                => b = a /\ d \in live
    BY <2>4 DEF OneAtATime
  <2>6. PendingAsRead' = [b \in Auditors |-> [d \in Engagements |-> pending[b][d]]]
    BY <2>1, <2>3, <2>5 DEF PendingAsRead, At, tables
  <2>7. pending = [b \in Auditors |-> [d \in Engagements |-> pending[b][d]]]
    BY <1>0 DEF TypeOK, InviteTables
  <2> QED
    BY <2>1, <2>2, <2>6, <2>7 DEF Lifecycle!vars, tables
<1>4. CASE Arrive(r)
  <2>1. UNCHANGED tables /\ req[r].pc # "register"
    BY <1>4
    DEF Arrive, CloseRead, DeleteRead, RegisterRead, InviteRead, AccessRead, RemoveRead,
        CancelRead, AcceptRead, Begin, At
  <2>2. ASSUME NEW step \in Steps \ {"register"}, NEW e, NEW a, Begin(r, step, e, a)
        PROVE  req'[r].pc # "register"
    BY <1>0, <2>2 DEF Begin, RequestStates
  <2>3. ASSUME NEW e \in Engagements, CloseRead(r, e)
        PROVE  req'[r].pc # "register"
    BY <1>0, <2>3 DEF CloseRead, RequestStates
  <2>4. ASSUME NEW e \in Engagements, DeleteRead(r, e)
        PROVE  req'[r].pc # "register"
    BY <2>2, <2>4 DEF DeleteRead, Steps
  <2>5. ASSUME NEW e \in Engagements, NEW a \in Auditors, NEW areas \in SUBSET Areas,
               InviteRead(r, e, a, areas)
        PROVE  req'[r].pc # "register"
    BY <1>0, <2>5 DEF InviteRead, RequestStates
  <2>6. ASSUME NEW e \in Engagements, NEW a \in Auditors, NEW areas \in SUBSET Areas,
               AccessRead(r, e, a, areas)
        PROVE  req'[r].pc # "register"
    BY <1>0, <2>6 DEF AccessRead, RequestStates
  <2>7. ASSUME NEW e \in Engagements, NEW a \in Auditors, RemoveRead(r, e, a)
        PROVE  req'[r].pc # "register"
    BY <2>2, <2>7 DEF RemoveRead, Steps
  <2>8. ASSUME NEW e \in Engagements, NEW a \in Auditors, CancelRead(r, e, a)
        PROVE  req'[r].pc # "register"
    BY <1>0, <2>8 DEF CancelRead, RequestStates
  <2>9. ASSUME NEW e \in Engagements, NEW a \in Auditors, AcceptRead(r, e, a)
         PROVE  req'[r].pc # "register"
    BY <2>2, <2>9 DEF AcceptRead, Steps
  <2>10. (\E a \in Auditors : RegisterRead(r, a)) \/ req'[r].pc # "register"
    BY <1>4, <2>3, <2>4, <2>5, <2>6, <2>7, <2>8, <2>9 DEF Arrive
  <2> QED
    BY <1>2, <1>3, <2>1, <2>10
<1>5. ASSUME ~Done(r),
             \/ InviteLookup(r) \/ CloseStatus(r) \/ CloseGrants(r) \/ CloseInvites(r)
             \/ DeleteRow(r) \/ AcceptFlush(r)
      PROVE  UNCHANGED Lifecycle!vars
  <2>1. UNCHANGED tables /\ req[r].pc # "register"
    BY <1>5
    DEF InviteLookup, CloseStatus, CloseGrants, CloseInvites, DeleteRow, AcceptFlush, At
  <2>2. CASE CloseGrants(r) \/ CloseInvites(r)
    <3>1. ASSUME CloseGrants(r) PROVE req'[r].pc = "closeInvites"
      BY <1>0, <3>1 DEF CloseGrants, RequestStates
    <3>2. ASSUME CloseInvites(r) PROVE req'[r].pc = "closeCommit"
      BY <1>0, <3>2 DEF CloseInvites, RequestStates
    <3> QED
      BY <1>2, <2>1, <2>2, <3>1, <3>2
  <2>3. CASE InviteLookup(r) \/ CloseStatus(r) \/ DeleteRow(r) \/ AcceptFlush(r)
    <3>1. req'[r].pc # "register"
      BY <1>0, <1>5, <2>3
      DEF InviteLookup, CloseStatus, DeleteRow, AcceptFlush, Goto, RequestStates
    <3> QED
      BY <1>2, <2>1, <3>1
  <2> QED
    BY <1>5, <2>2, <2>3
<1> QED
  BY <1>1, <1>4, <1>5
  DEF InviteLookup, CloseStatus, CloseGrants, CloseInvites, DeleteRow, AcceptFlush

\* An invite expires, unless a registration has it in use.
LEMMA ExpireRefines ==
    ASSUME SInv, TypeOK', NEW e \in Engagements, NEW a \in Auditors, ExpireInvite(e, a)
    PROVE  [Lifecycle!Next]_(Lifecycle!vars)
<1> DEFINE InUse(b, d) ==
        \E r \in Requests : At(r, "register") /\ req[r].a = b /\ d \in req[r].held
<1>1. /\ pending' = [pending EXCEPT ![a][e].status = "expired"]
      /\ pending[a][e].status = "live" /\ pending \in InviteTables
      /\ UNCHANGED <<status, grant, accounts, req>>
  BY DEF ExpireInvite, SInv, IInv, TypeOK
<1>2. /\ PendingAsRead = [b \in Auditors |-> [d \in Engagements |->
             IF InUse(b, d) THEN [pending[b][d] EXCEPT !.status = "live"] ELSE pending[b][d]]]
      /\ PendingAsRead' = [b \in Auditors |-> [d \in Engagements |->
             IF InUse(b, d) THEN [pending'[b][d] EXCEPT !.status = "live"] ELSE pending'[b][d]]]
  BY <1>1 DEF PendingAsRead, At
<1> HIDE DEF InUse
<1>3. /\ \A b \in Auditors, d \in Engagements : b # a \/ d # e => pending'[b][d] = pending[b][d]
      /\ pending'[a][e] = [pending[a][e] EXCEPT !.status = "expired"]
      /\ [pending'[a][e] EXCEPT !.status = "live"] = [pending[a][e] EXCEPT !.status = "live"]
  <2>1. pending[a][e] \in [status: {"live", "expired"}, areas: SUBSET Areas]
    BY <1>1 DEF InviteTables, Invites, NoInvite
  <2>2. pending'[a][e] = [pending[a][e] EXCEPT !.status = "expired"]
    BY <1>1 DEF InviteTables
  <2>3. [pending'[a][e] EXCEPT !.status = "live"] = [pending[a][e] EXCEPT !.status = "live"]
    BY <2>1, <2>2
  <2>4. \A b \in Auditors, d \in Engagements : b # a \/ d # e => pending'[b][d] = pending[b][d]
    BY <1>1 DEF InviteTables
  <2> QED
    BY <2>2, <2>3, <2>4
<1>4. CASE InUse(a, e)
  <2>1. \A b \in Auditors, d \in Engagements :
            (IF InUse(b, d) THEN [pending'[b][d] EXCEPT !.status = "live"] ELSE pending'[b][d])
            = (IF InUse(b, d) THEN [pending[b][d] EXCEPT !.status = "live"] ELSE pending[b][d])
    BY <1>3, <1>4
  <2>2. PendingAsRead' = PendingAsRead
    BY <1>2, <2>1
  <2> QED
    BY <1>1, <2>2 DEF Lifecycle!vars
<1>5. CASE ~InUse(a, e)
  <2> DEFINE over == [d \in Engagements |->
                         IF d \in {e} THEN [PendingAsRead[a][d] EXCEPT !.status = "expired"]
                         ELSE PendingAsRead[a][d]]
  <2>1. PendingAsRead[a][e] = pending[a][e]
    BY <1>2, <1>5
  <2>2. \A d \in Engagements : PendingAsRead'[a][d] = over[d]
    BY <1>2, <1>3, <1>5, <2>1
  <2>3. \A b \in Auditors : b # a => PendingAsRead'[b] = PendingAsRead[b]
    BY <1>2, <1>3
  <2>4. /\ PendingAsRead' = [b \in Auditors |-> PendingAsRead'[b]]
        /\ PendingAsRead = [b \in Auditors |-> PendingAsRead[b]]
        /\ PendingAsRead'[a] = [d \in Engagements |-> PendingAsRead'[a][d]]
    BY <1>2
  <2>5. PendingAsRead'[a] = over
    BY <2>2, <2>4
  <2>6. PendingAsRead' = [PendingAsRead EXCEPT ![a] = over]
    <3> HIDE DEF over
    <3> QED
      BY <2>3, <2>4, <2>5
  <2>7. Lifecycle!ExpireInvites(a, {e})
    BY <1>1, <2>1, <2>6 DEF Lifecycle!ExpireInvites
  <2> QED
    BY <2>7 DEF Lifecycle!Next
<1> QED
  BY <1>4, <1>5

\* Every step of a handler is the operation it belongs to, or nothing.
LEMMA StepRefines ==
    ASSUME OneAtATime
    PROVE  SInv /\ TypeOK' /\ [Next]_vars => [Lifecycle!Next]_(Lifecycle!vars)
<1> SUFFICES ASSUME SInv, TypeOK', [Next]_vars
             PROVE  [Lifecycle!Next]_(Lifecycle!vars)
  OBVIOUS
<1>1. ASSUME NEW r \in Requests, Arrive(r) \/ Advance(r) \/ Crash(r)
      PROVE  [Lifecycle!Next]_(Lifecycle!vars)
  <2>1. CASE \/ Arrive(r)
             \/ InviteLookup(r) \/ CloseStatus(r) \/ CloseGrants(r) \/ CloseInvites(r)
             \/ DeleteRow(r) \/ AcceptFlush(r)
    BY <2>1, ReadRefines
  <2>2. CASE Raise(r) \/ DeadlockVictim(r) \/ Crash(r)
    BY <2>2, EndRefines DEF Raise, DeadlockVictim, Crash
  <2> QED
    BY <1>1, <2>1, <2>2, InviteSaveRefines, CloseCommitRefines, DeleteCascadeRefines,
       GrantSaveRefines, CancelSaveRefines, RegisterSaveRefines, AcceptCommitRefines
    DEF Advance
<1>2. ASSUME NEW e \in Engagements, CreateEngagement(e)
      PROVE  Lifecycle!Next
  <2>1. PendingAsRead' = PendingAsRead
    BY <1>2 DEF CreateEngagement, PendingAsRead, At
  <2>2. Lifecycle!CreateEngagement(e)
    BY <1>2, <2>1 DEF CreateEngagement, Lifecycle!CreateEngagement
  <2> QED
    BY <2>2 DEF Lifecycle!Next
<1>3. ASSUME NEW e \in Engagements, NEW a \in Auditors, ExpireInvite(e, a)
      PROVE  [Lifecycle!Next]_(Lifecycle!vars)
  BY <1>3, ExpireRefines
<1>4. ASSUME UNCHANGED vars
      PROVE  UNCHANGED Lifecycle!vars
  BY <1>4 DEF vars, Lifecycle!vars, PendingAsRead, At
<1> QED
  BY <1>1, <1>2, <1>3, <1>4 DEF Next, Finished

\* With one request at a time the handlers of auditease.py, auditor_engagements.py
\* and auth.py are the indivisible operations of EngagementLifecycle, whatever the
\* engagements, auditors and areas: each write is the operation it belongs to, on
\* the state in which it happens, and all other steps change nothing that counts.
THEOREM OneAtATimeImplements == ASSUME OneAtATime PROVE Spec => OneAtATimeIsLifecycle
<1>1. Init => SInv
  BY SInvInit
<1>2. SInv /\ [Next]_vars => SInv'
  BY SInvInductive
<1>3. SInv => TypeOK
  BY DEF SInv, IInv
<1>4. Init => Lifecycle!Init
  <2> SUFFICES ASSUME Init
               PROVE  Lifecycle!Init
    OBVIOUS
  <2>1. PendingAsRead = pending
    BY SInvInit, IdleIsOK, PendingIsAsRead DEF Init, SInv, IInv
  <2> QED
    BY <2>1, SameOperators DEF Init, Lifecycle!Init
<1>5. SInv /\ TypeOK' /\ [Next]_vars => [Lifecycle!Next]_(Lifecycle!vars)
  BY StepRefines
<1> QED
  BY <1>1, <1>2, <1>3, <1>4, <1>5, PTL DEF Spec, Lifecycle!Spec, OneAtATimeIsLifecycle

-----------------------------------------------------------------------------
(* What follows for one request at a time from what is proved of the         *)
(* indivisible operations.                                                   *)

Promises == INSTANCE EngagementLifecycleProofs WITH pending <- PendingAsRead

\* The operators of the tables in this instance are ours as well.
LEMMA SamePromiseOperators ==
    /\ Promises!NoGrant = Lifecycle!NoGrant /\ Promises!NoInvite = Lifecycle!NoInvite
    /\ \A s : Promises!Exists(s) = Lifecycle!Exists(s)
    /\ \A t, e : /\ Promises!RevokeGrants(t, e) = Lifecycle!RevokeGrants(t, e)
                 /\ Promises!DropGrants(t, e) = Lifecycle!DropGrants(t, e)
                 /\ Promises!DropInvites(t, e) = Lifecycle!DropInvites(t, e)
    /\ \A i, g : Promises!ConvertInvites(i, g) = Lifecycle!ConvertInvites(i, g)
    /\ \A i, l : Promises!DropLive(i, l) = Lifecycle!DropLive(i, l)
  BY SameOperators
  DEF Promises!NoGrant, Promises!NoInvite, Promises!Exists, Promises!RevokeGrants,
      Promises!RevokeFound, Promises!DropGrants, Promises!DropInvites, Promises!DropFound,
      Promises!ConvertInvites, Promises!DropLive, NoGrant, NoInvite, Exists, RevokeGrants,
      RevokeFound, DropGrants, DropInvites, DropFound, ConvertInvites, DropLive

\* Both instances have the same behaviours.
LEMMA SameSpec == Lifecycle!Spec => Promises!Spec
<1>1. UNCHANGED Lifecycle!vars => UNCHANGED Promises!vars
  BY DEF Promises!vars, Lifecycle!vars
<1>2. Lifecycle!Init => Promises!Init
  BY SamePromiseOperators DEF Promises!Init, Lifecycle!Init
<1>3. Lifecycle!Next => Promises!Next
  <2>1. \A e \in Engagements :
            /\ Lifecycle!CreateEngagement(e) => Promises!CreateEngagement(e)
            /\ Lifecycle!CloseEngagement(e) => Promises!CloseEngagement(e)
            /\ Lifecycle!DeleteEngagement(e) => Promises!DeleteEngagement(e)
    BY SamePromiseOperators
    DEF Lifecycle!CreateEngagement, Promises!CreateEngagement, Lifecycle!CloseEngagement,
        Promises!CloseEngagement, Lifecycle!DeleteEngagement, Promises!DeleteEngagement
  <2>2. \A a \in Auditors : Lifecycle!Register(a) => Promises!Register(a)
    BY SamePromiseOperators DEF Lifecycle!Register, Promises!Register
  <2>3. \A a \in Auditors, es \in SUBSET Engagements :
            Lifecycle!ExpireInvites(a, es) => Promises!ExpireInvites(a, es)
    BY DEF Lifecycle!ExpireInvites, Promises!ExpireInvites
  <2>4. \A e \in Engagements, a \in Auditors, areas \in SUBSET Areas :
            /\ Lifecycle!InviteAuditor(e, a, areas) => Promises!InviteAuditor(e, a, areas)
            /\ Lifecycle!UpdateAccess(e, a, areas) => Promises!UpdateAccess(e, a, areas)
    BY SamePromiseOperators
    DEF Lifecycle!InviteAuditor, Promises!InviteAuditor, Lifecycle!UpdateAccess,
        Promises!UpdateAccess, Lifecycle!MarkInvited, Promises!MarkInvited
  <2>5. \A e \in Engagements, a \in Auditors :
            /\ Lifecycle!RemoveAuditor(e, a) => Promises!RemoveAuditor(e, a)
            /\ Lifecycle!CancelInvite(e, a) => Promises!CancelInvite(e, a)
            /\ Lifecycle!AcceptEngagement(e, a) => Promises!AcceptEngagement(e, a)
    BY SamePromiseOperators
    DEF Lifecycle!RemoveAuditor, Promises!RemoveAuditor, Lifecycle!CancelInvite,
        Promises!CancelInvite, Lifecycle!AcceptEngagement, Promises!AcceptEngagement
  <2> QED
    BY <2>1, <2>2, <2>3, <2>4, <2>5 DEF Lifecycle!Next, Promises!Next
<1>4. [Lifecycle!Next]_(Lifecycle!vars) => [Promises!Next]_(Promises!vars)
  BY <1>1, <1>3
<1> QED
  BY <1>2, <1>4, PTL DEF Lifecycle!Spec, Promises!Spec

\* What the mapping shows of an invite is there, and what is live it shows as live.
LEMMA ShownIsThere ==
    ASSUME NEW a \in Auditors, NEW e \in Engagements
    PROVE  /\ PendingAsRead[a][e] = NoInvite => pending[a][e] = NoInvite
           /\ pending[a][e].status = "live" => PendingAsRead[a][e].status = "live"
  BY DEF PendingAsRead, NoInvite

\* With one request at a time a closed engagement admits nobody: close_engagement
\* revokes every grant and drops every invite, and no request brings one back.
THEOREM SerialClosedIsRevoked == ASSUME OneAtATime PROVE Spec => []Tables!ClosedIsRevoked
<1>1. Promises!ClosedIsRevoked => Tables!ClosedIsRevoked
  BY ShownIsThere, SamePromiseOperators, SameOperators
  DEF Promises!ClosedIsRevoked, Tables!ClosedIsRevoked, Tables!NoInvite, NoInvite
<1> QED
  BY <1>1, OneAtATimeImplements, SameSpec, Promises!LifecycleClosedIsRevoked, PTL
  DEF OneAtATimeIsLifecycle

\* With one request at a time no usable invite waits for an address that has
\* registered, and every grant belongs to an account.
THEOREM SerialInvitesAwaitAccounts == ASSUME OneAtATime PROVE Spec => []InvitesAwaitAccounts
<1>1. Promises!InvitesAwaitAccounts => InvitesAwaitAccounts
  BY ShownIsThere, SamePromiseOperators
  DEF Promises!InvitesAwaitAccounts, InvitesAwaitAccounts, Tables!InvitesAwaitAccounts,
      Promises!NoGrant, Tables!NoGrant
<1> QED
  BY <1>1, OneAtATimeImplements, SameSpec, Promises!LifecycleInvitesAwaitAccounts, PTL
  DEF OneAtATimeIsLifecycle

\* With one request at a time a closed engagement is never opened again.
THEOREM SerialClosedIsFinal == ASSUME OneAtATime PROVE Spec => ClosedIsFinal
<1>1. [\A e \in Engagements :
          status[e] = "closed" => status'[e] \in {"closed", "deleted"}]_(Promises!vars)
      => [\A e \in Engagements :
             status[e] = "closed" => status'[e] \in {"closed", "deleted"}]_(Tables!vars)
  BY DEF Promises!vars, Tables!vars
<1> QED
  BY <1>1, OneAtATimeImplements, SameSpec, Promises!LifecycleClosedIsFinal, PTL
  DEF OneAtATimeIsLifecycle, Promises!ClosedIsFinal, ClosedIsFinal, Tables!ClosedIsFinal

\* With one request at a time an active engagement is closed before it is deleted.
THEOREM SerialActiveIsNeverDeleted == ASSUME OneAtATime PROVE Spec => ActiveIsNeverDeleted
<1>1. [\A e \in Engagements : status[e] = "active" => status'[e] # "deleted"]_(Promises!vars)
      => [\A e \in Engagements : status[e] = "active" => status'[e] # "deleted"]_(Tables!vars)
  BY DEF Promises!vars, Tables!vars
<1> QED
  BY <1>1, OneAtATimeImplements, SameSpec, Promises!LifecycleActiveIsNeverDeleted, PTL
  DEF OneAtATimeIsLifecycle, Promises!ActiveIsNeverDeleted, ActiveIsNeverDeleted,
      Tables!ActiveIsNeverDeleted
=============================================================================
