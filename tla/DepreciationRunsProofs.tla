----------------------- MODULE DepreciationRunsProofs -----------------------
(***************************************************************************)
(* DepreciationRuns for every set of years, runs and requests.  The first  *)
(* part is about any number of concurrent requests: an execution locks the *)
(* drafts it deletes, so that they are drafts until it commits.  The       *)
(* second is about one request at a time: what a request has tested is     *)
(* still so when it writes, and openings come from earlier years, so that  *)
(* _blocking_later_label sees every year that has consumed a run.          *)
(***************************************************************************)
EXTENDS DepreciationRuns, TLAPS

RequestOK(r) ==
    /\ req[r].pc \in {"gate", "lines", "supersede", "lock", "insert"} => req[r].year \in Years
    /\ req[r].pc \in {"finalize", "reopen", "delete"} => req[r].run \in Runs
    /\ At(r, "insert") => \A d \in req[r].rows : run[d].status = "draft"

DisjointRows ==
    \A q, r \in Requests :
        At(q, "insert") /\ At(r, "insert") /\ q # r => req[q].rows \cap req[r].rows = {}

IInv ==
    /\ TypeOK
    /\ OneFinalizedPerYear
    /\ DisjointRows
    /\ \A r \in Requests : RequestOK(r)
-----------------------------------------------------------------------------
\* A request that has ended is well formed.
LEMMA IdleIsOK == Idle \in RequestStates /\ Idle.pc = "idle"
  BY DEF Idle, RequestStates

\* A step of one request that leaves the tables alone preserves the invariant, if
\* the rows it has locked are drafts that no other request has locked.
LEMMA ReadStep ==
    ASSUME IInv, UNCHANGED tables, NEW r \in Requests, NEW to \in RequestStates,
           req' = [req EXCEPT ![r] = to],
           RequestOK(r)',
           to.pc = "insert" => \A d \in to.rows : RunFree(r, d)
    PROVE  IInv'
<1> USE DEF IInv
<1>1. /\ req'[r] = to
      /\ \A q \in Requests \ {r} : req'[q] = req[q]
      /\ UNCHANGED <<fy, capitalized, run>>
  BY DEF TypeOK, tables
<1>2. TypeOK' /\ OneFinalizedPerYear'
  BY <1>1 DEF TypeOK, OneFinalizedPerYear
<1>3. DisjointRows'
  BY <1>1 DEF DisjointRows, RunFree, At
<1>4. \A q \in Requests \ {r} : RequestOK(q)'
  BY <1>1 DEF RequestOK, At
<1> QED
  BY <1>2, <1>3, <1>4

\* Ending a request without a write preserves the invariant.
LEMMA EndStep ==
    ASSUME IInv, NEW r \in Requests, Done(r), UNCHANGED tables
    PROVE  IInv'
<1>1. req' = [req EXCEPT ![r] = Idle] /\ req'[r] = Idle
  BY DEF Done, IInv, TypeOK
<1>2. RequestOK(r)'
  BY <1>1, IdleIsOK DEF RequestOK, At
<1> QED
  BY <1>1, <1>2, IdleIsOK, ReadStep

\* What a write to the rows of runs owes the other requests: the drafts they have
\* locked are theirs, and it ends the request that wrote.
LEMMA WriteStep ==
    ASSUME IInv, NEW r \in Requests, Done(r),
           run' \in [Runs -> RunRows], UNCHANGED <<fy, capitalized>>,
           OneFinalizedPerYear',
           \A q \in Requests \ {r} : At(q, "insert") =>
               \A d \in req[q].rows : run'[d] = run[d]
    PROVE  IInv'
<1> USE DEF IInv
<1>1. /\ req' = [req EXCEPT ![r] = Idle] /\ req'[r] = Idle
      /\ \A q \in Requests \ {r} : req'[q] = req[q]
  BY DEF Done, TypeOK
<1>2. TypeOK'
  BY <1>1, IdleIsOK DEF TypeOK
<1>3. DisjointRows'
  BY <1>1, IdleIsOK DEF DisjointRows, At
<1>4. \A q \in Requests : RequestOK(q)'
  BY <1>1, IdleIsOK DEF RequestOK, At
<1> QED
  BY <1>2, <1>3, <1>4

\* Writing the status of one run that no other request has locked.
LEMMA StatusStep ==
    ASSUME IInv, NEW r \in Requests, Done(r), UNCHANGED <<fy, capitalized>>,
           NEW d \in Runs, RunFree(r, d),
           NEW row \in RunRows, run' = [run EXCEPT ![d] = row],
           row.status = "finalized" => row.year = run[d].year /\ UniqueFinalized(d)
    PROVE  IInv'
<1> USE DEF IInv
<1>1. /\ run' \in [Runs -> RunRows] /\ run'[d] = row
      /\ \A x \in Runs \ {d} : run'[x] = run[x]
  BY DEF TypeOK
<1>2. OneFinalizedPerYear'
  BY <1>1 DEF OneFinalizedPerYear, UniqueFinalized, NoOtherFinalized, RunsOf
<1>3. \A q \in Requests \ {r} : At(q, "insert") => \A x \in req[q].rows : run'[x] = run[x]
  BY <1>1 DEF RunFree, TypeOK, RequestStates
<1> QED
  BY <1>1, <1>2, <1>3, WriteStep
-----------------------------------------------------------------------------
\* The steps of the years, and those in which a request selects its rows.
LEMMA ArriveStep ==
    ASSUME IInv, NEW r \in Requests,
           (\E y \in Years : Year(r, y)) \/ (\E d \in Runs : Select(r, d))
    PROVE  IInv'
<1> USE DEF IInv
<1>0. run \in [Runs -> RunRows] /\ req \in [Requests -> RequestStates]
  BY DEF TypeOK
<1>1. ASSUME NEW y \in Years,
             CreateYear(r, y) \/ CloseYear(r, y) \/ ReopenYear(r, y) \/ Capitalize(r, y)
      PROVE  IInv'
  <2>1. UNCHANGED <<run, req>>
    BY <1>1 DEF CreateYear, CloseYear, ReopenYear, Capitalize
  <2>2. TypeOK'
    BY <1>1 DEF CreateYear, CloseYear, ReopenYear, Capitalize, TypeOK
  <2> QED
    BY <2>1, <2>2 DEF OneFinalizedPerYear, DisjointRows, RequestOK, At
<1>2. ASSUME NEW y \in Years, ExecuteRead(r, y)
      PROVE  IInv'
  <2>1. PICK to \in RequestStates :
           /\ req' = [req EXCEPT ![r] = to]
           /\ to.pc \in {"supersede", "gate", "lines"} /\ to.year = y
    <3> DEFINE first == [Idle EXCEPT !.pc = "supersede", !.year = y]
               gate(p) == [Idle EXCEPT !.pc = "gate", !.year = y, !.prior = p]
               lines(p, d) == [Idle EXCEPT !.pc = "lines", !.year = y, !.prior = p,
                                           !.opening = d]
               To(to) == /\ to \in RequestStates
                         /\ to.pc \in {"supersede", "gate", "lines"} /\ to.year = y
    <3>1. To(first)
      BY DEF Idle, RequestStates
    <3>2. \A p \in Years \cup {None} : To(gate(p))
      BY DEF Idle, RequestStates
    <3>3. \A p \in Years \cup {None}, d \in Runs : To(lines(p, d))
      BY DEF Idle, RequestStates
    <3>4. \/ req' = [req EXCEPT ![r] = first]
          \/ \E p \in Years \cup {None} : req' = [req EXCEPT ![r] = gate(p)]
          \/ \E p \in Years \cup {None}, d \in Runs : req' = [req EXCEPT ![r] = lines(p, d)]
      <4> HIDE DEF To
      <4>1. \A p : RunsOf(p, "finalized") \subseteq Runs
        BY DEF RunsOf
      <4> QED
        BY <1>2, <4>1 DEF ExecuteRead
    <3> HIDE DEF first, gate, lines
    <3> QED
      BY <3>1, <3>2, <3>3, <3>4
  <2>2. RequestOK(r)' /\ UNCHANGED tables
    BY <1>0, <1>2, <2>1 DEF ExecuteRead, RequestOK, At
  <2> QED
    BY <2>1, <2>2, ReadStep
<1>3. ASSUME NEW d \in Runs, Select(r, d)
      PROVE  IInv'
  <2>1. PICK step \in {"finalize", "reopen", "delete"} : Begin(r, d, step) /\ Exists(d)
    BY <1>3 DEF Select, FinalizeRead, ReopenRead, DeleteRead, Exists
  <2> DEFINE to == [Idle EXCEPT !.pc = step, !.run = d, !.seen = run[d].status]
  <2>2. to \in RequestStates /\ req' = [req EXCEPT ![r] = to] /\ to.pc = step /\ to.run = d
    BY <2>1 DEF Begin, Exists, Idle, RequestStates
  <2>3. UNCHANGED tables
    BY <1>3 DEF Select, FinalizeRead, ReopenRead, DeleteRead
  <2> HIDE DEF to
  <2>4. RequestOK(r)'
    BY <1>0, <2>2 DEF RequestOK, At
  <2> QED
    BY <2>2, <2>3, <2>4, ReadStep
<1> QED
  BY <1>1, <1>2, <1>3 DEF Year

\* The steps of an execution before its commit: from the lock on, the rows it has
\* taken are drafts and no other request has them.
LEMMA ExecuteStep ==
    ASSUME IInv, NEW r \in Requests,
           ExecuteGate(r) \/ ExecuteLines(r) \/ ExecuteSupersede(r) \/ ExecuteLock(r)
    PROVE  IInv'
<1> USE DEF IInv
<1>0. req \in [Requests -> RequestStates] /\ req[r] \in RequestStates /\ RequestOK(r)
  BY DEF TypeOK
<1>1. CASE ExecuteGate(r)
  <2>1. CASE Done(r)
    BY <1>1, <2>1, EndStep DEF ExecuteGate
  <2>2. CASE Goto(r, "supersede")
    <3> DEFINE to == [req[r] EXCEPT !.pc = "supersede"]
    <3>1. to \in RequestStates /\ req' = [req EXCEPT ![r] = to] /\ to.pc = "supersede"
      BY <1>0, <2>2 DEF Goto, RequestStates
    <3>2. RequestOK(r)'
      BY <1>0, <1>1, <3>1 DEF ExecuteGate, RequestOK, At, RequestStates
    <3> QED
      BY <1>1, <3>1, <3>2, ReadStep DEF ExecuteGate
  <2> QED
    BY <1>1, <2>1, <2>2 DEF ExecuteGate
<1>2. CASE ExecuteLines(r)
  <2> DEFINE to == [req[r] EXCEPT !.pc = "supersede",
                                  !.opening = IF Exists(@) THEN @ ELSE None]
  <2>1. to \in RequestStates /\ req' = [req EXCEPT ![r] = to] /\ to.pc = "supersede"
    BY <1>0, <1>2 DEF ExecuteLines, RequestStates
  <2>2. RequestOK(r)'
    BY <1>0, <1>2, <2>1 DEF ExecuteLines, RequestOK, At, RequestStates
  <2> QED
    BY <1>2, <2>1, <2>2, ReadStep DEF ExecuteLines
<1>3. CASE ExecuteSupersede(r)
  <2> DEFINE to == [req[r] EXCEPT !.pc = "lock", !.rows = RunsOf(req[r].year, "draft")]
  <2>1. to \in RequestStates /\ req' = [req EXCEPT ![r] = to] /\ to.pc = "lock"
    BY <1>0, <1>3 DEF ExecuteSupersede, RequestStates, RunsOf
  <2>2. RequestOK(r)'
    BY <1>0, <1>3, <2>1 DEF ExecuteSupersede, RequestOK, At, RequestStates
  <2> QED
    BY <1>3, <2>1, <2>2, ReadStep DEF ExecuteSupersede
<1>4. CASE ExecuteLock(r)
  <2> DEFINE to == [req[r] EXCEPT !.pc = "insert", !.rows = StillDrafts(@)]
  <2>1. /\ to \in RequestStates /\ req' = [req EXCEPT ![r] = to] /\ to.pc = "insert"
        /\ to.rows = StillDrafts(req[r].rows)
    BY <1>0, <1>4 DEF ExecuteLock, RequestStates, StillDrafts
  <2>2. req'[r] = to /\ to.year = req[r].year /\ UNCHANGED run /\ At(r, "lock")
    BY <1>0, <1>4, <2>1 DEF ExecuteLock, RequestStates, tables
  <2> HIDE DEF to
  <2>3. RequestOK(r)'
    BY <1>0, <2>1, <2>2 DEF RequestOK, At, StillDrafts
  <2>4. \A d \in to.rows : RunFree(r, d)
    BY <1>4, <2>1 DEF ExecuteLock, StillDrafts
  <2> QED
    BY <1>4, <2>1, <2>3, <2>4, ReadStep DEF ExecuteLock
<1> QED
  BY <1>1, <1>2, <1>3, <1>4

\* The commit of an execution removes drafts and adds one.
LEMMA InsertStep ==
    ASSUME IInv, NEW r \in Requests, ExecuteInsert(r)
    PROVE  /\ IInv'
           /\ \A d \in Runs : run[d].status = "finalized" => run'[d] = run[d]
<1> USE DEF IInv
<1>0. /\ run \in [Runs -> RunRows] /\ req[r] \in RequestStates /\ RequestOK(r)
      /\ At(r, "insert") /\ req[r].year \in Years /\ req[r].opening \in Runs \cup {None}
      /\ \A d \in req[r].rows : run[d].status = "draft"
  BY DEF TypeOK, ExecuteInsert, RequestOK, At, RequestStates
<1> DEFINE draft == [status |-> "draft", year |-> req[r].year, opening |-> req[r].opening]
<1>1. PICK new \in Runs :
         /\ run[new] = NoRun
         /\ run' = [d \in Runs |-> IF d = new THEN draft
                                   ELSE IF d \in req[r].rows THEN Gone ELSE run[d]]
  BY DEF ExecuteInsert
<1>2. draft \in RunRows /\ Gone \in RunRows /\ run[new].status = "none"
      /\ draft.status = "draft" /\ Gone.status = "deleted"
  BY <1>0, <1>1 DEF RunRows, NoRun, Gone
<1> HIDE DEF draft
<1>3. run' \in [Runs -> RunRows]
  BY <1>0, <1>1, <1>2
<1>4. /\ \A d \in Runs : run[d].status = "finalized" => run'[d] = run[d]
      /\ \A d \in Runs : run'[d].status = "finalized" => run'[d] = run[d]
  BY <1>0, <1>1, <1>2
<1>5. OneFinalizedPerYear'
  BY <1>4 DEF OneFinalizedPerYear
<1>6. ASSUME NEW q \in Requests \ {r}, At(q, "insert"), NEW d \in req[q].rows
      PROVE  run'[d] = run[d]
  <2>1. d \in Runs /\ run[d].status = "draft"
    BY <1>6 DEF TypeOK, RequestStates, RequestOK
  <2>2. d \notin req[r].rows /\ d # new
    BY <1>0, <1>2, <1>6, <2>1 DEF DisjointRows
  <2> QED
    BY <1>1, <2>1, <2>2
<1>7. IInv'
  BY <1>3, <1>5, <1>6, WriteStep DEF ExecuteInsert
<1> QED
  BY <1>4, <1>7

\* Finalizing, reopening and deleting a run each write one row, under its lock.
LEMMA RunStep ==
    ASSUME IInv, NEW r \in Requests,
           FinalizeSave(r) \/ ReopenSave(r) \/ DeleteSave(r)
    PROVE  IInv'
<1> USE DEF IInv
<1> DEFINE d == req[r].run
<1>0. run \in [Runs -> RunRows] /\ RequestOK(r)
  BY DEF TypeOK
<1>1. d \in Runs /\ RunFree(r, d) /\ Done(r) /\ UNCHANGED <<fy, capitalized>>
  BY <1>0 DEF FinalizeSave, ReopenSave, DeleteSave, RequestOK, At
<1>2. run[d] \in RunRows
  BY <1>0, <1>1
<1>3. CASE UNCHANGED run
  BY <1>1, <1>3, EndStep DEF tables
<1>4. CASE FinalizeSave(r) /\ run' # run
  <2> DEFINE row == [run[d] EXCEPT !.status = "finalized"]
  <2>1. row \in RunRows /\ run' = [run EXCEPT ![d] = row] /\ row.year = run[d].year
    BY <1>2, <1>4 DEF FinalizeSave, Exists, RunRows, NoRun, Gone
  <2>2. UniqueFinalized(d)
    BY <1>4 DEF FinalizeSave
  <2> QED
    BY <1>1, <2>1, <2>2, StatusStep
<1>5. CASE ReopenSave(r)
  <2> DEFINE row == [run[d] EXCEPT !.status = "draft"]
  <2>1. row \in RunRows /\ run' = [run EXCEPT ![d] = row] /\ row.status # "finalized"
    BY <1>2, <1>5 DEF ReopenSave, Exists, RunRows, NoRun, Gone
  <2> QED
    BY <1>1, <2>1, StatusStep
<1>6. CASE DeleteSave(r)
  <2>1. Gone \in RunRows /\ run' = [run EXCEPT ![d] = Gone] /\ Gone.status # "finalized"
    BY <1>6 DEF DeleteSave, RunRows, NoRun, Gone
  <2> QED
    BY <1>1, <2>1, StatusStep
<1> QED
  BY <1>3, <1>4, <1>5, <1>6
-----------------------------------------------------------------------------
\* Every step preserves the inductive invariant.
LEMMA IInvInductive == IInv /\ [Next]_vars => IInv'
<1> SUFFICES ASSUME IInv, [Next]_vars
             PROVE  IInv'
  OBVIOUS
<1>1. ASSUME NEW r \in Requests, Advance(r)
      PROVE  IInv'
  <2>1. CASE RollBack(r)
    BY <2>1, EndStep DEF RollBack
  <2> QED
    BY <1>1, <2>1, ExecuteStep, InsertStep, RunStep DEF Advance
<1>2. CASE UNCHANGED vars
  BY <1>2
  DEF vars, IInv, TypeOK, OneFinalizedPerYear, DisjointRows, RequestOK, At
<1> QED
  BY <1>1, <1>2, ArriveStep DEF Next

\* With no run and no request in flight the inductive invariant holds.
LEMMA IInvInit == Init => IInv
<1> SUFFICES ASSUME Init
             PROVE  IInv
  OBVIOUS
<1>1. TypeOK
  BY IdleIsOK DEF Init, TypeOK, RunRows, NoRun, Gone
<1>2. OneFinalizedPerYear
  BY DEF Init, NoRun, OneFinalizedPerYear
<1>3. DisjointRows /\ \A r \in Requests : RequestOK(r)
  BY IdleIsOK DEF Init, DisjointRows, RequestOK, At
<1> QED
  BY <1>1, <1>2, <1>3 DEF IInv

\* The inductive invariant holds in every state, whatever the requests in flight.
THEOREM RunsInvariant == Spec => []IInv
  BY IInvInit, IInvInductive, PTL DEF Spec

\* Years, runs and requests stay well formed.
THEOREM RunsTypeCorrect == Spec => []TypeOK
<1>1. IInv => TypeOK
  BY DEF IInv
<1> QED
  BY <1>1, RunsInvariant, PTL

\* However requests interleave, a year has one finalized run at most.
THEOREM RunsOneFinalizedPerYear == Spec => []OneFinalizedPerYear
<1>1. IInv => OneFinalizedPerYear
  BY DEF IInv
<1> QED
  BY <1>1, RunsInvariant, PTL

\* The commit of an execution leaves every finalized run as it is, whatever was
\* finalized between the selection of the drafts it deletes and their deletion.
THEOREM RunsExecutionSparesFinalized == Spec => ExecutionSparesFinalized
<1>1. ASSUME IInv, [Next]_vars,
             NEW r \in Requests, NEW d \in Runs,
             At(r, "insert"), req'[r] # req[r], run[d].status = "finalized"
      PROVE  run'[d] = run[d]
  <2>1. ExecuteInsert(r) \/ RollBack(r)
    <3>0. req \in [Requests -> RequestStates] /\ req[r].pc = "insert"
      BY <1>1 DEF IInv, TypeOK, At
    <3>1. ASSUME NEW q \in Requests, Advance(q)
          PROVE  /\ q # r => req'[r] = req[r]
                 /\ q = r => ExecuteInsert(r) \/ RollBack(r)
      BY <3>0, <3>1
      DEF Advance, ExecuteGate, ExecuteLines, ExecuteSupersede, ExecuteLock, ExecuteInsert,
          FinalizeSave, ReopenSave, DeleteSave, RollBack, Done, Goto, At
    <3>2. ASSUME NEW q \in Requests, NEW y \in Years, Year(q, y)
          PROVE  req'[r] = req[r]
      <4>1. At(q, "idle")
        BY <3>2 DEF Year, CreateYear, CloseYear, ReopenYear, Capitalize, ExecuteRead
      <4>2. q # r
        BY <3>0, <4>1 DEF At
      <4> QED
        BY <3>0, <3>2, <4>2
        DEF Year, CreateYear, CloseYear, ReopenYear, Capitalize, ExecuteRead
    <3>3. ASSUME NEW q \in Requests, NEW x \in Runs, Select(q, x)
          PROVE  req'[r] = req[r]
      <4>1. At(q, "idle")
        BY <3>3 DEF Select, FinalizeRead, ReopenRead, DeleteRead
      <4>2. q # r
        BY <3>0, <4>1 DEF At
      <4> QED
        BY <3>0, <3>3, <4>2 DEF Select, FinalizeRead, ReopenRead, DeleteRead, Begin
    <3> QED
      BY <1>1, <3>1, <3>2, <3>3 DEF Next, vars
  <2>2. CASE ExecuteInsert(r)
    BY <1>1, <2>2, InsertStep
  <2>3. CASE RollBack(r)
    BY <2>3 DEF RollBack, tables
  <2> QED
    BY <2>1, <2>2, <2>3
<1>2. IInv /\ [Next]_vars =>
        [\A r \in Requests, d \in Runs :
            /\ At(r, "insert") /\ req'[r] # req[r]
            /\ run[d].status = "finalized"
            => run'[d] = run[d]]_vars
  BY <1>1
<1> QED
  BY <1>2, RunsInvariant, PTL DEF Spec, ExecutionSparesFinalized
-----------------------------------------------------------------------------
(* One request at a time, the request q.                                   *)

\* Openings come from earlier years.
OpeningsAreEarlier ==
    \A d \in Runs :
        /\ Exists(d) => run[d].year \in Years
        /\ run[d].opening # None => Exists(d) /\ run[run[d].opening].status # "none"
        /\ run[d].opening # None /\ Exists(run[d].opening) =>
              run[run[d].opening].year < run[d].year

\* What request q has tested is so until it ends.
StillTrue(q) ==
    /\ req[q].pc \in {"gate", "lines", "supersede", "lock", "insert"} =>
          fy[req[q].year] = "open"
    /\ req[q].opening # None =>
          Exists(req[q].opening) /\ run[req[q].opening].year < req[q].year
    /\ \A d \in req[q].rows : run[d].year = req[q].year
    /\ req[q].pc \in {"finalize", "reopen", "delete"} =>
          Exists(req[q].run) /\ fy[run[req[q].run].year] # "closed"
    /\ At(q, "reopen") => ~BlockingLater(req[q].run)
    /\ At(q, "delete") => run[req[q].run].status = "draft"

SInv(q) == IInv /\ OpeningsAreEarlier /\ StillTrue(q)

\* What a step may do to the runs of closed years and to finalized runs.
SafeStep ==
    /\ \A y \in Years : fy[y] = "closed" =>
          \A d \in Runs : run[d].year = y \/ run'[d].year = y => run'[d] = run[d]
    /\ \A d \in Runs : run[d].status = "finalized" => run'[d].status # "deleted"
    /\ \A d \in Runs : Linked(d) => Linked(d)' \/ run'[d].status # "finalized"

\* A step that leaves the rows of runs alone is safe.
LEMMA SafeRead == TypeOK /\ UNCHANGED run => SafeStep
  BY DEF SafeStep, Linked, TypeOK, RunRows, NoRun, Gone

\* The steps that leave the rows of runs alone.
LEMMA SerialRead ==
    ASSUME NEW q \in Requests, SInv(q), IInv',
           \/ \E y \in Years : Year(q, y)
           \/ \E d \in Runs : Select(q, d)
           \/ ExecuteGate(q) \/ ExecuteLines(q) \/ ExecuteSupersede(q) \/ ExecuteLock(q)
           \/ RollBack(q)
    PROVE  SInv(q)' /\ SafeStep
<1> USE DEF SInv
<1>0. /\ req \in [Requests -> RequestStates] /\ req[q] \in RequestStates
      /\ run \in [Runs -> RunRows] /\ RequestOK(q) /\ TypeOK
      /\ fy \in [Years -> {"none", "open", "closed"}]
  BY DEF IInv, TypeOK
<1>1. UNCHANGED run
  BY DEF Year, CreateYear, CloseYear, ReopenYear, Capitalize, ExecuteRead, Select, FinalizeRead,
         ReopenRead, DeleteRead, ExecuteGate, ExecuteLines, ExecuteSupersede, ExecuteLock,
         RollBack, tables
<1>2. OpeningsAreEarlier' /\ SafeStep
  BY <1>0, <1>1, SafeRead DEF OpeningsAreEarlier, Exists
<1>3. ASSUME req'[q] = Idle
      PROVE  StillTrue(q)'
  BY <1>3 DEF StillTrue, At, Idle
<1>4. ASSUME NEW y \in Years,
             CreateYear(q, y) \/ CloseYear(q, y) \/ ReopenYear(q, y) \/ Capitalize(q, y)
      PROVE  StillTrue(q)'
  <2>1. At(q, "idle") /\ UNCHANGED req
    BY <1>4 DEF CreateYear, CloseYear, ReopenYear, Capitalize
  <2> QED
    BY <1>1, <2>1 DEF StillTrue, At, Exists
<1>5. ASSUME NEW y \in Years, ExecuteRead(q, y)
      PROVE  StillTrue(q)'
  <2>1. fy[y] = "open" /\ UNCHANGED fy
    BY <1>5 DEF ExecuteRead, tables
  <2>2. /\ req'[q].year = y /\ req'[q].rows = {} /\ req'[q].pc \in {"supersede", "gate", "lines"}
        /\ req'[q].opening # None =>
              run[req'[q].opening].status = "finalized" /\ run[req'[q].opening].year < y
    <3>1. PICK p \in Years \cup {None} :
             /\ IsPriorYear(p, y)
             /\ \/ /\ p = None
                   /\ req' = [req EXCEPT ![q] = [Idle EXCEPT !.pc = "supersede", !.year = y]]
                \/ /\ p # None
                   /\ req' = [req EXCEPT ![q] =
                                 [Idle EXCEPT !.pc = "gate", !.year = y, !.prior = p]]
                \/ \E d \in RunsOf(p, "finalized") :
                      /\ p # None
                      /\ req' = [req EXCEPT ![q] =
                                    [Idle EXCEPT !.pc = "lines", !.year = y, !.prior = p,
                                                 !.opening = d]]
      BY <1>5 DEF ExecuteRead
    <3> DEFINE Ready == /\ req'[q].year = y /\ req'[q].rows = {}
                        /\ req'[q].pc \in {"supersede", "gate", "lines"}
                        /\ req'[q].opening # None =>
                              /\ run[req'[q].opening].status = "finalized"
                              /\ run[req'[q].opening].year < y
    <3>2. CASE req' = [req EXCEPT ![q] = [Idle EXCEPT !.pc = "supersede", !.year = y]]
      BY <1>0, <3>2 DEF Idle
    <3>3. CASE req' = [req EXCEPT ![q] = [Idle EXCEPT !.pc = "gate", !.year = y, !.prior = p]]
      BY <1>0, <3>3 DEF Idle
    <3>4. ASSUME NEW d \in RunsOf(p, "finalized"), p # None,
                 req' = [req EXCEPT ![q] =
                            [Idle EXCEPT !.pc = "lines", !.year = y, !.prior = p,
                                         !.opening = d]]
          PROVE  Ready
      <4>1. run[d].status = "finalized" /\ run[d].year = p
        BY <3>4 DEF RunsOf
      <4>2. p < y
        BY <3>1, <3>4 DEF IsPriorYear
      <4>3. /\ req'[q].year = y /\ req'[q].rows = {} /\ req'[q].pc = "lines"
            /\ req'[q].opening = d
        BY <1>0, <3>4 DEF Idle
      <4> QED
        BY <4>1, <4>2, <4>3
    <3> QED
      BY <3>1, <3>2, <3>3, <3>4
  <2> QED
    BY <1>1, <2>1, <2>2 DEF StillTrue, At, Exists
<1>6. ASSUME NEW d \in Runs, Select(q, d)
      PROVE  StillTrue(q)'
  <2>1. PICK step \in {"finalize", "reopen", "delete"} :
           /\ Begin(q, d, step)
           /\ Exists(d) /\ fy[run[d].year] # "closed"
           /\ step = "reopen" => ~BlockingLater(d)
           /\ step = "delete" => run[d].status = "draft"
    BY <1>6 DEF Select, FinalizeRead, ReopenRead, DeleteRead, Exists
  <2>2. /\ req'[q].pc = step /\ req'[q].run = d /\ req'[q].rows = {}
        /\ req'[q].opening = None /\ UNCHANGED fy
    BY <1>0, <1>6, <2>1 DEF Begin, Idle, Select, FinalizeRead, ReopenRead, DeleteRead, tables
  <2> QED
    BY <1>1, <2>1, <2>2 DEF StillTrue, At, Exists, BlockingLater
<1>7. ASSUME ExecuteGate(q)
      PROVE  StillTrue(q)'
  <2>1. CASE Done(q)
    BY <1>0, <1>3, <2>1 DEF Done
  <2>2. CASE Goto(q, "supersede")
    <3>1. req'[q] = [req[q] EXCEPT !.pc = "supersede"] /\ UNCHANGED fy /\ At(q, "gate")
      BY <1>0, <1>7, <2>2 DEF Goto, ExecuteGate, tables
    <3> QED
      BY <1>0, <1>1, <3>1 DEF StillTrue, At, Exists, RequestStates
  <2> QED
    BY <1>7, <2>1, <2>2 DEF ExecuteGate
<1>8. ASSUME ExecuteLines(q) \/ ExecuteSupersede(q) \/ ExecuteLock(q)
      PROVE  StillTrue(q)'
  <2>1. /\ req'[q].pc \in {"supersede", "lock", "insert"} /\ req'[q].year = req[q].year
        /\ req'[q].opening \in {req[q].opening, None}
        /\ \A d \in req'[q].rows : run[d].year = req[q].year
        /\ UNCHANGED fy /\ req[q].pc \in {"lines", "supersede", "lock"}
    BY <1>0, <1>8
    DEF ExecuteLines, ExecuteSupersede, ExecuteLock, RequestStates, tables, At, StillTrue,
        RunsOf, StillDrafts
  <2> QED
    BY <1>1, <2>1 DEF StillTrue, At, Exists
<1>9. ASSUME RollBack(q)
      PROVE  StillTrue(q)'
  BY <1>0, <1>3, <1>9 DEF RollBack, Done
<1> QED
  BY <1>2, <1>4, <1>5, <1>6, <1>7, <1>8, <1>9 DEF Year

\* The commit of an execution: a draft of an open year is added, whose opening
\* balances are of an earlier year, and drafts of the same year are removed.
LEMMA SerialInsert ==
    ASSUME NEW q \in Requests, SInv(q), ExecuteInsert(q)
    PROVE  OpeningsAreEarlier' /\ SafeStep
<1> USE DEF SInv
<1>0. /\ run \in [Runs -> RunRows] /\ req[q] \in RequestStates /\ RequestOK(q)
      /\ At(q, "insert") /\ req[q].year \in Years /\ req[q].opening \in Runs \cup {None}
      /\ req[q].rows \subseteq Runs /\ StillTrue(q)
      /\ fy[req[q].year] = "open"
  BY DEF IInv, TypeOK, ExecuteInsert, RequestOK, At, RequestStates, StillTrue
<1> DEFINE draft == [status |-> "draft", year |-> req[q].year, opening |-> req[q].opening]
<1>1. PICK new \in Runs :
         /\ run[new] = NoRun
         /\ run' = [d \in Runs |-> IF d = new THEN draft
                                   ELSE IF d \in req[q].rows THEN Gone ELSE run[d]]
  BY DEF ExecuteInsert
<1>2. /\ run[new].status = "none" /\ run[new].opening = None
      /\ run[new].year = None /\ None \notin Years /\ None \notin Runs
  BY <1>1, NoneAssumption DEF NoRun
<1>3. /\ draft.status = "draft" /\ draft.year = req[q].year /\ draft.opening = req[q].opening
      /\ Gone.status = "deleted" /\ Gone.opening = None /\ Gone.year = None
  BY DEF Gone, NoRun
<1> HIDE DEF draft
<1>4. \A d \in req[q].rows : run[d].status = "draft" /\ run[d].year = req[q].year
  BY <1>0 DEF RequestOK, StillTrue
<1>5. /\ run'[new] = draft
      /\ \A d \in Runs : /\ d # new /\ d \in req[q].rows => run'[d] = Gone
                         /\ d # new /\ d \notin req[q].rows => run'[d] = run[d]
  BY <1>1
<1>6. \A d \in Runs : run[d].status = "finalized" => run'[d] = run[d]
  BY <1>2, <1>4, <1>5
<1>7. ASSUME NEW d \in Runs
      PROVE  /\ Exists(d)' => run'[d].year \in Years
             /\ run'[d].opening # None =>
                   Exists(d)' /\ run'[run'[d].opening].status # "none"
             /\ run'[d].opening # None /\ run'[run'[d].opening].status \in {"draft", "finalized"} =>
                   run'[run'[d].opening].year < run'[d].year
  <2>1. ASSUME NEW o \in Runs, run[o].status # "none"
        PROVE  /\ run'[o].status # "none"
               /\ run'[o].status \in {"draft", "finalized"} => run'[o] = run[o] /\ Exists(o)
    BY <1>2, <1>3, <1>5, <2>1 DEF Exists
  <2>2. CASE d = new
    <3>1. req[q].opening # None => req[q].opening \in Runs /\ Exists(req[q].opening)
      BY <1>0 DEF StillTrue
    <3>2. req[q].opening # None => run[req[q].opening].year < req[q].year
      BY <1>0 DEF StillTrue
    <3> QED
      BY <1>0, <1>3, <1>5, <2>1, <2>2, <3>1, <3>2 DEF Exists
  <2>3. CASE d # new /\ d \in req[q].rows
    BY <1>3, <1>5, <2>3 DEF Exists
  <2>4. CASE d # new /\ d \notin req[q].rows
    <3>1. run'[d] = run[d] /\ run[d].opening \in Runs \cup {None}
      BY <1>0, <1>5, <2>4 DEF RunRows, NoRun, Gone
    <3> QED
      BY <2>1, <3>1 DEF OpeningsAreEarlier, Exists
  <2> QED
    BY <2>2, <2>3, <2>4
<1>8. OpeningsAreEarlier'
  BY <1>7 DEF OpeningsAreEarlier, Exists
<1>9. ASSUME NEW y \in Years, fy[y] = "closed", NEW d \in Runs,
             run[d].year = y \/ run'[d].year = y
      PROVE  run'[d] = run[d]
  BY <1>0, <1>2, <1>3, <1>4, <1>5, <1>9
<1>10. ASSUME NEW d \in Runs, Linked(d)
       PROVE  Linked(d)'
  BY <1>0, <1>6, <1>10 DEF Linked, RunRows, NoRun, Gone
<1> QED
  BY <1>6, <1>8, <1>9, <1>10 DEF SafeStep

\* Finalizing, reopening and deleting a run of an open year: a run that a finalized
\* year has opened with is of an earlier year, and that year blocks its reopening.
LEMMA SerialStatus ==
    ASSUME NEW q \in Requests, SInv(q), FinalizeSave(q) \/ ReopenSave(q) \/ DeleteSave(q)
    PROVE  OpeningsAreEarlier' /\ SafeStep
<1> USE DEF SInv
<1> DEFINE d0 == req[q].run
<1>0. /\ run \in [Runs -> RunRows] /\ d0 \in Runs /\ StillTrue(q)
      /\ req[q].pc \in {"finalize", "reopen", "delete"}
      /\ Exists(d0) /\ fy[run[d0].year] # "closed" /\ run[d0] \in RunRows
  BY DEF IInv, TypeOK, RequestOK, StillTrue, FinalizeSave, ReopenSave, DeleteSave, At
<1>1. \A d \in Runs : d # d0 => run'[d] = run[d]
  BY <1>0 DEF FinalizeSave, ReopenSave, DeleteSave
<1>2. \/ /\ run'[d0] = Gone /\ Gone.status = "deleted" /\ Gone.opening = None
         /\ Gone.year = None
         /\ run[d0].status = "draft"
      \/ /\ run'[d0].year = run[d0].year /\ run'[d0].opening = run[d0].opening
         /\ \/ run'[d0].status = "finalized"
            \/ run'[d0].status = run[d0].status
            \/ run'[d0].status = "draft" /\ ~BlockingLater(d0)
  <2>1. CASE FinalizeSave(q)
    BY <1>0, <2>1 DEF FinalizeSave, Exists, RunRows, NoRun, Gone
  <2>2. CASE ReopenSave(q)
    BY <1>0, <2>2 DEF ReopenSave, RunRows, NoRun, Gone, StillTrue
  <2>3. CASE DeleteSave(q)
    BY <1>0, <2>3 DEF DeleteSave, StillTrue, Gone, NoRun
  <2> QED
    BY <2>1, <2>2, <2>3
<1>3. /\ run'[d0].status # "none"
      /\ run'[d0].status \in {"draft", "finalized"} => run'[d0].year = run[d0].year
      /\ run[d0].status = "finalized" => run'[d0].status # "deleted"
      /\ run'[d0].opening \in {run[d0].opening, None}
      /\ run'[d0].opening # None => run'[d0].status \in {"draft", "finalized"}
  BY <1>0, <1>2 DEF Exists
<1>4. OpeningsAreEarlier'
  <2>1. ASSUME NEW d \in Runs
        PROVE  /\ Exists(d)' => run'[d].year \in Years
               /\ run'[d].opening # None =>
                     Exists(d)' /\ run'[run'[d].opening].status # "none"
               /\ run'[d].opening # None /\ run'[run'[d].opening].status \in {"draft", "finalized"} =>
                     run'[run'[d].opening].year < run'[d].year
    <3>1. run[d].opening \in Runs \cup {None} /\ run'[d].opening \in {run[d].opening, None}
      BY <1>0, <1>1, <1>3 DEF RunRows, NoRun, Gone
    <3>2. \A o \in Runs : run[o].status # "none" =>
             /\ run'[o].status # "none"
             /\ run'[o].status \in {"draft", "finalized"} =>
                   Exists(o) /\ run'[o].year = run[o].year
      BY <1>0, <1>1, <1>3 DEF Exists
    <3>3. run'[d].opening # None => Exists(d)' /\ run'[d].year = run[d].year
      BY <1>0, <1>1, <1>3, <3>1 DEF OpeningsAreEarlier, Exists
    <3>4. Exists(d)' => Exists(d) /\ run'[d].year = run[d].year
      BY <1>0, <1>1, <1>3 DEF Exists
    <3> QED
      BY <3>1, <3>2, <3>3, <3>4 DEF OpeningsAreEarlier
  <2> QED
    BY <2>1 DEF OpeningsAreEarlier, Exists
<1>5. ASSUME NEW y \in Years, fy[y] = "closed", NEW d \in Runs,
             run[d].year = y \/ run'[d].year = y
      PROVE  run'[d] = run[d]
  <2>1. y # None
    BY NoneAssumption
  <2> QED
    BY <1>0, <1>1, <1>2, <1>5, <2>1
<1>6. ASSUME NEW d \in Runs, Linked(d), run'[d].status = "finalized"
      PROVE  Linked(d)'
  <2> DEFINE o == run[d].opening
  <2>1. /\ o \in Runs /\ run[d].status = "finalized" /\ run[o].status = "finalized"
        /\ run[o].year < run[d].year
    BY <1>0, <1>6 DEF Linked, RunRows, NoRun, Gone, OpeningsAreEarlier, Exists
  <2>2. run[o].year \in Nat /\ run[d].year \in Nat
    BY <1>6, <2>1, YearsAssumption DEF OpeningsAreEarlier, Exists
  <2>3. BlockingLater(o)
    BY <2>1, <2>2 DEF BlockingLater
  <2>4. run'[o].status = "finalized"
    BY <1>1, <1>2, <2>1, <2>3
  <2>5. run'[d].opening = o
    BY <1>1, <1>2, <1>6
  <2> QED
    BY <1>6, <2>1, <2>4, <2>5 DEF Linked
<1> QED
  BY <1>1, <1>3, <1>4, <1>5, <1>6 DEF SafeStep

\* Served one at a time, every step is safe and keeps true what requests have tested.
LEMMA SerialStep ==
    ASSUME NEW q, Requests = {q}, SInv(q), [Next]_vars
    PROVE  SInv(q)' /\ SafeStep
<1>1. IInv' /\ q \in Requests
  BY IInvInductive DEF SInv
<1>2. CASE UNCHANGED vars
  <2>1. SInv(q)'
    BY <1>1, <1>2
    DEF SInv, vars, OpeningsAreEarlier, StillTrue, Exists, At, BlockingLater
  <2> QED
    BY <1>2, <2>1, SafeRead DEF SInv, IInv, vars
<1>3. CASE ExecuteInsert(q) \/ FinalizeSave(q) \/ ReopenSave(q) \/ DeleteSave(q)
  <2>1. OpeningsAreEarlier' /\ SafeStep
    BY <1>1, <1>3, SerialInsert, SerialStatus
  <2>2. req'[q] = Idle
    BY <1>1, <1>3
    DEF ExecuteInsert, FinalizeSave, ReopenSave, DeleteSave, Done, SInv, IInv, TypeOK
  <2>3. StillTrue(q)'
    BY <2>2 DEF StillTrue, At, Idle
  <2> QED
    BY <1>1, <2>1, <2>3 DEF SInv
<1>4. CASE \/ \E y \in Years : Year(q, y)
           \/ \E d \in Runs : Select(q, d)
           \/ ExecuteGate(q) \/ ExecuteLines(q) \/ ExecuteSupersede(q) \/ ExecuteLock(q)
           \/ RollBack(q)
  BY <1>1, <1>4, SerialRead
<1> QED
  BY <1>2, <1>3, <1>4 DEF Next, Advance

\* Initially no request has tested anything and no run has opening balances.
LEMMA SerialInit == ASSUME NEW q, Requests = {q} PROVE Init => SInv(q)
<1> SUFFICES ASSUME Init
             PROVE  SInv(q)
  OBVIOUS
<1>1. req[q] = Idle /\ \A d \in Runs : run[d] = NoRun
  BY DEF Init
<1>2. OpeningsAreEarlier
  BY <1>1 DEF OpeningsAreEarlier, NoRun, Exists
<1>3. StillTrue(q)
  BY <1>1 DEF StillTrue, At, Idle
<1> QED
  BY <1>2, <1>3, IInvInit DEF SInv

\* Served one at a time, requests find what they have tested still so, and openings
\* come from earlier years.
THEOREM SerialInvariant == ASSUME NEW q, Requests = {q} PROVE Spec => []SInv(q)
  BY SerialInit, SerialStep, PTL DEF Spec

\* With one request at a time nothing adds, changes or removes a run of a closed year.
THEOREM SerialClosedYearIsFrozen ==
    ASSUME NEW q, Requests = {q} PROVE Spec => ClosedYearIsFrozen
<1>1. SInv(q) /\ [Next]_vars =>
        [\A y \in Years : fy[y] = "closed" =>
            \A d \in Runs : run[d].year = y \/ run'[d].year = y => run'[d] = run[d]]_vars
  BY SerialStep DEF SafeStep
<1> QED
  BY <1>1, SerialInvariant, PTL DEF Spec, ClosedYearIsFrozen

\* With one request at a time a finalized run is reopened before it disappears.
THEOREM SerialFinalizedIsNeverDeleted ==
    ASSUME NEW q, Requests = {q} PROVE Spec => FinalizedIsNeverDeleted
<1>1. SInv(q) /\ [Next]_vars =>
        [\A d \in Runs : run[d].status = "finalized" => run'[d].status # "deleted"]_vars
  BY SerialStep DEF SafeStep
<1> QED
  BY <1>1, SerialInvariant, PTL DEF Spec, FinalizedIsNeverDeleted

\* With one request at a time a finalized year keeps the finalized run it opened with
\* for as long as it is finalized.
THEOREM SerialLinksAreUndoneNewestFirst ==
    ASSUME NEW q, Requests = {q} PROVE Spec => LinksAreUndoneNewestFirst
<1>1. SInv(q) /\ [Next]_vars =>
        [\A d \in Runs : Linked(d) => Linked(d)' \/ run'[d].status # "finalized"]_vars
  BY SerialStep DEF SafeStep
<1> QED
  BY <1>1, SerialInvariant, PTL DEF Spec, LinksAreUndoneNewestFirst
=============================================================================
