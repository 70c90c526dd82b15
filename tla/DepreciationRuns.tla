-------------------------- MODULE DepreciationRuns --------------------------
(***************************************************************************)
(* Depreciation runs over the financial years of one company               *)
(* (services/depreciation_query.py, routers/depreciation.py,               *)
(* routers/financial_years.py).  A run takes its opening balances from the *)
(* lines of the finalized run of the year before, is a draft until it is   *)
(* finalized, and may be reopened, superseded or deleted.  Requests are    *)
(* concurrent READ COMMITTED transactions: what one has selected may be    *)
(* changed by others before it writes.  The lines of a run never change    *)
(* once it is committed, so that its opening balances are represented by   *)
(* the run whose closing lines it was computed from.                       *)
(***************************************************************************)
EXTENDS Naturals

CONSTANTS
    Years,      \* financial years, numbered in the order of their dates
    Runs,       \* identifiers of depreciation_runs rows; never used twice
    Requests,   \* requests in flight: worker slots of the API
    None        \* no year, no run

ASSUME YearsAssumption == Years \subseteq Nat

ASSUME NoneAssumption == None \notin Years \cup Runs

VARIABLES
    fy,           \* FinancialYear.status of each year
    capitalized,  \* years in which an asset was capitalized that is not pre-cutover
    run,          \* the depreciation_runs rows
    req           \* what each request has selected and will do next

tables == <<fy, capitalized, run>>
vars == <<fy, capitalized, run, req>>

\* opening: the run whose closing lines gave the opening balances, if any.
NoRun == [status |-> "none", year |-> None, opening |-> None]
Gone  == [NoRun EXCEPT !.status = "deleted"]

RunRows ==
    {NoRun, Gone} \cup
    [status: {"draft", "finalized"}, year: Years, opening: Runs \cup {None}]

\* rows: the drafts an execution is about to supersede, and from "insert" on
\* those it has deleted and locked.  seen: the run's status as selected.
RequestStates ==
    [pc: {"idle", "gate", "lines", "supersede", "lock", "insert",
          "finalize", "reopen", "delete"},
     year: Years \cup {None}, prior: Years \cup {None},
     run: Runs \cup {None}, opening: Runs \cup {None},
     rows: SUBSET Runs, seen: {"none", "draft", "finalized"}]

Idle ==
    [pc |-> "idle", year |-> None, prior |-> None, run |-> None, opening |-> None,
     rows |-> {}, seen |-> "none"]

TypeOK ==
    /\ fy \in [Years -> {"none", "open", "closed"}]
    /\ capitalized \in SUBSET Years
    /\ run \in [Runs -> RunRows]
    /\ req \in [Requests -> RequestStates]

Init ==
    /\ fy = [y \in Years |-> "none"]
    /\ capitalized = {}
    /\ run = [d \in Runs |-> NoRun]
    /\ req = [r \in Requests |-> Idle]

At(r, step) == req[r].pc = step

Goto(r, step) == req' = [req EXCEPT ![r].pc = step]

\* The response is sent, or the transaction rolled back.
Done(r) == req' = [req EXCEPT ![r] = Idle]

Exists(d) == run[d].status \in {"draft", "finalized"}

RunsOf(y, s) == {d \in Runs : run[d].year = y /\ run[d].status = s}

\* Mistake, for comparison: statements that do not wait for row locks.
RunFreeAlways(r, d) == TRUE

\* No other request has deleted d without having committed yet.
RunFree(r, d) == \A q \in Requests \ {r} : At(q, "insert") => d \notin req[q].rows
-----------------------------------------------------------------------------
(* Financial years and assets.                                             *)

CreateYear(r, y) ==
    /\ At(r, "idle")
    /\ fy[y] = "none"
    /\ fy' = [fy EXCEPT ![y] = "open"]
    /\ UNCHANGED <<capitalized, run, req>>

CloseYear(r, y) ==
    /\ At(r, "idle")
    /\ fy[y] = "open"
    /\ fy' = [fy EXCEPT ![y] = "closed"]
    /\ UNCHANGED <<capitalized, run, req>>

ReopenYear(r, y) ==
    /\ At(r, "idle")
    /\ fy[y] = "closed"
    /\ fy' = [fy EXCEPT ![y] = "open"]
    /\ UNCHANGED <<capitalized, run, req>>

\* approve_asset: an asset is capitalized with a date in year y, whether or not the company
\* has entered that year.  Nothing takes it back.
Capitalize(r, y) ==
    /\ At(r, "idle")
    /\ capitalized' = capitalized \cup {y}
    /\ UNCHANGED <<fy, run, req>>
-----------------------------------------------------------------------------
(* execute_depreciation_run.                                               *)

\* p is the latest year entered that ends before y begins, None if there is none.
IsPriorYear(p, y) ==
    LET earlier == {x \in Years : fy[x] # "none" /\ x < y}
    IN  IF earlier = {} THEN p = None
        ELSE p \in earlier /\ \A x \in earlier : x <= p

\* The year, the year before, and the finalized run of that year.
ExecuteRead(r, y) ==
    /\ At(r, "idle")
    /\ fy[y] = "open"
    /\ \E p \in Years \cup {None} :
          /\ IsPriorYear(p, y)
          /\ \/ /\ p = None
                /\ req' = [req EXCEPT ![r] = [Idle EXCEPT !.pc = "supersede", !.year = y]]
             \/ /\ p # None /\ RunsOf(p, "finalized") = {}
                /\ req' = [req EXCEPT ![r] =
                              [Idle EXCEPT !.pc = "gate", !.year = y, !.prior = p]]
             \/ \E d \in RunsOf(p, "finalized") :
                   /\ p # None
                   /\ req' = [req EXCEPT ![r] =
                                 [Idle EXCEPT !.pc = "lines", !.year = y, !.prior = p,
                                              !.opening = d]]
    /\ UNCHANGED tables

\* Without one, the year before must have no draft and no assets to depreciate.
ExecuteGate(r) ==
    /\ At(r, "gate")
    /\ IF \/ RunsOf(req[r].prior, "draft") # {}
          \/ \E x \in capitalized : x < req[r].year
       THEN Done(r)
       ELSE Goto(r, "supersede")
    /\ UNCHANGED tables

\* The lines of the finalized run: none, should it have been deleted meanwhile.
ExecuteLines(r) ==
    /\ At(r, "lines")
    /\ req' = [req EXCEPT ![r].pc = "supersede",
                          ![r].opening = IF Exists(@) THEN @ ELSE None]
    /\ UNCHANGED tables

\* DELETE ... WHERE status = 'draft': the rows that match as the statement begins,
ExecuteSupersede(r) ==
    /\ At(r, "supersede")
    /\ req' = [req EXCEPT ![r].pc = "lock", ![r].rows = RunsOf(req[r].year, "draft")]
    /\ UNCHANGED tables

\* Mistake, for comparison: the condition is not tested again under the lock.
StillDraftsUnchecked(rows) == {d \in rows : Exists(d)}

StillDrafts(rows) == {d \in rows : run[d].status = "draft"}

\* of which it deletes those that still match once it has their lock.
ExecuteLock(r) ==
    /\ At(r, "lock")
    /\ \A d \in req[r].rows : RunFree(r, d)
    /\ req' = [req EXCEPT ![r].pc = "insert", ![r].rows = StillDrafts(@)]
    /\ UNCHANGED tables

\* The new draft with its lines, and the commit.
ExecuteInsert(r) ==
    /\ At(r, "insert")
    /\ \E new \in Runs :
          /\ run[new] = NoRun
          /\ run' = [d \in Runs |->
                        IF d = new
                        THEN [status |-> "draft", year |-> req[r].year,
                              opening |-> req[r].opening]
                        ELSE IF d \in req[r].rows THEN Gone
                        ELSE run[d]]
    /\ Done(r)
    /\ UNCHANGED <<fy, capitalized>>
-----------------------------------------------------------------------------
(* finalize_depreciation_run, reopen_depreciation_run, and                 *)
(* delete_depreciation_run.                                                *)

\* A request that has tested run d and goes on to `step`.
Begin(r, d, step) ==
    req' = [req EXCEPT ![r] = [Idle EXCEPT !.pc = step, !.run = d, !.seen = run[d].status]]

NoOtherFinalized(d) == RunsOf(run[d].year, "finalized") \subseteq {d}

\* Mistake, for comparison: the status of the year is not looked at.
FinalizeReadInAnyYear(r, d) ==
    /\ At(r, "idle")
    /\ Exists(d)
    /\ NoOtherFinalized(d)
    /\ Begin(r, d, "finalize")
    /\ UNCHANGED tables

FinalizeRead(r, d) ==
    /\ At(r, "idle")
    /\ Exists(d) /\ fy[run[d].year] # "closed"
    /\ NoOtherFinalized(d)
    /\ Begin(r, d, "finalize")
    /\ UNCHANGED tables

\* Mistake, for comparison: the partial unique index is not there.
UniqueFinalizedDropped(d) == TRUE

\* uq_depreciation_runs_company_fy_finalized lets d become finalized.
UniqueFinalized(d) == NoOtherFinalized(d)

\* A run that was read as finalized keeps the status it has: only finalized_at and
\* finalized_by are written.
FinalizeSave(r) ==
    LET d == req[r].run
    IN  /\ At(r, "finalize")
        /\ Exists(d) /\ RunFree(r, d)
        /\ IF req[r].seen = "draft"
           THEN UniqueFinalized(d) /\ run' = [run EXCEPT ![d].status = "finalized"]
           ELSE UNCHANGED run
        /\ Done(r)
        /\ UNCHANGED <<fy, capitalized>>

\* Mistake, for comparison: no later year stands in the way.
BlockingLaterNever(d) == FALSE

\* _blocking_later_label: a later year has a finalized run.
BlockingLater(d) ==
    \E x \in Runs : x # d /\ run[x].status = "finalized" /\ run[x].year > run[d].year

ReopenRead(r, d) ==
    /\ At(r, "idle")
    /\ run[d].status = "finalized" /\ fy[run[d].year] # "closed"
    /\ ~BlockingLater(d)
    /\ Begin(r, d, "reopen")
    /\ UNCHANGED tables

\* Mistake, for comparison: an UPDATE that writes the row even if it is gone.
ReopenSaveUnmatched(r) ==
    LET d == req[r].run
    IN  /\ At(r, "reopen")
        /\ RunFree(r, d)
        /\ run' = [run EXCEPT ![d].status = "draft"]
        /\ Done(r)
        /\ UNCHANGED <<fy, capitalized>>

ReopenSave(r) ==
    LET d == req[r].run
    IN  /\ At(r, "reopen")
        /\ Exists(d) /\ RunFree(r, d)
        /\ run' = [run EXCEPT ![d].status = "draft"]
        /\ Done(r)
        /\ UNCHANGED <<fy, capitalized>>

\* Mistake, for comparison: finalized runs can be deleted.
DeleteReadFinalized(r, d) ==
    /\ At(r, "idle")
    /\ Exists(d) /\ fy[run[d].year] # "closed"
    /\ Begin(r, d, "delete")
    /\ UNCHANGED tables

DeleteRead(r, d) ==
    /\ At(r, "idle")
    /\ run[d].status = "draft" /\ fy[run[d].year] # "closed"
    /\ Begin(r, d, "delete")
    /\ UNCHANGED tables

\* DELETE by identity, whatever the run has become; a row that is gone is no error.
DeleteSave(r) ==
    LET d == req[r].run
    IN  /\ At(r, "delete")
        /\ RunFree(r, d)
        /\ run' = [run EXCEPT ![d] = Gone]
        /\ Done(r)
        /\ UNCHANGED <<fy, capitalized>>

\* The transaction is rolled back: the calculation meets data it refuses, an UPDATE
\* finds its row gone, the unique index refuses it, or the connection is lost.
RollBack(r) == ~At(r, "idle") /\ Done(r) /\ UNCHANGED tables
-----------------------------------------------------------------------------
Year(r, y) ==
    \/ CreateYear(r, y) \/ CloseYear(r, y) \/ ReopenYear(r, y) \/ Capitalize(r, y)
    \/ ExecuteRead(r, y)

Select(r, d) == FinalizeRead(r, d) \/ ReopenRead(r, d) \/ DeleteRead(r, d)

Advance(r) ==
    \/ ExecuteGate(r) \/ ExecuteLines(r) \/ ExecuteSupersede(r) \/ ExecuteLock(r)
    \/ ExecuteInsert(r)
    \/ FinalizeSave(r) \/ ReopenSave(r) \/ DeleteSave(r)
    \/ RollBack(r)

Next ==
    \E r \in Requests :
        \/ \E y \in Years : Year(r, y)
        \/ \E d \in Runs : Select(r, d)
        \/ Advance(r)

Spec == Init /\ [][Next]_vars
-----------------------------------------------------------------------------
(* For any number of concurrent requests.                                  *)

\* A year has one finalized run at most: two finalizations that both found none
\* meet at the partial unique index, and no reopened, re-executed or re-finalized
\* run slips past it.
OneFinalizedPerYear ==
    \A d, x \in Runs :
        /\ run[d].status = "finalized" /\ run[x].status = "finalized"
        /\ run[d].year = run[x].year
        => d = x

\* execute_depreciation_run: "Finalized runs are never touched", though a draft it
\* has selected for deletion may be finalized before the deletion gets its lock,
\* and a deleted one be finalized before the deletion commits.
ExecutionSparesFinalized ==
    [][\A r \in Requests, d \in Runs :
          /\ At(r, "insert") /\ req'[r] # req[r]
          /\ run[d].status = "finalized"
          => run'[d] = run[d]]_vars
-----------------------------------------------------------------------------
(* With one request at a time.                                             *)

\* While a year is closed nothing adds, changes or removes a run of it.
ClosedYearIsFrozen ==
    [][\A y \in Years : fy[y] = "closed" =>
          \A d \in Runs : run[d].year = y \/ run'[d].year = y => run'[d] = run[d]]_vars

\* A finalized run goes through reopening before it can disappear, be it deleted
\* or superseded.
FinalizedIsNeverDeleted ==
    [][\A d \in Runs : run[d].status = "finalized" => run'[d].status # "deleted"]_vars

\* d is finalized and opens with the closing balances of a finalized run.
Linked(d) ==
    /\ run[d].status = "finalized"
    /\ run[d].opening # None
    /\ run[run[d].opening].status = "finalized"

\* A link of the chain of finalized years comes undone at its later end only: the
\* run a finalized year opened with is neither reopened, deleted nor superseded
\* under it.
LinksAreUndoneNewestFirst ==
    [][\A d \in Runs : Linked(d) => Linked(d)' \/ run'[d].status # "finalized"]_vars
-----------------------------------------------------------------------------
(* What the repository says and the handlers, one at a time, refute.       *)

\* reopen_depreciation_run: "a later finalized year consumed this run's closings,
\* so reopening while one exists would silently desynchronize the chain".
\* A finalized year that opens with a run's closings opens with a finalized run.
OpeningsAreFinalized ==
    \A d \in Runs : run[d].status = "finalized" /\ run[d].opening # None => Linked(d)
=============================================================================
