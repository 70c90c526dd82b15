# Verification of Kubera

Kubera is a multi-tenant back office for companies and their auditors: a FastAPI
service (`app/`, asynchronous SQLAlchemy over PostgreSQL), Celery workers over Redis, a
React client, a gateway with a maintenance mode, and operations scripts. This directory
holds TLA+ models of its parts, TLC configurations that check them on small instances,
and TLAPS proofs of the theorems that hold for every instance.

## 1. The system

Every request of the API runs in one transaction of its own (`app/database.py`,
`get_db`: a session per request, commit at the end, rollback on an exception).
PostgreSQL's default READ COMMITTED isolation applies; there is hardly an explicit lock
in the code. A handler typically selects rows, tests them in Python, answers an error or
goes on, and writes at a later statement. Two requests therefore interleave between
those statements, and only row locks of written rows, foreign keys and unique
constraints stand between them. That is the main hazard of the server.

The React client is the larger half of the code. Each tab keeps a copy of what it has
fetched (TanStack Query), decides from the copy which controls to show, sends calls that
may be answered late, twice or not at all, and marks what a call may have changed so
that it is fetched again. Its two kinds of user, of a company and of an auditor, each
have a session that all tabs of the browser share through `localStorage`. Copies that
are stale, answers that come late and forms that are sent, dismissed and reopened
meanwhile are the main hazards of the client.

| Part | State | Operations | Interacts with | Correct when |
|---|---|---|---|---|
| Engagements, grants, invites (`routers/auditease.py`, `auditor_engagements.py`, `auth.py`) | `audit_engagements.status`, one grant per auditor and engagement, one pending invite per address and engagement, auditor accounts | create, invite, change access, remove, cancel, close, delete, register, accept; expiry | all AuditEase parts ask for the grant | closed is final and revoked, nobody on a draft, only acceptance activates, invites reach their account |
| Requirements and submissions (`services/requirements.py`) | requirement status, sequence number, response rounds, their documents | create, update, import, respond, close, reopen, delete | engagement status, DocVault | numbers and rounds unique, nothing answered after close, nothing answered is deleted |
| Queries | query status, messages | create, message, close | engagement status | no message on a closed query |
| Trial balance, audit entries (`tb_reimport.py`) | ledgers, entries and their lines | import, re-import, propose, approve, reject, delete | chart of accounts | entries balance and keep their ledgers |
| Chart of accounts (`ledger_groups.py`) | groups, mapping of ledgers | add, delete, map, bulk map, import mappings | trial balance | ledgers hang on leaves only |
| DocVault (`routers/docvault.py`, `bucket_access.py`) | buckets, documents, versions, approvals, files | upload, new version, update, request approval, review, archive, restore | compliance records, requirements | one current version, reviews apply to what was reviewed, no file without a row |
| Compliance (`routers/compliance.py`) | records with a snapshot of their document's status | sync, update, archive, unarchive | DocVault | unarchiving restores what archiving changed |
| Users and onboarding (`routers/users.py`, `auth.py`) | accounts, roles, activation key | create, update, deactivate, reactivate, soft-delete, activate, reissue | everything | an admin remains, a key is used once |
| Company purge (`services/account_admin.py`) | all rows and files of a company | purge | DocVault | no file without a row |
| Depreciation runs, financial years (`depreciation_query.py`, `financial_years.py`) | years open or closed, runs draft or finalized, their lines | execute, finalize, reopen, delete, close year, reopen year | asset register | a finalized year continues from the finalized year before |
| Asset register (`assets.py`, `asset_register.py`, `asset_tags.py`) | assets draft, ready, capitalized, disposed; code sequences | add, import, submit, approve, reject, dispose | masters, depreciation | codes unique, costs add up |
| Engines (`depreciation.py`, `it_depreciation.py`, `asset_costing.py`) | none (pure) | compute | depreciation runs | charges stay within the base, sums balance |
| Email (`services/email/`) | log rows, queue | send, retry | invites | a log row tells the truth |
| Rate limiter (`rate_limit.py`) | counters with expiry | count | login, activation | a limited client is let in again |
| Worker, maintenance mode, key rotation, export and import scripts | files, one mode file, wrapped keys | backup, prune, switch, rotate | operators | interrupted runs can be repeated |
| Client sessions (`api/http.ts`, `auth/createIdentityAuth.tsx`, `auth/tokenStorage.ts`) | one token pair per browser and identity; a profile and a query cache per tab | load, sign in, sign out, request, refresh, retry | the server's accounts, all pages | profile, tokens and cache of a tab are of one user; nobody is signed out without a reason |
| Client cache and forms (`lib/queryClient.ts`, `api/hooks`, `pages`, `components/ui`) | cached answers and their marks, open forms and drafts, calls in flight | open, type, submit, dismiss, leave, fetch, poll, invalidate | every endpoint | what was saved is shown, saved once, and typed text is kept |
| DocVault pages (`documentPermissions.ts`, `useDocumentActions.ts`) | the cached document | show a control, click, refetch after a refusal | DocVault | no control that the server refuses, none hidden that it accepts |
| KRA, sales, leads, custom fields, notifications, activity, reporting, masters | single rows | create, update, list | | no protocol to speak of |

`PROJECT.json` lists the parts with their sources and state, and the hazards with the
line at which each bites and the properties that watch it.

## 2. Plan

1. **Engagements** (done): `EngagementTables`, `EngagementLifecycle` (the abstract,
   atomic life cycle), `Engagement` (the handlers, statement by statement), proofs.
2. **Depreciation runs and financial years** (done): `DepreciationRuns`, with the chain
   of opening balances as ghost data, proofs.
3. **DocVault** (done): `DocumentApproval`, a document's approval with the handlers, the
   archiving of its compliance records and the pages that mirror the rules, proofs.
4. **Sessions of the client** (done): `Session`, proofs.
5. **Cache and forms of the client** (done): `Client`, one form against one query, and a
   catalog for each area of the API (`DocVaultClient`, `AuditClient`, `AuditorClient`,
   `AssetClient`, `OfficeClient`) that lists what its endpoints, hooks, forms and pages
   do; `MCClient` makes the scenes of `Client` from them; proofs.

Left of the plan, in the order in which they seem worth it: the server's side of
requirements and rounds, of audit entries and the chart of accounts, of the rest of
compliance, of users and their roles, and of the asset life
cycle with its code sequences. The hazards of those that are known are listed in
`PROJECT.json` without a property.

Three results tie descriptions together: `Engagement` with one request at a time implements
`EngagementLifecycle` (a run and a theorem), the controls of `documentPermissions.ts` are
those the handlers accept (`PagesMirrorServer`, a theorem), and the scenes that the catalogs
make have the traits that the theorems about `Client` ask for (`CoveredAssumption`, which TLC
evaluates). Components that share a state space are checked in one run, so that the number
of runs stays small.

## 3. Engagements

### Modules

* `EngagementTables` - the rows of `models/auditease.py` (engagement status, grant,
  pending invite) and what statements that write several of them do: revoking the grants
  of an engagement, the cascades of a deletion, the conversion of invites into grants.
* `EngagementLifecycle` - each handler as one indivisible change. It states what the
  handlers promise together: `ClosedIsRevoked`, `DraftIsEmpty`, `InvitesAwaitAccounts`,
  `ClosedIsFinal`, `ActiveIsNeverDeleted`, `ActivatesByAcceptance`.
* `Engagement` - the handlers as the database sees them. `Requests` is a set of request
  slots; a slot's record holds how far the request has come and what it has selected. A
  handler is one step for its reads and early returns and one for its writes and commit,
  with more where it holds row locks while it goes on. `close_engagement` takes four:
  it flushes the engagement's status (`CloseStatus`), updates the grants that are
  committed by then (`CloseGrants`), deletes the invites that are (`CloseInvites`) and
  commits (`CloseCommit`), so that a grant or an invite committed in between is neither
  locked nor written by it. `delete_engagement` deletes the row before the cascade, and
  `accept_engagement` flushes the grant, implicitly, when it selects the engagement. Row
  locks are not variables: `HoldsEngagement`, `HoldsGrant` and `HoldsInvite` read them
  off the requests' positions and the rows they have written (`revokes`, `drops`), and
  `EngagementFree`, `GrantFree` and `InviteFree` make others wait for them. A statement
  that writes several rows takes their locks together, when all are free. A failed
  statement (`Raises`: a row gone, a duplicate, a missing foreign key) and a lost
  connection (`Crash`) end the request without a write; two requests waiting for each
  other's lock, of the engagement and of a grant, are resolved by `DeadlockVictim`. (An
  invitation can also wait for a closing that waits for it, over an invite's row; as the
  invitation holds nothing that the model shows, that victim is a `Crash`.)
* `MCEngagement`, `MCEngagementLifecycle` - instances for TLC.
* `EngagementTablesProofs`, `EngagementLifecycleProofs`, `EngagementProofs` - theorems;
  `EngagementSerialProofs` - the refinement of `EngagementLifecycle` by `Engagement`.

Correspondence: `status` is `AuditEngagement.status` ("none" before creation, "deleted"
after), `grant[a][e]` the `AuditorEngagementGrant`, `pending[a][e]` the
`PendingAuditorInvite` (an invite whose `expires_at` has passed has status "expired" and
is otherwise kept), `accounts` the `auditors` table. `areas` stands for
`area_permissions`. Left out: prior-engagement and note fields, tokens and e-mail text,
activity log rows, the document backfill of `accept_engagement`.

### Runs

| Run | Instance | Shows |
|---|---|---|
| `lifecycle` | 2 engagements, 2 auditors, 1 area | the promises of the atomic operations |
| `serial` | 2 engagements, 2 auditors, 1 request | `Engagement` with one request at a time implements `EngagementLifecycle` (refinement `PendingAsRead`: an invite that a registration has selected counts as live until that registration ends) |
| `concurrent` | 1 engagement, 1 auditor, 2 requests | what survives concurrency: `DraftIsEmpty`, `GrantsBelongToAccounts`, `AcceptanceIsNotOvertaken`, `ActivatesOnlyAsInvited`, `DeletedIsFinal`, and that every request ends |
| `closed_reopens` | same | an invite can reopen a closed engagement |
| `active_deleted` | same | an active engagement can be deleted |
| `stranded_invite` | same | a usable invite can be written for an address that has registered meanwhile, whose registration it misses (in the trace the account has its grant from an earlier invite, and the late one stays beside it) |

Bounds. The tables are finite by themselves and no step depends on the number of
engagements or auditors but `auditor_register`, which converts all invites of an
address, and `close_engagement`, which revokes all grants of an engagement; two of each
exercise both. Every race of two handlers needs two requests; the safety
properties are proved for any number.
Identifiers are never reused, so an instance runs down when all engagements are deleted:
`Finished` lets it rest there, and the atomic life cycle is checked without a
deadlock check for the same reason.

Fairness. `FairSpec` assumes strong fairness of the steps of a request that is being
served. A worker goes on as long as it lives, and PostgreSQL queues the transactions
that wait for a row lock, so a lock that is free again and again is eventually
obtained. Nothing is assumed of arrivals, crashes or expiry.

### What is proved

For every finite or infinite set of engagements, auditors, areas and requests:

* `EngagementLifecycleProofs`: the atomic operations keep `TypeOK`, `ClosedIsRevoked`,
  `DraftIsEmpty` and `InvitesAwaitAccounts`, and satisfy the three action properties. The
  inductive invariant `Inv` needs them together: if a draft could hold a grant, an
  accepted one could meet a draft that is then invited to.
* `EngagementProofs`: under any number of concurrent requests, `TypeOK`,
  `DraftIsEmpty`, `GrantsBelongToAccounts`, `AcceptanceIsNotOvertaken`,
  `ActivatesOnlyAsInvited` and `DeletedIsFinal`. The inductive invariant `IInv` adds
  `OneHolder` and `OneGrantHolder` (two requests never hold the lock of one engagement,
  or of one grant) and `RequestOK` (what each request relies on when it will write: an
  inviting request has read an engagement that exists, and if it read other than draft
  then it is no draft now; a registration's rows are of engagements that were no drafts;
  a row whose lock is held is there). It is needed because what a request writes depends
  on what it read, so the invariant has to say what is still true of it. The proof has a
  lemma for the steps that only read (`ReadStep`), one for what a write owes the other
  requests (`WriteStep`), one lemma per writing action, and the action properties
  follow from `EngagementMoves`.

* `EngagementSerialProofs`: with one request at a time (`OneAtATime`, an assumption on
  `Requests`), `Engagement` implements `EngagementLifecycle` (`OneAtATimeImplements`). Its
  invariant `SInv` is `IInv` and `StillTrue`: what the request has tested is still so when
  it writes, since only new engagements and the expiry of invites come between. Expiry is
  what the mapping `PendingAsRead` is for: a registration converts the invites it selected
  even if they expire before it commits, so they count as live until it ends, and the
  expiry of the ones it holds happens, for the abstract operations, when it fails. One
  lemma per committing step shows that it is the operation of the same name; steps that
  read or flush stutter. The promises then follow from those of the life cycle,
  through an instance of its proofs: `SerialClosedIsRevoked`, `SerialInvitesAwaitAccounts`,
  `SerialClosedIsFinal` and `SerialActiveIsNeverDeleted`. Two requests at once break the
  last three of these (see Findings), so the hypothesis is needed.

Apart from `OneAtATime`, the only assumption is that the model value `None` is no engagement
or auditor.

Only model-checked: the liveness property `EveryRequestEnds`.

What the two action properties leave open is a weakness of the code. A grant that an
invitation or a registration commits after a closing has updated the grants, and before
it commits, is overlooked: it is not revoked, and its auditor's acceptance, which has read
the engagement as invited, is overtaken by the closing and then writes `active` over
`closed`. `AcceptanceIsNotOvertaken` says that nothing else overtakes an acceptance: a
closing that has seen its grant waits for it, and so does a deletion.
`ActivatesOnlyAsInvited` says that nothing else is overwritten by one: never a draft, and
never a deleted row.

### Findings

The three `violation` runs are races that lose a guard between its test and its write;
`PROJECT.json` "findings" quotes the lines. Each needs two requests at once and would be
prevented by `SELECT ... FOR UPDATE` on the engagement, or a conditional UPDATE.

## 4. Depreciation runs and financial years

### Modules

* `DepreciationRuns` - the years (`fy`, open or closed), the runs (`run`, with the year
  they are of and the run whose closing lines they opened with) and the requests on them.
  An execution is six steps, one per statement that another request can slip between:
  the year and the finalized run of the year before (`ExecuteRead`), the gate when there
  is none (`ExecuteGate`) or its lines (`ExecuteLines`), the rows the DELETE of drafts
  selects (`ExecuteSupersede`), those of them it still finds to be drafts once it has
  their locks (`ExecuteLock`), and the new draft with the commit (`ExecuteInsert`).
  Finalizing, reopening and deleting a run are a step that selects and tests and a step
  that writes and commits; creating, closing and reopening a year write what they have
  just read and are one step. `RollBack` stands for every way to end without a write:
  data the calculation refuses (422), a row gone, the unique index, a lost connection.
* `MCDepreciationRuns` - instances. `DepreciationRunsProofs` - theorems.

The lines of a run are written with it and never again, so `opening`, the run they were
computed from, says all that the chain of opening balances needs. `capitalized` is the
set of years with an asset that was capitalized (`approve_asset`) and is not pre-cutover,
which the gate asks for. Left out: amounts, notes, `finalized_at`, activity rows. The model numbers the
years in the order of their dates: overlapping years, which the code does not refuse,
are not represented. One company is modelled; every query is restricted to it.

### Runs

| Run | Instance | Shows |
|---|---|---|
| `runs_concurrent` | 2 years, 3 runs, 2 requests | `OneFinalizedPerYear`, which the check in `finalize_depreciation_run` alone would not give, and `ExecutionSparesFinalized`: the DELETE tests the status again under the lock |
| `runs_serial` | 3 years, 4 runs, 1 request | `ClosedYearIsFrozen`, `FinalizedIsNeverDeleted`, `LinksAreUndoneNewestFirst` |
| `runs_chain` | same | a draft can be finalized after the run it opened with has been reopened |

Bounds. A link joins two years and a third lets a year be in the middle of the chain or be
entered late; the fourth run leaves room to re-execute one of three. Two requests and
three runs are enough for a finalized run, a draft that supersedes or competes with it,
and the request that overtakes. Runs cannot be re-created once all identifiers are used;
years can always be closed and reopened, so deadlock is checked.

The three serial properties do not survive concurrency: each guard is tested before the
write and not again. `ClosedYearIsFrozen` fails when a year is closed under an
execution, `FinalizedIsNeverDeleted` when a run is finalized under its deletion,
`LinksAreUndoneNewestFirst` when a year is reopened while the next one is finalized.

### What is proved

For every set of years (numbers), runs and requests:

* any number of requests: `TypeOK`, `OneFinalizedPerYear`, `ExecutionSparesFinalized`. The
  inductive invariant `IInv` adds that the rows an execution has deleted are drafts until
  it commits, and that no two executions have deleted the same row (`DisjointRows`):
  without the row locks a run could become finalized in between;
* one request (`Requests = {q}`): the three serial properties. The invariant `SInv` adds
  that what the request has tested is still so (`StillTrue`), and that openings come from
  earlier years (`OpeningsAreEarlier`): that is why `_blocking_later_label`, which looks
  at dates and not at openings, sees every finalized year that consumed a run.

So with one request at a time, a finalized year can only ever lose touch with the year
before at the moment it is finalized; `runs_chain` shows that it can then.

Assumed: the years are natural numbers, `None` is neither year nor run.

## 5. Approval of documents

### Modules

* `DocumentApproval` - one document (`doc`, the row), the compliance records that refer to
  it, the handlers at work on it and the page of one user. A handler selects the row and
  tests it (`Select`), and saves later the columns it has changed (`Save`), by primary key
  and without a lock: `Written` mixes the columns of handlers that overlap as
  SQLAlchemy's flush does. Its third section holds the functions of
  `documentPermissions.ts` and the controls that the drawer and the graph's inspector show
  by them, its fourth the tests of the handlers of `docvault.py`, its fifth what they make
  of the row.
* `MCDocumentApproval` - the instance. `DocumentApprovalProofs` - theorems.

Correspondence. A body of `update_document` is a record of the fields it may send, `Keep`
for one it leaves out: title (and tags, as one), bucket, lock and approver, in any
combination, so that a body may unlock the document and edit it at once, or reassign the
approver. `MayUpdate` and `MayMoveTo` are its tests with 403 and 409 (`No access to this
bucket` is the second), `ValidPatch` those with 400. A document may be uploaded locked,
pending, and into a bucket. `record[r]` is what `archive_meeting_record` has kept of the
document, and `unarchive_meeting_record`, which anybody with the module may call, puts its
status and lock back. `admins` changes with `update_user`, `access` with
`update_bucket_access`.

The page of `viewer` decides from three copies: the document, the list of buckets and the
user's own role. `known` is the set of those that are as the server has them. From a copy that
is not, the page may show anything; from the three that are, it offers what
`documentPermissions.ts` makes of them and the buckets it lists (`PageOffers`). A refusal
with 403 or 409 asks for the documents anew (`RefuseStale`), and for nothing else: the list
of buckets comes back with `ListBuckets`, the role only with `LoadPage`. With 400 or 404 it
asks for nothing (that refusal changes nothing and is no step).

`overwrote` is set once a handler has written over a change it had not seen: one made after
it selected the row or, where it puts back what a record had found, after the record
was archived. The second needs no overlap: a document that is restored by an admin, changed
and archived again is thrown back by the unarchiving of the record. `reviewed` is ghost
state, the version that was current when the review that verified the document was handled.
Files and the texts of titles are left out.

### Run

`docvault`: a creator and an admin, who may lose the role and then the access to the one
bucket, and get both back; two titles, two versions, one record, two handlers at once. Two
handlers are enough for every overlap, a second version for a review of the first that ends
after it. The bodies are those the pages send, the reassignment of the approver, and locking
or unlocking together with an edit. `Room` holds the bounds and ends the requests once one
has overwritten something: nothing is claimed after that. `Apart` is a bound of the run
alone: histories with a page, changes of role and buckets have one request at a time, those
with overlapping requests and records have none of the three; the proofs do without it.

Shown for histories in which no handler has overwritten what it had not seen:

* a verified document's current version is the one that was current when its review was
  handled, also after a record has archived it and put it back (`VerifiedVersionWasReviewed`);
* `approved_by` stands on verified documents only and on those archived as such
  (`ApprovalStampMatchesStatus`);
* an archived document returns by an admin's restore, or by the unarchiving of a record, to
  the status the record had found (`ArchivedOnlyRestored`);
* one marked final keeps title, bucket and version until an admin lifts the mark, perhaps
  together with an edit, or the unarchiving of a record that had set it does
  (`FinalIsFrozen`).

Shown always: a page that is told 403 or 409 had an outdated copy of the document, of the
buckets or of the role (`ShownControlIsNotRefused`), and gets the documents anew
(`RefusedPageRefetches`; whether that fetch succeeds is not asked, and it does not bring the
buckets or the role). Fairness: a handler that has selected its row finishes, and a list
that was asked for is answered.

What an overwriting does is not claimed, and the model shows it as soon as `overwrote` is
dropped from a property: a new version that is uploaded while the former is under review
ends verified, an archiving that overlaps a review or a request for approval is undone, and
a record's unarchiving verifies a version nobody has reviewed.

### What is proved

For every set of users, admins, creators, buckets, bodies and records, and every bound:
`PagesMirrorServer` (whatever the document and the role, the pages offer what the handlers
accept of the fields one by one: nothing that the row would refuse, and all but archiving
the archived, uploading to it and switching the lock to where it is), `TypeOK`, the two
safety invariants and the three action properties. The inductive invariant adds `HandlersOK`
(the tests of a handler hold of what it has selected) and `RecordsOK` (what an archived
record has found may be put back as long as the document has not changed since).

`DocumentSaveIsAtomic` says what the absence of overwriting is worth: a handler that has
overwritten nothing takes effect as a whole at its commit. The row it commits to permits the
operation to its user, with the role he had when it was selected, and becomes what the
operation makes of it, and the row changes at no other moment. So such histories are
sequences of the operations of `docvault.py`, each tested and applied at one instant,
although each is tested at one statement and applied at another. (Access to a bucket and
the role are outside of this: they may be withdrawn in between.)

Only model-checked: `RefusedPageRefetches`.

## 6. Sessions of the client

### Modules

`Session` models `auth/createIdentityAuth.tsx`, `auth/tokenStorage.ts` and `api/http.ts`:
`storage` (the token pair in `localStorage`, represented by its user), and for each tab
the provider's `status` and `profile`, the users whose answers are in its query `cache`,
and its calls. A call of the page, of `hydrate` or of `signIn` reads the tokens when it is
sent; refused with 401 it refreshes the pair that is stored by then, stores the answer and
is sent once more. Access tokens may expire at any time, so any first attempt may be
refused. Calls may be lost, users deactivated, tabs loaded anew.

The server counts the refreshes of an address in a window (`counted`) and answers 429 to
those beyond `RefreshLimit`, which signs the user out of all tabs (`Refresh`,
`RefreshLimited`): "a 429 here logs the user out" (`config.py`). Others behind the same
address are counted with them (`OthersRefresh`), and the window passes at any time
(`WindowEnds`). `trouble` is set by a sign-out, a deactivation, a lost answer or an error, a
refresh token that has expired, and by a call that refreshes when the limit is used up.
After that nothing is claimed of sessions that end and nothing is counted (a bound). The gateway
has a limit on all requests of an address, whose refusals are among the errors (`Lost`).
Where Redis cannot be reached the limiter lets everything pass, which is a limit that is not
used up.
 
The company's and the
auditor's identity are built by the same factory over storages of their own; one of them
is modelled.

The refresh tokens are stateless, and nothing keeps calls from refreshing at once or a
session from ending meanwhile. A tab is `disturbed` when another tab, or a call of a
session that has ended, has changed the tokens or the profile under it since it was
loaded or signed in or out. The properties about a tab are stated for tabs that were not
disturbed.

### Run

`session`: two tabs, of which one signs in and saves and the other is loaded and read, two
users, one of whom may be deactivated, two calls in flight. Two tabs are enough for one to
change the tokens under the other, and two calls for a refresh that overlaps another or a
sign-out. Checked:
`ProfileIsOfTokens`, `CacheIsOfSession`, `SpinnerIsAwaited`, the action property
`ExpiryEndsNoSession` and, under the fairness that every request is answered or times out,
`CallEnds`. `ExpiryEndsNoSession` says that the expiry of access tokens by itself ends no
session: while there is no `trouble`, the stored tokens stay and no tab goes back to its
login page. It does not say so of any number of refreshes: as many as the limit are
harmless, whatever their order, and one more may sign everybody of the browser out. The run
has a limit of one; as a window can pass while a refresh is under way, two still overlap
without trouble, and the second of one window meets the limit.

What a disturbed tab can meet: a refresh that is answered after a sign-out or another
sign-in stores the former user's tokens again; tabs are not told of a sign-in or sign-out
in another; an answer to `hydrate` that comes after a sign-in shows the former user's
profile, and its failure signs the new user out; a mutation of the former session still
puts its answer into the emptied cache. A lost answer to `hydrate` or to a refresh signs
the user out in all tabs although the tokens are valid, and a `signIn` whose profile cannot
be loaded leaves its tokens stored.

### What is proved

For any number of tabs, users and calls: `TypeOK`, the three safety invariants and
`ExpiryEndsNoSession`. The
inductive invariant `IInv` adds that the calls of an undisturbed tab carry the stored
tokens unless they are late (`CallsCarryStorage`), that the profile changes only by the
login of a sign-in under way (`ProfileUntilLogin`), that what is refreshed was there
(`TokensWereThere`), and that until there is trouble everybody is active, no call has met
the limit and a token that has been sent is still stored (`Untroubled`). The theorem about
`ExpiryEndsNoSession` holds for every limit. Only model-checked: `CallEnds`.

## 7. Cache and forms of the client

### Modules

* `Client` - one query of the cache (`data`, its mark `invalid`, its `fetch`), one form
  (`open`, `draft`) and at most two submissions of it at once. `version` counts the writes
  to what the query reads; data is represented by the version it was read from. The
  pair is a `scene`, a record of traits: which of the form's calls write what the query
  reads and which of their hooks invalidate it, whether the form is a dialog, is locked
  while it saves, is seeded again when data changes, closes on success, and so on.
* `ClientCatalog` - the vocabulary: `Query`, `Mutation`, `Form`, `Inline`, `Control`,
  `Picker`, `Confirm`, `Page`, after the hooks and the components of `components/ui`.
* `DocVaultClient`, `AuditClient`, `AuditorClient`, `AssetClient`, `OfficeClient` - the
  catalogs: what each endpoint reads and writes (by its handler), each query's key, each
  mutation's invalidations, each form's calls and traits, each page's queries and forms.
* `MCClient` - pairs every form with every query that its calls write, on the same page
  and across pages, leaves out what the catalogs list as overlooked, and keeps one scene
  of those with the same traits: 152 pairs become 49 scenes.
* `ClientProofs` - theorems.

Invalidation is TanStack Query's (version 5), modelled from its use: a query on the screen
is fetched again, which cancels a fetch under way unless it is the first; one that is not
is marked, and the mark is lost when a fetch under way is answered. A form whose hook returns
the promise of the invalidation waits for the refetch. When another write cancels that
refetch and starts it again, the promise follows the new one, and so does the form
(`Refetched`). A refetch that is replaced twice lets its waiters go; that needs a form of
which some calls wait and others do not, and `ReplacedOnceAssumption` checks that the
catalogs have none. `spoiled` is set when the fetch that was to show a write failed or was
served before the write, which excuses the list until a fetch has shown it; being replaced
does not.

Each catalog ends with two lists. *Overlooked* are pairs of a mutation and a query that it
writes and no hook invalidates: such a query is stale for up to 30 s, and no property
applies to it. An assumption of `MCClient` checks that each of them is really not
invalidated. *Weak* are the forms that break a property:

| Weakness | What happens | Property it is excepted from |
|---|---|---|
| overtaken | `setQueryData` puts answers into the cache in the order of their arrival | `OwnWriteIsShown` |
| doubled | sent twice at once (Enter past a disabled button, a second control, a lock read from another mutation, a flag that an earlier, dismissed submission takes off), or all calls again after the second failed | `EffectOnce` |
| reseeded | a refetch overwrites what is being typed | `TypedIsKept` |
| closed | the success of a dismissed dialog closes the one that was opened since | `TypedIsKept` |
| cleared | success empties a field in which typing went on | `TypedIsKept` |

The flag is that of `RecordModal`, `DocumentTypeModal` and `AvatarCropperModal`: one `saving`
for all their submissions, taken off when they are opened and by the `finally` of whichever
submission ends first. They count as not locked at all, and their forms are all listed as
doubled. Their file is sent in one call of the model with the bucket that is asked for
before it (`uploadComplianceFile`). Inputs are disabled while saving in the few forms that
have `freezes`; in every other one typing may go on.

A scene has a weakness only if all its pairs are listed, so a form that is listed does
not excuse another of the same traits.

### Run

`client`, over all scenes, with at most two writes to what the query reads. Two are enough
for a write to be overtaken by another or by a fetch. `OwnWriteIsShown`: data on the
screen that is not being fetched has every write its user was told of.
`ClosesOntoOwnWrite`: a form whose hooks return the promise of the invalidation closes
onto a list that has its write, also when its refetch is cancelled and replaced by that
of another write. `EffectOnce`, `TypedIsKept`, and `SubmissionEnds`: a
control is locked for no longer than its calls and refetches take. Fairness: every
request is answered or fails, and the code after it runs. Deadlock is not checked: at
the bound, a scene whose form only sends can come to rest.

The liveness property needs its fairness for the fetch as well as for the call, because a
form that waits for a refetch is released only by the end of that refetch, or of the one
that has replaced it.

### What is proved

For every set of scenes and every bound on the versions:

* `ClientTypeCorrect`. The bound holds because submissions reserve the versions they may
  still make: the invariant has `Fits`, with `Room` for the reserve of a slot.
* `ClientOwnWriteIsShown`: if every call of the scene that writes what the query reads is
  followed by its invalidation (`EveryWriteIsTold`), then `OwnWriteIsShown`. The invariant
  says that data behind a write the client was told of is marked and, on the screen, on
  its way, and that a fetch that was answered brings the write (`StaleIsMarked`).
* `ClientClosesOntoOwnWrite`: if every call of the scene writes, invalidates and awaits
  (`EveryWriteIsAwaited`), then `ClosesOntoOwnWrite`, by `CaughtUp`: a submission that has
  been acknowledged has been promised, and when it goes on the data has its write, since
  whatever fetch it has waited for at last was answered or failed after the promise.
* `ClientEffectOnce`: a form of one call that is locked while it saves, or sends each
  choice as it is made (`SentOnce`), takes effect once for what was typed once. The
  invariant says that at most one submission is of the draft in the form (`OneCurrent`).

* `ClientTypedIsKept`: if the traits of the form rule out each loss of typed text that is not
  listed as a weakness (`KeepsTyped`), then `TypedIsKept`. A form loses nothing to an
  earlier submission if its inputs are frozen while it saves and what it was dismissed from
  does not come back to it (`Undisturbed`); the invariant `TypedLate` says that a frozen
  form holds nothing typed since it sent, and that a form that is no dialog is not open
  to what it was dismissed from.
* `ClientScenesAreSound` puts these together: where every scene is `Covered`, that is, has the
  traits its properties rest on or lists the weakness that excepts it, `OwnWriteIsShown`,
  `EffectOnce`, `ClosesOntoOwnWrite` and `TypedIsKept` hold.

`MCClient` assumes that the 49 scenes of the catalogs are `Covered` (`CoveredAssumption`), and
TLC evaluates that in the run. The theorem therefore applies to every page, form and hook
that the catalogs list, for any number of writes, and a hook or form that is added to them
without the traits it needs fails that assumption before any state is explored. `ClosesOntoOwnWrite`
asks for forms all of whose hooks await the invalidation; in the catalogs these are 24 scenes
of one call each.

Only model-checked: `SubmissionEnds`.

## 8. Not modelled

On the server: the handlers of requirements and queries, audit entries, the chart of
accounts, compliance records (but for their archiving), users, assets, masters, KRA, sales, custom fields and
notifications. The catalogs say which rows they read and write, and nothing of the
tests they make; their known races are listed as hazards without a property. Onboarding
and the company purge, e-mail, the rate limiter, backups, the maintenance mode and key
rotation are self-contained and were left for last. The depreciation and costing engines
are decimal arithmetic with rounding, which TLC's integers do not represent.
Cryptography is taken for granted. Reports, templates and the parsing of spreadsheets have
no state.

In the client: the landing pages and the owner's console, which fetch into component state
without cache or session; the graph's canvas, tables and charts; generated types; the
arithmetic of amounts typed into an entry; the pages kept under `reference/` as a picture of
the former design, which nothing loads.
