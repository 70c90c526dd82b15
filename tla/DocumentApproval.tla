-------------------------- MODULE DocumentApproval --------------------------
(***************************************************************************)
(* The life of one DocVault document: its versions, its approval, its lock *)
(* and its archive (routers/docvault.py, routers/compliance.py), and the   *)
(* controls that the pages of its users show for it                        *)
(* (documentPermissions.ts, useDocumentActions.ts).                        *)
(* A page decides from the copies it has cached, the server decides again  *)
(* from the row.  A handler selects the row, waits (for the approver, for  *)
(* the file to be written) and writes only the columns it has changed, by  *)
(* primary key and without a lock: another handler may have changed the    *)
(* row in between.                                                         *)
(***************************************************************************)
EXTENDS Naturals, FiniteSets

CONSTANTS
    Users,         \* company users with the docvault module
    Admins,        \* those with role admin at first
    Creators,      \* users who may upload the document
    Outsiders,     \* users whose access to a bucket may be withdrawn
    Promotable,    \* users who may be given the role admin, or lose it
    Viewers,       \* users whose page may be followed; None if no page is
    Buckets,       \* the buckets; a document may be in none of them
    Titles,        \* title and tags of the document
    Patches,       \* the bodies that update_document is sent
    Records,       \* the compliance records that refer to the document
    None,          \* no user, no bucket, no snapshot
    Keep,          \* a field that a body leaves out
    MaxVersions,   \* bound on the versions of the document
    MaxRequests,   \* bound on the requests in flight
    Apart          \* a bound: pages, roles and buckets are explored with one request at a
                   \* time, overlapping requests and records without them, and none begins
                   \* while one in flight has been overtaken

ASSUME UsersAssumption ==
    /\ \A S \in {Admins, Creators, Outsiders, Promotable} : S \subseteq Users
    /\ Viewers \subseteq Users \cup {None}
    /\ None \notin Users \cup Buckets

\* A body of update_document: the fields that are sent, title and tags as one.
Bodies ==
    [title: Titles \cup {Keep}, bucket: Buckets \cup {None, Keep},
     editable: BOOLEAN \cup {Keep}, approver: Users \cup {None, Keep}]

ASSUME PatchesAssumption ==
    /\ Patches \subseteq Bodies
    /\ Keep \notin Users \cup Buckets \cup Titles \cup BOOLEAN \cup {None}

VARIABLES
    doc,        \* the documents row
    record,     \* for each archived compliance record what it archived, else None
    admins,     \* the users with role admin
    access,     \* for each bucket the users who may use it; the admins may always
    req,        \* the handler at work for each user, if any
    viewer,     \* the user whose page is followed, if any; others may ask for anything
    known,      \* what the viewer's page has cached as it stands
    fetch,      \* the refetch of the documents query of the viewer's page
    owed,       \* the viewer was refused for a stale view and has not refetched since
    overwrote,  \* a handler has written over a change made since it read what it writes
    reviewed    \* of a document verified, then perhaps archived: the version its review
                \* found current, else 0

page == <<viewer, known, fetch, owed>>
tables == <<doc, record, admins, access>>
ghosts == <<overwrote, reviewed>>
vars == <<tables, req, page, ghosts>>

Statuses == {"uploaded", "pending_approval", "verified", "action_required", "archived"}

\* Versions are numbered in the order they were saved.
DocRows ==
    [status: Statuses, editable: BOOLEAN, title: Titles, bucket: Buckets \cup {None},
     creator: Users, approver: Users \cup {None}, approved_by: Users \cup {None},
     current: Nat]

NoDoc == [status |-> "none"]

\* Of what a record archived, the code keeps status and editable; the version and the
\* stamp are kept here to say whether the document has changed since.
Snapshots ==
    [status: Statuses, editable: BOOLEAN, approved_by: Users \cup {None}, current: Nat]

Snapshot(d) ==
    [status |-> d.status, editable |-> d.editable, approved_by |-> d.approved_by,
     current |-> d.current]

\* The requests about the document.
RecordOps == {"archive_record", "unarchive_record"}

Asks ==
    [op: {"upload_version", "verify", "request_changes", "archive", "restore"}]
    \cup [op: {"update"}, patch: Patches]
    \cup [op: {"request_approval"}, approver: Users]
    \cup [op: RecordOps, record: Records]

\* What the handler of a request holds once its tests have succeeded: the row and the
\* snapshot that it has selected, and whether its user was an admin then.
Handlers ==
    [ask: Asks, admin: BOOLEAN, row: DocRows, snapshot: Snapshots \cup {None}]

Idle == [ask |-> "none"]

TypeOK ==
    /\ doc \in DocRows \cup {NoDoc}
    /\ record \in [Records -> Snapshots \cup {None}]
    /\ admins \in SUBSET Users
    /\ access \in [Buckets -> SUBSET Users]
    /\ req \in [Users -> Handlers \cup {Idle}]
    /\ viewer \in Users \cup {None}
    /\ known \in SUBSET {"document", "buckets", "role"}
    /\ fetch \in {"none", "asked"}
    /\ owed \in BOOLEAN
    /\ overwrote \in BOOLEAN
    /\ reviewed \in Nat

Init ==
    /\ doc = NoDoc
    /\ record = [r \in Records |-> None]
    /\ admins = Admins
    /\ access = [b \in Buckets |-> Users]
    /\ req = [u \in Users |-> Idle]
    /\ viewer \in Viewers
    /\ known = {}
    /\ fetch = "none"
    /\ owed = FALSE
    /\ overwrote = FALSE
    /\ reviewed = 0

\* A user as the handlers and the pages know one: by identity and role.
Actor(u) == [id |-> u, admin |-> u \in admins]
-----------------------------------------------------------------------------
(* documentPermissions: the controls a page shows to an actor c.           *)

IsPending(d) == d.status = "pending_approval"
IsArchived(d) == d.status = "archived"

MayEdit(c, d) == c.admin \/ c.id = d.creator \/ c.id = d.approver
PendingOk(c, d) == ~IsPending(d) \/ c.id = d.approver \/ c.admin

CanEditMeta(c, d) == MayEdit(c, d) /\ PendingOk(c, d) /\ d.editable

\* Mistake, for comparison: the lock offered for lifting to who may edit.
CanToggleEither(c, d) == MayEdit(c, d) /\ PendingOk(c, d)

CanToggleEditable(c, d) == MayEdit(c, d) /\ PendingOk(c, d) /\ (d.editable \/ c.admin)

CanRequestApproval(c, d) ==
    d.status \in {"uploaded", "action_required"} /\ (c.id = d.creator \/ c.admin)

CanReview(c, d) ==
    /\ IsPending(d)
    /\ c.id = d.approver \/ c.admin
    /\ ~(c.id = d.creator /\ ~c.admin)

CanArchive(c, d) == ~IsArchived(d) /\ (c.admin \/ c.id = d.creator) /\ PendingOk(c, d)

CanRestore(c, d) == IsArchived(d) /\ c.admin

CanUploadVersion(c, d) == (c.admin \/ c.id = d.creator) /\ d.editable /\ PendingOk(c, d)

\* The cards of the approval panel, shared by the drawer and the graph's inspector.
ApprovalPanel(c, d) ==
    {op \in {"verify", "request_changes"} : CanReview(c, d)} \cup
    {op \in {"request_approval"} : CanRequestApproval(c, d)}

Footer(c, d) ==
    {op \in {"restore"} : CanRestore(c, d)} \cup {op \in {"archive"} : CanArchive(c, d)}

\* Name, tags, bucket and the Editable switch.
EditFields(c, d) ==
    {op \in {"edit"} : CanEditMeta(c, d)} \cup
    {op \in {"lock"} : CanToggleEditable(c, d) /\ d.editable} \cup
    {op \in {"unlock"} : CanToggleEditable(c, d) /\ ~d.editable}

\* The drawer hides the upload of a pending document from who may not review it.
DrawerUpload(c, d) ==
    {op \in {"upload_version"} :
        /\ ~IsArchived(d)
        /\ IsPending(d) => CanReview(c, d)
        /\ CanUploadVersion(c, d)}

DocumentDrawer(c, d) ==
    ApprovalPanel(c, d) \cup EditFields(c, d) \cup DrawerUpload(c, d) \cup Footer(c, d)

EditTab(c, d) ==
    ApprovalPanel(c, d) \cup
    {op \in {"edit"} : CanEditMeta(c, d)} \cup
    {op \in {IF d.editable THEN "lock" ELSE "unlock"} : CanToggleEditable(c, d)}

VersionsTab(c, d) ==
    {op \in {"upload_version"} : ~IsArchived(d) /\ CanUploadVersion(c, d)}

InspectorFooter(c, d) ==
    {op \in {"archive", "restore"} :
        IF IsArchived(d) THEN op = "restore" /\ CanRestore(c, d)
        ELSE op = "archive" /\ CanArchive(c, d)}

\* The overview tab shows the approval panel.
GraphDocumentInspector(c, d) ==
    ApprovalPanel(c, d) \cup EditTab(c, d) \cup VersionsTab(c, d) \cup InspectorFooter(c, d)

Controls(c, d) == DocumentDrawer(c, d) \cup GraphDocumentInspector(c, d)
-----------------------------------------------------------------------------
(* What the handlers refuse with 403 or 409.                               *)

CanAccessBucket(c, b) == b \in Buckets => c.admin \/ c.id \in access[b]

MayUploadVersion(c, d) ==
    /\ c.admin \/ d.creator = c.id
    /\ d.editable
    /\ IsPending(d) => d.approver = c.id \/ c.admin

\* What a body makes of one column.
Given(field, column) == IF field = Keep THEN column ELSE field

\* Mistake, for comparison: the lock is the page's business.
MayUpdateLocked(c, d, patch) ==
    /\ c.admin \/ d.creator = c.id \/ d.approver = c.id
    /\ IsPending(d) => d.approver = c.id \/ c.admin

\* A body that unlocks the document may change it in the same call.
MayUpdate(c, d, patch) ==
    /\ c.admin \/ d.creator = c.id \/ d.approver = c.id
    /\ IsPending(d) => d.approver = c.id \/ c.admin
    /\ ~d.editable /\ patch.editable = TRUE => c.admin
    /\ patch.title # Keep \/ patch.bucket # Keep => Given(patch.editable, d.editable)

\* "No access to this bucket": the one a body moves the document to.
MayMoveTo(c, patch) == CanAccessBucket(c, patch.bucket)

\* Mistake, for comparison: any status but verified can be submitted again.
MayRequestApprovalAnyStatus(c, d) ==
    (d.creator = c.id \/ c.admin) /\ d.status \notin {"pending_approval", "verified"}

MayRequestApproval(c, d) ==
    /\ d.creator = c.id \/ c.admin
    /\ d.status \in {"uploaded", "action_required"}

MayReview(c, d) ==
    /\ IsPending(d)
    /\ d.approver = c.id \/ c.admin
    /\ d.creator = c.id => c.admin

MayArchive(c, d) ==
    /\ c.admin \/ d.creator = c.id
    /\ IsPending(d) => d.approver = c.id \/ c.admin

MayRestore(c, d) == c.admin /\ IsArchived(d)

\* What the row and the role decide; the rest of Permitted may change while the handler
\* is at work.
PermittedByRow(c, d, ask) ==
    \/ ask.op = "upload_version" /\ MayUploadVersion(c, d)
    \/ ask.op = "update" /\ MayUpdate(c, d, ask.patch)
    \/ ask.op = "request_approval" /\ MayRequestApproval(c, d)
    \/ ask.op \in {"verify", "request_changes"} /\ MayReview(c, d)
    \/ ask.op = "archive" /\ MayArchive(c, d)
    \/ ask.op = "restore" /\ MayRestore(c, d)
    \/ ask.op \in RecordOps

Permitted(c, d, ask) ==
    /\ PermittedByRow(c, d, ask)
    /\ ask.op = "update" => MayMoveTo(c, ask.patch)
    /\ ask.op = "archive_record" => record[ask.record] = None
    /\ ask.op = "unarchive_record" => record[ask.record] # None

\* Refused with 400 otherwise: the approver is the requester or has no access.
ValidApprover(c, approver, bucket) ==
    (approver = c.id => c.admin) /\ CanAccessBucket(Actor(approver), bucket)

\* Refused with 400 otherwise: approver_id in a body of update_document.
ValidPatch(c, d, patch) ==
    patch.approver \in Users =>
        /\ d.status \in {"verified", "archived"} \/ patch.approver = d.creator => c.admin
        /\ CanAccessBucket(Actor(patch.approver),
                           IF patch.bucket \in Buckets THEN patch.bucket ELSE d.bucket)

Valid(c, d, ask) ==
    /\ ask.op = "update" => ValidPatch(c, d, ask.patch)
    /\ ask.op = "request_approval" => ValidApprover(c, ask.approver, d.bucket)
-----------------------------------------------------------------------------
(* What the handlers make of the row.                                      *)

\* Mistake, for comparison: a new version of a verified document leaves it verified.
VersionUploadedOnly(d) == [d EXCEPT !.current = @ + 1]

VersionUploaded(d) ==
    LET next == [d EXCEPT !.current = @ + 1]
    IN  IF d.status = "verified"
        THEN [next EXCEPT !.status = "uploaded", !.approved_by = None] ELSE next

\* Mistake, for comparison: the fields a body leaves out are written too.
UpdatedWhole(d, patch) ==
    [d EXCEPT !.title = patch.title, !.bucket = patch.bucket,
              !.editable = patch.editable, !.approver = patch.approver]

Updated(d, patch) ==
    [d EXCEPT !.title = Given(patch.title, @), !.bucket = Given(patch.bucket, @),
              !.editable = Given(patch.editable, @), !.approver = Given(patch.approver, @)]

ApprovalRequested(d, approver) ==
    [d EXCEPT !.status = "pending_approval", !.approver = approver, !.approved_by = None]

Reviewed(c, d, op) ==
    IF op = "verify" THEN [d EXCEPT !.status = "verified", !.approved_by = c.id]
    ELSE [d EXCEPT !.status = "action_required", !.approved_by = None]

Archived(d) == [d EXCEPT !.status = "archived", !.editable = FALSE]

\* Mistake, for comparison: a restored document keeps who approved it.
RestoredWithStamp(d) ==
    [d EXCEPT !.status = "uploaded", !.editable = TRUE, !.approver = None]

Restored(d) ==
    [d EXCEPT !.status = "uploaded", !.editable = TRUE, !.approver = None,
              !.approved_by = None]

\* unarchive_meeting_record puts back what its record had found.
PutBack(d, snapshot) ==
    [d EXCEPT !.status = snapshot.status, !.editable = snapshot.editable]

After(c, d, ask, snapshot) ==
    CASE ask.op = "upload_version" -> VersionUploaded(d)
      [] ask.op = "update" -> Updated(d, ask.patch)
      [] ask.op = "request_approval" -> ApprovalRequested(d, ask.approver)
      [] ask.op \in {"verify", "request_changes"} -> Reviewed(c, d, ask.op)
      [] ask.op \in {"archive", "archive_record"} -> Archived(d)
      [] ask.op = "restore" -> Restored(d)
      [] ask.op = "unarchive_record" -> PutBack(d, snapshot)

\* The user of a handler, as its tests saw him.
By(u) == [id |-> u, admin |-> req[u].admin]

Meant(u) == After(By(u), req[u].row, req[u].ask, req[u].snapshot)

\* The unit of work writes the columns that differ from what was loaded.
Put(u, column) ==
    IF Meant(u)[column] = req[u].row[column] THEN doc[column] ELSE Meant(u)[column]

\* The new version's row is inserted, whatever number others have taken.
PutCurrent(u) == IF req[u].ask.op = "upload_version" THEN doc.current + 1 ELSE doc.current

Written(u) ==
    [status |-> Put(u, "status"), editable |-> Put(u, "editable"),
     title |-> Put(u, "title"), bucket |-> Put(u, "bucket"), creator |-> doc.creator,
     approver |-> Put(u, "approver"), approved_by |-> Put(u, "approved_by"),
     current |-> PutCurrent(u)]

\* The record's row after an archive or an unarchive of it.
RecordWritten(u) ==
    CASE req[u].ask.op = "archive_record" ->
            [record EXCEPT ![req[u].ask.record] = Snapshot(req[u].row)]
      [] req[u].ask.op = "unarchive_record" -> [record EXCEPT ![req[u].ask.record] = None]
      [] OTHER -> record

\* The document is still what the archiving of a record made of it, in all that the
\* unarchiving writes over or makes valid again.
AsArchived(snapshot) ==
    Snapshot(doc) = [snapshot EXCEPT !.status = "archived", !.editable = FALSE]

\* The handler of u writes over changes that were made since it read what it writes:
\* since it selected the row or, if it puts back a snapshot, since that was taken.
Overwrites(u) ==
    \/ doc # req[u].row
    \/ req[u].ask.op \in RecordOps /\ record[req[u].ask.record] # req[u].snapshot
    \/ req[u].ask.op = "unarchive_record" /\ ~AsArchived(req[u].snapshot)
-----------------------------------------------------------------------------
(* Steps.                                                                  *)

\* Bounds of the model: requests in flight, versions, one overwriting, and Apart.
Room(ask) ==
    /\ ~overwrote
    /\ Cardinality({u \in Users : req[u] # Idle}) < MaxRequests
    /\ ask.op = "upload_version" =>
        doc.current + Cardinality({u \in Users : req[u] # Idle /\ req[u].ask = ask})
            < MaxVersions
    /\ Apart /\ viewer # None => ask.op \notin RecordOps /\ \A u \in Users : req[u] = Idle
    /\ Apart /\ viewer = None =>
        /\ \A u \in Users : req[u] # Idle => req[u].row = doc
        /\ ask.op = "update" => ask.patch.bucket = Keep

\* upload_document: with needs_approval it is pending from the start.
UploadDocument(u, title, bucket, editable, approver) ==
    /\ doc = NoDoc
    /\ Apart /\ viewer = None => bucket = None
    /\ Apart /\ viewer # None => \E patch \in Patches : patch.title = title
    /\ CanAccessBucket(Actor(u), bucket)
    /\ approver # None => ValidApprover(Actor(u), approver, bucket)
    /\ doc' = [status |-> IF approver = None THEN "uploaded" ELSE "pending_approval",
               editable |-> editable, title |-> title, bucket |-> bucket,
               creator |-> u, approver |-> approver, approved_by |-> None, current |-> 1]
    /\ UNCHANGED <<record, admins, access, req, page, ghosts>>

\* An admin withdraws a user's access to a bucket, or gives it back.
UpdateBucketAccess(u, b) ==
    /\ doc # NoDoc
    /\ Apart => viewer # None
    /\ access' = [access EXCEPT ![b] = IF u \in @ THEN @ \ {u} ELSE @ \cup {u}]
    /\ known' = IF u = viewer THEN known \ {"document", "buckets"} ELSE known
    /\ UNCHANGED <<doc, record, admins, req, viewer, fetch, owed, ghosts>>

\* update_user: a user becomes an admin, or an admin one no more.
ChangeRole(u) ==
    /\ doc # NoDoc
    /\ Apart => viewer # None
    /\ admins' = IF u \in admins THEN admins \ {u} ELSE admins \cup {u}
    /\ known' = IF u = viewer THEN {} ELSE known
    /\ UNCHANGED <<doc, record, access, req, viewer, fetch, owed, ghosts>>

\* The control of a page that sends a request: the fields are saved one by one, and no
\* page sends approver_id.
Control(ask) ==
    LET sent == {f \in {"title", "bucket", "editable", "approver"} : ask.patch[f] # Keep}
    IN  CASE ask.op # "update" -> ask.op
          [] ask.op = "update" /\ sent \in {{"title"}, {"bucket"}} -> "edit"
          [] ask.op = "update" /\ sent = {"editable"} ->
                IF ask.patch.editable THEN "unlock" ELSE "lock"
          [] OTHER -> "none"

\* The viewer's page shows what documentPermissions makes of its copy of the document
\* and of the viewer's role, and lists the buckets of its copy of that list.  Where a
\* copy is out of date it may show anything.  A request that reaches the server late is
\* one that was sent from copies that are out of date when it arrives.
PageOffers(ask) ==
    /\ "document" \in known => CanAccessBucket(Actor(viewer), doc.bucket)
    /\ {"document", "role"} \subseteq known => Control(ask) \in Controls(Actor(viewer), doc)
    /\ ask.op = "update" /\ "buckets" \in known =>
        CanAccessBucket(Actor(viewer), ask.patch.bucket)

\* A user clicks a control.  The pages of the other users may show any, and those of
\* the compliance records are not followed either.
Click(u, ask) ==
    /\ doc # NoDoc
    /\ req[u] = Idle
    /\ Room(ask)
    /\ u = viewer /\ ask.op \notin RecordOps => PageOffers(ask)

\* The handler selects the row and its tests succeed.  What it refuses with 404 or 400
\* changes nothing, on the server or on the page.
Select(u, ask) ==
    /\ Click(u, ask)
    /\ ask.op \notin RecordOps => CanAccessBucket(Actor(u), doc.bucket)
    /\ Permitted(Actor(u), doc, ask)
    /\ Valid(Actor(u), doc, ask)
    /\ req' = [req EXCEPT ![u] =
                [ask |-> ask, admin |-> u \in admins, row |-> doc,
                 snapshot |-> IF ask.op \in RecordOps THEN record[ask.record] ELSE None]]
    /\ UNCHANGED <<tables, page, ghosts>>

\* What the page is told 403 or 409 for.
Refused(ask) ==
    /\ viewer # None
    /\ ask.op \notin RecordOps
    /\ Click(viewer, ask)
    /\ CanAccessBucket(Actor(viewer), doc.bucket)
    /\ ~Permitted(Actor(viewer), doc, ask)

\* Mistake, for comparison: a refusal is shown to the user and nothing more.
RefuseStaleSilently(ask) ==
    /\ Refused(ask)
    /\ owed' = TRUE
    /\ UNCHANGED <<tables, req, viewer, known, fetch, ghosts>>

\* wrap tells the documents query (useDocumentActions.ts), and no other.
RefuseStale(ask) ==
    /\ Refused(ask)
    /\ fetch' = "asked"
    /\ owed' = TRUE
    /\ UNCHANGED <<tables, req, viewer, known, ghosts>>

\* The commit.  The onSuccess of a mutation of the document invalidates the documents,
\* which cancels a refetch under way and asks again; that of a record does not.
Save(u) ==
    /\ req[u] # Idle
    /\ doc' = Written(u)
    /\ record' = RecordWritten(u)
    /\ overwrote' = (overwrote \/ Overwrites(u))
    /\ reviewed' = IF req[u].ask.op = "verify" THEN req[u].row.current
                   ELSE IF doc'.status \in {"verified", "archived"} THEN reviewed ELSE 0
    /\ req' = [req EXCEPT ![u] = Idle]
    /\ known' = known \ {"document"}
    /\ fetch' = IF u = viewer /\ req[u].ask.op \notin RecordOps THEN "asked" ELSE fetch
    /\ UNCHANGED <<admins, access, viewer, owed>>

\* The page is opened, or mounts the documents query again.
Mount ==
    /\ doc # NoDoc /\ viewer # None
    /\ fetch = "none" /\ "document" \notin known
    /\ fetch' = "asked"
    /\ UNCHANGED <<tables, req, viewer, known, owed, ghosts>>

\* list_documents and its answer.  The copy is the row as it stands, unless the row has
\* been written since it was read.
ListDocuments ==
    /\ fetch = "asked"
    /\ fetch' = "none"
    /\ known' \in {known \cup {"document"}, known \ {"document"}}
    /\ owed' = FALSE
    /\ UNCHANGED <<tables, req, viewer, ghosts>>

\* list_buckets and its answer.
ListBuckets ==
    /\ doc # NoDoc /\ viewer # None
    /\ "buckets" \notin known
    /\ known' = known \cup {"buckets"}
    /\ UNCHANGED <<tables, req, viewer, fetch, owed, ghosts>>

\* The browser loads the page anew: only then is the profile, and with it the role,
\* asked for again.
LoadPage ==
    /\ doc # NoDoc /\ viewer # None
    /\ "role" \notin known
    /\ known' = {"role"}
    /\ fetch' = "asked"
    /\ owed' = FALSE
    /\ UNCHANGED <<tables, req, viewer, ghosts>>

\* Nothing is claimed once a handler has overwritten what it had not seen, and nothing
\* begins then.
Stopped ==
    /\ overwrote /\ \A u \in Users : req[u] = Idle
    /\ UNCHANGED vars

Next ==
    \/ \E u \in Creators, title \in Titles, bucket \in Buckets \cup {None},
          editable \in BOOLEAN, approver \in Users \cup {None} :
            UploadDocument(u, title, bucket, editable, approver)
    \/ \E u \in Outsiders, b \in Buckets : UpdateBucketAccess(u, b)
    \/ \E u \in Promotable : ChangeRole(u)
    \/ \E ask \in Asks : RefuseStale(ask) \/ \E u \in Users : Select(u, ask)
    \/ \E u \in Users : Save(u)
    \/ Mount \/ ListDocuments \/ ListBuckets \/ LoadPage \/ Stopped

\* Handlers finish and fetches are answered.
Fairness ==
    /\ \A u \in Users : WF_vars(Save(u))
    /\ WF_vars(ListDocuments)

Spec == Init /\ [][Next]_vars /\ Fairness
-----------------------------------------------------------------------------
(* Properties.                                                             *)

\* Unless a handler has overwritten what it had not seen, the current version of a
\* verified document was the current one when its reviewer's request was handled: an
\* upload takes the verification back (upload_document_version), and unarchiving a
\* record puts it back for the version that it was archived with.
VerifiedVersionWasReviewed ==
    ~overwrote /\ doc # NoDoc => (doc.status = "verified" => doc.current = reviewed)

\* The name and the date of an approval stand on a document exactly while it is
\* verified, and on one that was archived in that state; no path from one approval
\* round to the next leaves them behind.
ApprovalStampMatchesStatus ==
    ~overwrote /\ doc # NoDoc =>
        /\ doc.status = "verified" => doc.approved_by # None
        /\ doc.approved_by # None => doc.status \in {"verified", "archived"}

\* A user is told 403 or 409 only by a page whose copy of the document, of the buckets
\* or of the user's role is out of date: the controls that documentPermissions.ts
\* derives from the three are none that the handlers refuse.
ShownControlIsNotRefused ==
    [][known = {"document", "buckets", "role"} => ~\E ask \in Asks : RefuseStale(ask)]_vars

\* In this step the handler of u writes what one of these operations makes of the row.
Saves(u, ops) == req[u] # Idle /\ req[u].ask.op \in ops /\ req'[u] = Idle

\* An archived document leaves the archive by an admin's restore or, to the status it
\* had, by the unarchiving of the record it was archived with (anybody's, if he has the
\* module); and no approval, upload or edit that was under way does it, unless it
\* overwrote the archiving unseen.
ArchivedOnlyRestored ==
    [][doc # NoDoc /\ ~overwrote' /\ doc.status = "archived" /\ doc'.status # "archived" =>
        \E u \in Users :
            \/ Saves(u, {"restore"}) /\ req[u].admin
            \/ /\ Saves(u, {"unarchive_record"})
               /\ doc'.status = record[req[u].ask.record].status
               /\ (doc'.approved_by # None) <=> (doc'.status = "verified")]_vars

SameContent == doc'.title = doc.title /\ doc'.bucket = doc.bucket /\ doc'.current = doc.current

\* A document marked final keeps its title, tags, bucket and version until the mark is
\* lifted, by an admin (who may change them in the same call) or by the unarchiving of
\* a record that had set the mark; no upload or edit that passed its tests before the
\* mark was set takes effect after, unless it overwrote the mark unseen.
FinalIsFrozen ==
    [][doc # NoDoc /\ ~overwrote' /\ ~doc.editable =>
        \/ SameContent /\ ~doc'.editable
        \/ /\ doc'.editable
           /\ \E u \in Users :
                \/ Saves(u, {"update", "restore"}) /\ req[u].admin
                \/ /\ Saves(u, {"unarchive_record"}) /\ SameContent
                   /\ record[req[u].ask.record].editable]_vars

\* A page refused with 403 or 409 gets the documents anew: it is not left with a
\* control that its copy of the document alone is to blame for (useDocumentActions.ts,
\* wrap; the list of buckets and the role are not asked for again).
RefusedPageRefetches == owed ~> ~owed
=============================================================================
