----------------------- MODULE DocumentApprovalProofs -----------------------
(***************************************************************************)
(* DocumentApproval for every set of users, buckets, bodies and records    *)
(* and every bound.  A handler that overwrites nothing it had not seen     *)
(* turns the row into what it meant to (WrittenIsMeant); the approval      *)
(* rules then follow operation by operation.                               *)
(***************************************************************************)
EXTENDS DocumentApproval, TLAPS

\* What the tests of a handler have found holds of what the handler keeps.
HandlersOK ==
    \A u \in Users : req[u] # Idle =>
        /\ doc # NoDoc
        /\ PermittedByRow(By(u), req[u].row, req[u].ask)
        /\ req[u].ask.op = "unarchive_record" => req[u].snapshot # None

\* What an archived record has found may be put back as long as the document has not
\* changed since.
Faithful(s) ==
    /\ s.current <= doc.current
    /\ s.status = "verified" => s.approved_by # None
    /\ s.approved_by # None => s.status \in {"verified", "archived"}
    /\ (/\ s.status = "verified" /\ s.current = doc.current
        /\ doc.status = "archived" /\ doc.approved_by # None) => reviewed = doc.current

RecordsOK ==
    ~overwrote =>
        \A r \in Records : record[r] # None => doc # NoDoc /\ Faithful(record[r])

IInv ==
    /\ TypeOK
    /\ HandlersOK
    /\ RecordsOK
    /\ VerifiedVersionWasReviewed
    /\ ApprovalStampMatchesStatus

Actors == [id: Users, admin: BOOLEAN]
-----------------------------------------------------------------------------
(* The row and its handlers.                                               *)

LEMMA NoDocIsNoRow == NoDoc \notin DocRows
  BY DEF NoDoc, DocRows

LEMMA IdleIsNoHandler == Idle \notin Handlers
  BY DEF Idle, Handlers

\* What a request carries.
LEMMA AskIs ==
    ASSUME NEW ask \in Asks
    PROVE  /\ ask.op \in {"upload_version", "verify", "request_changes", "archive", "restore",
                          "update", "request_approval", "archive_record", "unarchive_record"}
           /\ ask.op = "update" => ask.patch \in Bodies
           /\ ask.op = "request_approval" => ask.approver \in Users
           /\ ask.op \in RecordOps => ask.record \in Records
  BY PatchesAssumption DEF Asks, RecordOps

LEMMA VersionUploadedIs ==
    ASSUME NEW d \in DocRows
    PROVE  /\ VersionUploaded(d) \in DocRows
           /\ VersionUploaded(d).current = d.current + 1
           /\ VersionUploaded(d).creator = d.creator
           /\ VersionUploaded(d).status =
                IF d.status = "verified" THEN "uploaded" ELSE d.status
           /\ VersionUploaded(d).approved_by =
                IF d.status = "verified" THEN None ELSE d.approved_by
<1> DEFINE next == [d EXCEPT !.current = @ + 1]
<1>0. next \in DocRows /\ next.current = d.current + 1 /\ next.creator = d.creator
      /\ next.status = d.status /\ next.approved_by = d.approved_by
  BY DEF DocRows
<1>1. CASE d.status = "verified"
  <2>1. VersionUploaded(d) = [next EXCEPT !.status = "uploaded", !.approved_by = None]
    BY <1>1 DEF VersionUploaded
  <2> HIDE DEF next
  <2> QED
    BY <1>0, <1>1, <2>1 DEF DocRows, Statuses
<1>2. CASE d.status # "verified"
  BY <1>0, <1>2 DEF VersionUploaded
<1> QED
  BY <1>1, <1>2

LEMMA UpdatedIs ==
    ASSUME NEW d \in DocRows, NEW patch \in Bodies
    PROVE  /\ Updated(d, patch) \in DocRows
           /\ Updated(d, patch).status = d.status
           /\ Updated(d, patch).approved_by = d.approved_by
           /\ Updated(d, patch).current = d.current
           /\ Updated(d, patch).creator = d.creator
           /\ Updated(d, patch).title = Given(patch.title, d.title)
           /\ Updated(d, patch).bucket = Given(patch.bucket, d.bucket)
           /\ Updated(d, patch).editable = Given(patch.editable, d.editable)
<1> DEFINE title == Given(patch.title, d.title)
           bucket == Given(patch.bucket, d.bucket)
           editable == Given(patch.editable, d.editable)
           approver == Given(patch.approver, d.approver)
<1>1. /\ title \in Titles /\ bucket \in Buckets \cup {None}
      /\ editable \in BOOLEAN /\ approver \in Users \cup {None}
  BY DEF Given, Bodies, DocRows
<1>2. Updated(d, patch) = [d EXCEPT !.title = title, !.bucket = bucket,
                                    !.editable = editable, !.approver = approver]
  BY DEF Updated, DocRows
<1> HIDE DEF title, bucket, editable, approver
<1>3. /\ Updated(d, patch) \in DocRows
      /\ Updated(d, patch).status = d.status
      /\ Updated(d, patch).approved_by = d.approved_by
      /\ Updated(d, patch).current = d.current
      /\ Updated(d, patch).creator = d.creator
      /\ Updated(d, patch).title = title
      /\ Updated(d, patch).bucket = bucket
      /\ Updated(d, patch).editable = editable
  BY <1>1, <1>2 DEF DocRows
<1> QED
  BY <1>3 DEF title, bucket, editable

LEMMA ReviewedIs ==
    ASSUME NEW c \in Actors, NEW d \in DocRows, NEW op
    PROVE  /\ Reviewed(c, d, op) \in DocRows
           /\ Reviewed(c, d, op).current = d.current
           /\ Reviewed(c, d, op).creator = d.creator
           /\ Reviewed(c, d, op).title = d.title
           /\ Reviewed(c, d, op).bucket = d.bucket
           /\ Reviewed(c, d, op).editable = d.editable
<1> USE DEF Reviewed, DocRows, Statuses, Actors
<1>1. CASE op = "verify"
  BY <1>1
<1>2. CASE op # "verify"
  BY <1>2
<1> QED
  BY <1>1, <1>2

LEMMA PutBackIs ==
    ASSUME NEW d \in DocRows, NEW s \in Snapshots
    PROVE  /\ PutBack(d, s) \in DocRows
           /\ PutBack(d, s).status = s.status
           /\ PutBack(d, s).editable = s.editable
           /\ PutBack(d, s).approved_by = d.approved_by
           /\ PutBack(d, s).current = d.current
           /\ PutBack(d, s).creator = d.creator
           /\ PutBack(d, s).title = d.title
           /\ PutBack(d, s).bucket = d.bucket
  BY DEF PutBack, DocRows, Snapshots

\* After, operation by operation.
LEMMA AfterIs ==
    ASSUME NEW c, NEW d, NEW ask \in Asks, NEW s
    PROVE  /\ ask.op = "upload_version" => After(c, d, ask, s) = VersionUploaded(d)
           /\ ask.op = "update" => After(c, d, ask, s) = Updated(d, ask.patch)
           /\ ask.op = "request_approval" =>
                After(c, d, ask, s) = ApprovalRequested(d, ask.approver)
           /\ ask.op \in {"verify", "request_changes"} =>
                After(c, d, ask, s) = Reviewed(c, d, ask.op)
           /\ ask.op \in {"archive", "archive_record"} => After(c, d, ask, s) = Archived(d)
           /\ ask.op = "restore" => After(c, d, ask, s) = Restored(d)
           /\ ask.op = "unarchive_record" => After(c, d, ask, s) = PutBack(d, s)
<1>1. PICK op : op = ask.op
  OBVIOUS
<1>2. After(c, d, ask, s) =
        CASE op = "upload_version" -> VersionUploaded(d)
          [] op = "update" -> Updated(d, ask.patch)
          [] op = "request_approval" -> ApprovalRequested(d, ask.approver)
          [] op \in {"verify", "request_changes"} -> Reviewed(c, d, op)
          [] op \in {"archive", "archive_record"} -> Archived(d)
          [] op = "restore" -> Restored(d)
          [] op = "unarchive_record" -> PutBack(d, s)
  BY <1>1 DEF After
<1> QED
  BY <1>1, <1>2

\* Every operation makes a row of a row, of the same creator, and only an upload
\* makes another version the current one.
LEMMA AfterType ==
    ASSUME NEW c \in Actors, NEW d \in DocRows, NEW ask \in Asks, NEW s,
           ask.op = "unarchive_record" => s \in Snapshots
    PROVE  /\ After(c, d, ask, s) \in DocRows
           /\ After(c, d, ask, s).creator = d.creator
           /\ After(c, d, ask, s).current =
                IF ask.op = "upload_version" THEN d.current + 1 ELSE d.current
<1> DEFINE new == After(c, d, ask, s)
<1>0. /\ ask.op = "upload_version" => new = VersionUploaded(d)
      /\ ask.op = "update" => new = Updated(d, ask.patch) /\ ask.patch \in Bodies
      /\ ask.op = "request_approval" =>
            new = ApprovalRequested(d, ask.approver) /\ ask.approver \in Users
      /\ ask.op \in {"verify", "request_changes"} => new = Reviewed(c, d, ask.op)
      /\ ask.op \in {"archive", "archive_record"} => new = Archived(d)
      /\ ask.op = "restore" => new = Restored(d)
      /\ ask.op = "unarchive_record" => new = PutBack(d, s)
  BY AfterIs, AskIs
<1> SUFFICES /\ new \in DocRows
             /\ new.creator = d.creator
             /\ new.current = IF ask.op = "upload_version" THEN d.current + 1 ELSE d.current
  OBVIOUS
<1> HIDE DEF new
<1>1. CASE ask.op = "upload_version"
  BY <1>0, <1>1, VersionUploadedIs
<1>2. CASE ask.op = "update"
  BY <1>0, <1>2, UpdatedIs
<1>3. CASE ask.op = "request_approval"
  BY <1>0, <1>3 DEF ApprovalRequested, DocRows, Statuses
<1>4. CASE ask.op \in {"verify", "request_changes"}
  BY <1>0, <1>4, ReviewedIs
<1>5. CASE ask.op \in {"archive", "archive_record"}
  BY <1>0, <1>5 DEF Archived, DocRows, Statuses
<1>6. CASE ask.op = "restore"
  BY <1>0, <1>6 DEF Restored, DocRows, Statuses
<1>7. CASE ask.op = "unarchive_record"
  BY <1>0, <1>7, PutBackIs
<1> QED
  BY <1>1, <1>2, <1>3, <1>4, <1>5, <1>6, <1>7, AskIs

\* A handler and what it means to write.
LEMMA HandlerType ==
    ASSUME IInv, NEW u \in Users, req[u] # Idle
    PROVE  /\ doc \in DocRows /\ req[u].row \in DocRows /\ req[u].ask \in Asks
           /\ By(u) \in Actors
           /\ req[u].ask.op = "unarchive_record" => req[u].snapshot \in Snapshots
           /\ Meant(u) \in DocRows
           /\ Meant(u).creator = req[u].row.creator
           /\ Meant(u).current = IF req[u].ask.op = "upload_version"
                                 THEN req[u].row.current + 1 ELSE req[u].row.current
<1>1. doc \in DocRows /\ req[u] \in Handlers
  BY DEF IInv, TypeOK, HandlersOK
<1>2. /\ req[u].row \in DocRows /\ req[u].ask \in Asks /\ By(u) \in Actors
      /\ req[u].snapshot \in Snapshots \cup {None}
  BY <1>1 DEF Handlers, By, Actors
<1>3. req[u].ask.op = "unarchive_record" => req[u].snapshot \in Snapshots
  BY <1>2 DEF IInv, HandlersOK
<1> QED
  BY <1>1, <1>2, <1>3, AfterType DEF Meant

\* What a handler writes over the row it has selected is what it made of that row.
LEMMA WrittenIsMeant ==
    ASSUME IInv, NEW u \in Users, req[u] # Idle, doc = req[u].row
    PROVE  Written(u) = Meant(u)
<1> DEFINE new == Meant(u)
<1>1. new \in DocRows /\ new.creator = doc.creator /\ PutCurrent(u) = new.current
  BY HandlerType DEF PutCurrent
<1>2. \A column : Put(u, column) = new[column]
  BY DEF Put
<1> HIDE DEF new
<1>3. new = [status |-> new.status, editable |-> new.editable, title |-> new.title,
             bucket |-> new.bucket, creator |-> new.creator, approver |-> new.approver,
             approved_by |-> new.approved_by, current |-> new.current]
  BY <1>1 DEF DocRows
<1>4. Written(u) = new
  BY <1>1, <1>2, <1>3 DEF Written
<1> QED
  BY <1>4 DEF new
-----------------------------------------------------------------------------
(* What the pages show.                                                    *)

\* The bodies behind the controls of a page.
LEMMA ControlIs ==
    ASSUME NEW ask \in Asks
    PROVE  /\ ask.op # "update" => Control(ask) = ask.op
           /\ ask.op = "update" => Control(ask) \in {"edit", "lock", "unlock", "none"}
           /\ ask.op = "update" /\ Control(ask) = "edit" =>
                /\ ask.patch.editable = Keep
                /\ ask.patch.title # Keep \/ ask.patch.bucket # Keep
           /\ ask.op = "update" /\ Control(ask) \in {"lock", "unlock"} =>
                /\ ask.patch.editable = (Control(ask) = "unlock")
                /\ ask.patch.title = Keep /\ ask.patch.bucket = Keep
<1> DEFINE sent == {f \in {"title", "bucket", "editable", "approver"} : ask.patch[f] # Keep}
<1>1. CASE ask.op # "update"
  BY <1>1 DEF Control
<1>2. CASE ask.op = "update"
  <2>1. ask.patch \in Bodies
    BY <1>2, AskIs
  <2>2. ask.patch.editable \in BOOLEAN \cup {Keep}
    BY <2>1 DEF Bodies
  <2>3. /\ "title" \in sent <=> ask.patch.title # Keep
        /\ "bucket" \in sent <=> ask.patch.bucket # Keep
        /\ "editable" \in sent <=> ask.patch.editable # Keep
    OBVIOUS
  <2>4. Control(ask) =
            IF sent \in {{"title"}, {"bucket"}} THEN "edit"
            ELSE IF sent = {"editable"}
                 THEN IF ask.patch.editable THEN "unlock" ELSE "lock" ELSE "none"
    <3>1. CASE sent \in {{"title"}, {"bucket"}}
      <4>1. sent # {"editable"}
        BY <3>1
      <4> QED
        BY <1>2, <3>1, <4>1 DEF Control
    <3>2. CASE sent = {"editable"}
      <4>1. sent \notin {{"title"}, {"bucket"}}
        BY <3>2
      <4> QED
        BY <1>2, <3>2, <4>1 DEF Control
    <3>3. CASE sent \notin {{"title"}, {"bucket"}} /\ sent # {"editable"}
      BY <1>2, <3>3 DEF Control
    <3> QED
      BY <3>1, <3>2, <3>3
  <2> HIDE DEF sent
  <2>5. CASE sent \in {{"title"}, {"bucket"}}
    BY <1>2, <2>3, <2>4, <2>5
  <2>6. CASE sent = {"editable"}
    <3>1. sent \notin {{"title"}, {"bucket"}}
      BY <2>6
    <3>2. ask.patch.editable \in BOOLEAN /\ ask.patch.title = Keep /\ ask.patch.bucket = Keep
      BY <2>2, <2>3, <2>6
    <3>3. CASE ask.patch.editable
      BY <1>2, <2>4, <2>6, <3>1, <3>2, <3>3
    <3>4. CASE ~ask.patch.editable
      BY <1>2, <2>4, <2>6, <3>1, <3>2, <3>4
    <3> QED
      BY <3>3, <3>4
  <2>7. CASE sent \notin {{"title"}, {"bucket"}} /\ sent # {"editable"}
    BY <1>2, <2>4, <2>7
  <2> QED
    BY <2>5, <2>6, <2>7
<1> QED
  BY <1>1, <1>2

\* Whatever the document, the user and his role, a page offers no request that the
\* handlers refuse for the row or the role, and it hides none that they accept, but for
\* archiving what is archived, uploading to what is archived, switching the lock to the
\* position it is in, and the bodies that no page sends ("neither show a control that
\* 403s nor hide one that works", documentPermissions.ts).
THEOREM PagesMirrorServer ==
    \A c \in Actors, d \in DocRows, ask \in Asks :
        ask.op \notin RecordOps =>
            /\ Control(ask) \in Controls(c, d) => PermittedByRow(c, d, ask)
            /\ /\ PermittedByRow(c, d, ask)
               /\ ask.op \in {"archive", "upload_version"} => ~IsArchived(d)
               /\ Control(ask) = "lock" => d.editable
               /\ Control(ask) = "unlock" => ~d.editable
               /\ Control(ask) # "none"
               => Control(ask) \in Controls(c, d)
<1> SUFFICES ASSUME NEW c \in Actors, NEW d \in DocRows, NEW ask \in Asks,
                    ask.op \notin RecordOps
             PROVE  /\ Control(ask) \in Controls(c, d) => PermittedByRow(c, d, ask)
                    /\ /\ PermittedByRow(c, d, ask)
                       /\ ask.op \in {"archive", "upload_version"} => ~IsArchived(d)
                       /\ Control(ask) = "lock" => d.editable
                       /\ Control(ask) = "unlock" => ~d.editable
                       /\ Control(ask) # "none"
                       => Control(ask) \in Controls(c, d)
  OBVIOUS
<1> USE DEF Controls, DocumentDrawer, GraphDocumentInspector, PermittedByRow, DrawerUpload,
     VersionsTab, ApprovalPanel, EditFields, EditTab, Footer, InspectorFooter
<1>0. ask.op # "update" => Control(ask) = ask.op
  BY ControlIs
<1>1. CASE ask.op = "upload_version"
  BY <1>0, <1>1 DEF CanUploadVersion, PendingOk, IsPending, IsArchived, MayUploadVersion,
     RecordOps
<1>2. CASE ask.op = "update"
  <2>1. PICK control : control = Control(ask)
    OBVIOUS
  <2>2. /\ control \in {"edit", "lock", "unlock", "none"}
        /\ control = "edit" => /\ ask.patch.editable = Keep
                               /\ ask.patch.title # Keep \/ ask.patch.bucket # Keep
        /\ control \in {"lock", "unlock"} =>
                /\ ask.patch.editable = (control = "unlock")
                /\ ask.patch.title = Keep /\ ask.patch.bucket = Keep
    BY <1>2, <2>1, ControlIs
  <2>3. PermittedByRow(c, d, ask) <=> MayUpdate(c, d, ask.patch)
    BY <1>2 DEF RecordOps
  <2>4. /\ control = "none" => control \notin Controls(c, d)
        /\ control = "edit" => (control \in Controls(c, d) <=> CanEditMeta(c, d))
        /\ control = "lock" =>
             (control \in Controls(c, d) <=> CanToggleEditable(c, d) /\ d.editable)
        /\ control = "unlock" =>
             (control \in Controls(c, d) <=> CanToggleEditable(c, d) /\ ~d.editable)
    OBVIOUS
  <2> HIDE DEF Controls, PermittedByRow
  <2>5. d.editable \in BOOLEAN
    BY DEF DocRows
  <2>6. CASE control = "none"
    BY <2>1, <2>4, <2>6
  <2>7. CASE control = "edit"
    <3>1. MayUpdate(c, d, ask.patch) <=> CanEditMeta(c, d)
      BY <2>2, <2>5, <2>7, PatchesAssumption
      DEF MayUpdate, Given, CanEditMeta, MayEdit, PendingOk, IsPending
    <3> QED
      BY <2>1, <2>3, <2>4, <2>7, <3>1
  <2>8. CASE control = "lock"
    <3>1. ask.patch.editable = FALSE /\ ask.patch.title = Keep /\ ask.patch.bucket = Keep
      BY <2>2, <2>8
    <3>2. d.editable => (MayUpdate(c, d, ask.patch) <=> CanToggleEditable(c, d))
      BY <2>5, <3>1 DEF MayUpdate, Given, CanToggleEditable, MayEdit, PendingOk, IsPending
    <3>3. CanToggleEditable(c, d) /\ d.editable => MayUpdate(c, d, ask.patch)
      BY <3>2
    <3> QED
      BY <2>1, <2>3, <2>4, <2>8, <3>2, <3>3
  <2>9. CASE control = "unlock"
    <3>1. ask.patch.editable = TRUE /\ ask.patch.title = Keep /\ ask.patch.bucket = Keep
      BY <2>2, <2>9
    <3>2. ~d.editable => (MayUpdate(c, d, ask.patch) <=> CanToggleEditable(c, d))
      BY <2>5, <3>1 DEF MayUpdate, Given, CanToggleEditable, MayEdit, PendingOk, IsPending
    <3> QED
      BY <2>1, <2>3, <2>4, <2>9, <3>2
  <2> QED
    BY <2>2, <2>6, <2>7, <2>8, <2>9
<1>3. CASE ask.op = "request_approval"
  BY <1>0, <1>3 DEF CanRequestApproval, MayRequestApproval, RecordOps
<1>4. CASE ask.op \in {"verify", "request_changes"}
  BY <1>0, <1>4 DEF CanReview, MayReview, RecordOps
<1>5. CASE ask.op = "archive"
  BY <1>0, <1>5 DEF CanArchive, PendingOk, IsPending, IsArchived, MayArchive, RecordOps
<1>6. CASE ask.op = "restore"
  BY <1>0, <1>6 DEF CanRestore, MayRestore, RecordOps
<1> QED
  BY <1>1, <1>2, <1>3, <1>4, <1>5, <1>6, AskIs DEF RecordOps
-----------------------------------------------------------------------------
(* What a handler that overwrites nothing unseen does.                     *)

\* The handler of u ends in this step and makes of the row, as it stands, what its
\* request makes of it; the row permits the request at this very moment, to its user
\* with the role that its tests have seen.
TakesEffectNow(u) ==
    /\ doc \in DocRows
    /\ PermittedByRow(By(u), doc, req[u].ask)
    /\ doc' = After(By(u), doc, req[u].ask, req[u].snapshot)

LEMMA SavedRow ==
    ASSUME IInv, NEW u \in Users, Save(u), ~overwrote'
    PROVE  /\ ~overwrote /\ doc = req[u].row
           /\ req[u].ask.op \in RecordOps => record[req[u].ask.record] = req[u].snapshot
           /\ req[u].ask.op = "unarchive_record" => AsArchived(req[u].snapshot)
           /\ TakesEffectNow(u)
<1>1. req[u] # Idle /\ ~overwrote /\ ~Overwrites(u) /\ doc' = Written(u)
  BY DEF Save
<1>2. /\ doc = req[u].row
      /\ req[u].ask.op \in RecordOps => record[req[u].ask.record] = req[u].snapshot
      /\ req[u].ask.op = "unarchive_record" => AsArchived(req[u].snapshot)
  BY <1>1 DEF Overwrites
<1>3. doc \in DocRows
  BY <1>1, HandlerType
<1>4. PermittedByRow(By(u), doc, req[u].ask)
  BY <1>1, <1>2 DEF IInv, HandlersOK
<1>5. doc' = After(By(u), doc, req[u].ask, req[u].snapshot)
  BY <1>1, <1>2, WrittenIsMeant DEF Meant
<1> QED
  BY <1>1, <1>2, <1>3, <1>4, <1>5 DEF TakesEffectNow

\* The same, field by field.
Effect(u) ==
    /\ req[u].ask.op = "upload_version" =>
        /\ doc.editable /\ doc'.current = doc.current + 1
        /\ doc'.status = IF doc.status = "verified" THEN "uploaded" ELSE doc.status
        /\ doc'.approved_by = IF doc.status = "verified" THEN None ELSE doc.approved_by
    /\ req[u].ask.op = "update" =>
        /\ doc'.status = doc.status /\ doc'.approved_by = doc.approved_by
        /\ doc'.current = doc.current
        /\ doc'.title = Given(req[u].ask.patch.title, doc.title)
        /\ doc'.bucket = Given(req[u].ask.patch.bucket, doc.bucket)
        /\ doc'.editable = Given(req[u].ask.patch.editable, doc.editable)
        /\ MayUpdate(By(u), doc, req[u].ask.patch)
    /\ req[u].ask.op = "request_approval" =>
        /\ doc.status \in {"uploaded", "action_required"}
        /\ doc'.status = "pending_approval" /\ doc'.approved_by = None
        /\ SameContent /\ doc'.editable = doc.editable
    /\ req[u].ask.op = "verify" =>
        /\ doc.status = "pending_approval"
        /\ doc'.status = "verified" /\ doc'.approved_by # None
        /\ SameContent /\ doc'.editable = doc.editable
    /\ req[u].ask.op = "request_changes" =>
        /\ doc.status = "pending_approval"
        /\ doc'.status = "action_required" /\ doc'.approved_by = None
        /\ SameContent /\ doc'.editable = doc.editable
    /\ req[u].ask.op \in {"archive", "archive_record"} =>
        /\ doc'.status = "archived" /\ doc'.approved_by = doc.approved_by
        /\ SameContent /\ ~doc'.editable
    /\ req[u].ask.op = "restore" =>
        /\ req[u].admin
        /\ doc'.status = "uploaded" /\ doc'.approved_by = None
        /\ SameContent /\ doc'.editable
    /\ req[u].ask.op = "unarchive_record" =>
        /\ record[req[u].ask.record] = req[u].snapshot
        /\ record[req[u].ask.record] # None
        /\ doc.status = "archived"
        /\ doc.approved_by = record[req[u].ask.record].approved_by
        /\ doc.current = record[req[u].ask.record].current
        /\ doc'.status = record[req[u].ask.record].status
        /\ doc'.editable = record[req[u].ask.record].editable
        /\ doc'.approved_by = doc.approved_by
        /\ SameContent

LEMMA SavedIs ==
    ASSUME IInv, NEW u \in Users, Save(u), ~overwrote'
    PROVE  Effect(u)
<1> DEFINE ask == req[u].ask
           s == req[u].snapshot
           c == By(u)
<1>1. /\ doc \in DocRows /\ ask \in Asks /\ c \in Actors
      /\ ask.op = "unarchive_record" => s \in Snapshots
  BY HandlerType DEF Save
<1>2. PermittedByRow(c, doc, ask) /\ doc' = After(c, doc, ask, s)
  BY SavedRow DEF TakesEffectNow
<1>3. /\ ask.op \in RecordOps => record[ask.record] = s
      /\ ask.op = "unarchive_record" => AsArchived(s)
  BY SavedRow
<1>4. c.admin = req[u].admin
  BY DEF By
<1> HIDE DEF ask, s, c
<1> SUFFICES /\ ask.op = "upload_version" =>
                /\ doc.editable /\ doc'.current = doc.current + 1
                /\ doc'.status = IF doc.status = "verified" THEN "uploaded" ELSE doc.status
                /\ doc'.approved_by =
                     IF doc.status = "verified" THEN None ELSE doc.approved_by
             /\ ask.op = "update" =>
                /\ doc'.status = doc.status /\ doc'.approved_by = doc.approved_by
                /\ doc'.current = doc.current
                /\ doc'.title = Given(ask.patch.title, doc.title)
                /\ doc'.bucket = Given(ask.patch.bucket, doc.bucket)
                /\ doc'.editable = Given(ask.patch.editable, doc.editable)
                /\ MayUpdate(c, doc, ask.patch)
             /\ ask.op = "request_approval" =>
                /\ doc.status \in {"uploaded", "action_required"}
                /\ doc'.status = "pending_approval" /\ doc'.approved_by = None
                /\ SameContent /\ doc'.editable = doc.editable
             /\ ask.op = "verify" =>
                /\ doc.status = "pending_approval"
                /\ doc'.status = "verified" /\ doc'.approved_by # None
                /\ SameContent /\ doc'.editable = doc.editable
             /\ ask.op = "request_changes" =>
                /\ doc.status = "pending_approval"
                /\ doc'.status = "action_required" /\ doc'.approved_by = None
                /\ SameContent /\ doc'.editable = doc.editable
             /\ ask.op \in {"archive", "archive_record"} =>
                /\ doc'.status = "archived" /\ doc'.approved_by = doc.approved_by
                /\ SameContent /\ ~doc'.editable
             /\ ask.op = "restore" =>
                /\ c.admin
                /\ doc'.status = "uploaded" /\ doc'.approved_by = None
                /\ SameContent /\ doc'.editable
             /\ ask.op = "unarchive_record" =>
                /\ record[ask.record] = s /\ record[ask.record] # None
                /\ doc.status = "archived"
                /\ doc.approved_by = s.approved_by /\ doc.current = s.current
                /\ doc'.status = s.status /\ doc'.editable = s.editable
                /\ doc'.approved_by = doc.approved_by
                /\ SameContent
  BY <1>4 DEF Effect, ask, s, c
<1>5. CASE ask.op = "upload_version"
  <2>1. doc' = VersionUploaded(doc)
    BY <1>1, <1>2, <1>5, AfterIs
  <2>2. doc.editable
    BY <1>2, <1>5 DEF PermittedByRow, MayUploadVersion, RecordOps
  <2> QED
    BY <1>1, <1>5, <2>1, <2>2, VersionUploadedIs
<1>6. CASE ask.op = "update"
  <2>1. doc' = Updated(doc, ask.patch) /\ ask.patch \in Bodies
    BY <1>1, <1>2, <1>6, AfterIs, AskIs
  <2>2. MayUpdate(c, doc, ask.patch)
    BY <1>2, <1>6 DEF PermittedByRow, RecordOps
  <2> QED
    BY <1>1, <1>6, <2>1, <2>2, UpdatedIs
<1>7. CASE ask.op = "request_approval"
  <2>1. doc' = ApprovalRequested(doc, ask.approver)
    BY <1>1, <1>2, <1>7, AfterIs
  <2>2. doc.status \in {"uploaded", "action_required"}
    BY <1>2, <1>7 DEF PermittedByRow, MayRequestApproval, RecordOps
  <2> QED
    BY <1>1, <1>7, <2>1, <2>2 DEF ApprovalRequested, DocRows, SameContent
<1>8. CASE ask.op \in {"verify", "request_changes"}
  <2>1. doc' = Reviewed(c, doc, ask.op)
    BY <1>1, <1>2, <1>8, AfterIs
  <2>2. doc.status = "pending_approval"
    BY <1>2, <1>8 DEF PermittedByRow, MayReview, IsPending, RecordOps
  <2>3. /\ doc'.status = IF ask.op = "verify" THEN "verified" ELSE "action_required"
        /\ doc'.approved_by = IF ask.op = "verify" THEN c.id ELSE None
    <3>1. CASE ask.op = "verify"
      BY <1>1, <2>1, <3>1 DEF Reviewed, DocRows
    <3>2. CASE ask.op # "verify"
      BY <1>1, <2>1, <3>2 DEF Reviewed, DocRows
    <3> QED
      BY <3>1, <3>2
  <2>4. c.id # None
    BY <1>1, UsersAssumption DEF Actors
  <2>5. SameContent /\ doc'.editable = doc.editable
    BY <1>1, <2>1, ReviewedIs DEF SameContent
  <2> QED
    BY <1>8, <2>2, <2>3, <2>4, <2>5
<1>9. CASE ask.op \in {"archive", "archive_record"}
  <2>1. doc' = Archived(doc)
    BY <1>1, <1>2, <1>9, AfterIs
  <2> QED
    BY <1>1, <1>9, <2>1 DEF Archived, DocRows, SameContent
<1>10. CASE ask.op = "restore"
  <2>1. doc' = Restored(doc)
    BY <1>1, <1>2, <1>10, AfterIs
  <2>2. c.admin
    BY <1>2, <1>10 DEF PermittedByRow, MayRestore, RecordOps
  <2> QED
    BY <1>1, <1>10, <2>1, <2>2 DEF Restored, DocRows, SameContent
<1>11. CASE ask.op = "unarchive_record"
  <2>1. doc' = PutBack(doc, s) /\ s \in Snapshots /\ s # None
    <3>1. s # None
      BY <1>11 DEF IInv, HandlersOK, Save, ask, s
    <3> QED
      BY <1>1, <1>2, <1>11, <3>1, AfterIs
  <2>2. record[ask.record] = s
    BY <1>3, <1>11 DEF RecordOps
  <2>3. doc.status = "archived" /\ doc.approved_by = s.approved_by /\ doc.current = s.current
    <3>1. Snapshot(doc) = [s EXCEPT !.status = "archived", !.editable = FALSE]
      BY <1>3, <1>11 DEF AsArchived
    <3>2. /\ Snapshot(doc).status = doc.status /\ Snapshot(doc).current = doc.current
          /\ Snapshot(doc).approved_by = doc.approved_by
      BY DEF Snapshot
    <3> QED
      BY <2>1, <3>1, <3>2 DEF Snapshots
  <2> QED
    BY <1>1, <1>11, <2>1, <2>2, <2>3, PutBackIs DEF SameContent
<1> QED
  BY <1>1, <1>5, <1>6, <1>7, <1>8, <1>9, <1>10, <1>11, AskIs
-----------------------------------------------------------------------------
(* The invariant, one lemma per kind of step.                              *)

\* A step that leaves the row, the records and the handlers alone.
LEMMA PageStep ==
    ASSUME IInv, UNCHANGED <<doc, record, req, overwrote, reviewed>>, TypeOK'
    PROVE  IInv'
<1> USE DEF IInv
<1>1. HandlersOK'
  BY DEF HandlersOK, By, PermittedByRow, MayUploadVersion, MayUpdate, MayRequestApproval,
     MayReview, MayArchive, MayRestore
<1>2. RecordsOK'
  BY DEF RecordsOK, Faithful
<1> QED
  BY <1>1, <1>2 DEF VerifiedVersionWasReviewed, ApprovalStampMatchesStatus

LEMMA UploadDocumentStep ==
    ASSUME IInv, NEW u \in Creators, NEW title \in Titles, NEW bucket \in Buckets \cup {None},
           NEW editable \in BOOLEAN, NEW approver \in Users \cup {None},
           UploadDocument(u, title, bucket, editable, approver)
    PROVE  IInv'
<1> USE DEF IInv
<1>1. doc' \in DocRows /\ doc'.status # "verified" /\ doc'.approved_by = None
  BY UsersAssumption DEF UploadDocument, DocRows, Statuses
<1>2. \A v \in Users : req[v] = Idle
  BY DEF UploadDocument, HandlersOK
<1>3. UNCHANGED <<record, admins, access, req, viewer, known, fetch, owed, overwrote, reviewed>>
  BY DEF UploadDocument, page, ghosts
<1>4. TypeOK'
  BY <1>1, <1>3 DEF TypeOK
<1>5. HandlersOK'
  BY <1>2, <1>3 DEF HandlersOK
<1>6. RecordsOK'
  BY <1>3 DEF RecordsOK, UploadDocument
<1>7. VerifiedVersionWasReviewed' /\ ApprovalStampMatchesStatus'
  BY <1>1 DEF VerifiedVersionWasReviewed, ApprovalStampMatchesStatus
<1> QED
  BY <1>4, <1>5, <1>6, <1>7

LEMMA SelectStep ==
    ASSUME IInv, NEW u \in Users, NEW ask \in Asks, Select(u, ask)
    PROVE  IInv'
<1> USE DEF IInv
<1> DEFINE snapshot == IF ask.op \in RecordOps THEN record[ask.record] ELSE None
           handler == [ask |-> ask, admin |-> u \in admins, row |-> doc,
                       snapshot |-> snapshot]
<1>1. doc \in DocRows /\ doc # NoDoc
  BY DEF Select, Click, TypeOK
<1>2. snapshot \in Snapshots \cup {None}
  BY AskIs DEF TypeOK
<1>3. ask.op = "unarchive_record" => snapshot # None
  BY DEF Select, Permitted, RecordOps
<1>4. req' = [req EXCEPT ![u] = handler]
      /\ UNCHANGED <<doc, record, admins, access, viewer, known, fetch, owed, overwrote, reviewed>>
  BY DEF Select, tables, page, ghosts
<1> HIDE DEF snapshot
<1>5. handler \in Handlers
  BY <1>1, <1>2 DEF Handlers
<1>6. TypeOK'
  BY <1>4, <1>5 DEF TypeOK
<1>7. req'[u] = handler /\ \A v \in Users \ {u} : req'[v] = req[v]
  BY <1>4 DEF TypeOK
<1>8. HandlersOK'
  <2> SUFFICES ASSUME NEW v \in Users, req'[v] # Idle
               PROVE  /\ doc' # NoDoc
                      /\ PermittedByRow(By(v), req[v].row, req[v].ask)'
                      /\ req'[v].ask.op = "unarchive_record" => req'[v].snapshot # None
    BY DEF HandlersOK
  <2>1. CASE v # u
    <3>1. req'[v] = req[v]
      BY <1>7, <2>1
    <3> QED
      BY <1>4, <3>1 DEF HandlersOK, By, PermittedByRow, MayUploadVersion, MayUpdate,
         MayRequestApproval, MayReview, MayArchive, MayRestore
  <2>2. CASE v = u
    <3>1. PermittedByRow(Actor(u), doc, ask)
      BY DEF Select, Permitted
    <3>2. /\ req'[v].row = doc /\ req'[v].ask = ask /\ req'[v].snapshot = snapshot
          /\ By(v)' = Actor(u)
      BY <1>7, <2>2 DEF By, Actor
    <3>3. PermittedByRow(By(v), req[v].row, req[v].ask)'
      BY <3>1, <3>2 DEF PermittedByRow, MayUploadVersion, MayUpdate, MayRequestApproval,
         MayReview, MayArchive, MayRestore
    <3> QED
      BY <1>1, <1>3, <1>4, <3>2, <3>3
  <2> QED
    BY <2>1, <2>2
<1>9. RecordsOK'
  BY <1>4 DEF RecordsOK, Faithful
<1> QED
  BY <1>4, <1>6, <1>8, <1>9 DEF VerifiedVersionWasReviewed, ApprovalStampMatchesStatus

\* What the requests make of the approval, and of the version it was given to.
LEMMA SaveApproval ==
    ASSUME IInv, NEW u \in Users, Save(u), ~overwrote'
    PROVE  VerifiedVersionWasReviewed' /\ ApprovalStampMatchesStatus'
<1> USE DEF IInv
<1>1. /\ doc \in DocRows /\ req[u].ask \in Asks /\ doc # NoDoc /\ ~overwrote
      /\ doc = req[u].row /\ Effect(u)
  BY HandlerType, SavedIs, SavedRow DEF Save, HandlersOK
<1>2. /\ doc.status = "verified" => doc.approved_by # None /\ doc.current = reviewed
      /\ doc.approved_by # None => doc.status \in {"verified", "archived"}
  BY <1>1 DEF VerifiedVersionWasReviewed, ApprovalStampMatchesStatus
<1>3. reviewed' = IF req[u].ask.op = "verify" THEN doc.current
                  ELSE IF doc'.status \in {"verified", "archived"} THEN reviewed ELSE 0
  BY <1>1 DEF Save
<1> SUFFICES /\ doc'.status = "verified" =>
                    doc'.approved_by # None /\ doc'.current = reviewed'
             /\ doc'.approved_by # None => doc'.status \in {"verified", "archived"}
  BY DEF VerifiedVersionWasReviewed, ApprovalStampMatchesStatus
<1>4. CASE req[u].ask.op \in {"upload_version", "update", "request_approval", "verify",
                              "request_changes", "archive", "archive_record", "restore"}
  BY <1>1, <1>2, <1>3, <1>4 DEF Effect, SameContent
<1>5. CASE req[u].ask.op = "unarchive_record"
  <2>1. PICK s : s = record[req[u].ask.record]
    OBVIOUS
  <2>2. Faithful(s)
    BY <1>1, <1>5, <2>1, AskIs DEF Effect, RecordsOK, RecordOps
  <2>3. /\ doc.status = "archived" /\ doc.approved_by = s.approved_by
        /\ doc.current = s.current /\ doc'.status = s.status
        /\ doc'.approved_by = doc.approved_by /\ doc'.current = doc.current
    BY <1>1, <1>5, <2>1 DEF Effect, SameContent
  <2>4. doc'.status = "verified" => reviewed = doc.current /\ reviewed' = reviewed
    BY <1>3, <1>5, <2>2, <2>3 DEF Faithful
  <2> QED
    BY <2>2, <2>3, <2>4 DEF Faithful
<1> QED
  BY <1>1, <1>4, <1>5, AskIs

\* A snapshot stays faithful, but for the record whose row the handler writes.
LEMMA FaithfulStep ==
    ASSUME IInv, NEW u \in Users, Save(u), ~overwrote', NEW s \in Snapshots, Faithful(s)
    PROVE  Faithful(s)'
<1> USE DEF IInv
<1>1. /\ doc \in DocRows /\ req[u].ask \in Asks /\ doc # NoDoc /\ ~overwrote
      /\ doc = req[u].row /\ Effect(u)
  BY HandlerType, SavedIs, SavedRow DEF Save, HandlersOK
<1>2. /\ doc.status = "verified" => doc.approved_by # None /\ doc.current = reviewed
      /\ doc.approved_by # None => doc.status \in {"verified", "archived"}
  BY <1>1 DEF VerifiedVersionWasReviewed, ApprovalStampMatchesStatus
<1>3. reviewed' = IF req[u].ask.op = "verify" THEN doc.current
                  ELSE IF doc'.status \in {"verified", "archived"} THEN reviewed ELSE 0
  BY <1>1 DEF Save
<1>4. doc.current \in Nat /\ s.current \in Nat
  BY <1>1 DEF DocRows, Snapshots
<1>5. doc'.current = IF req[u].ask.op = "upload_version" THEN doc.current + 1
                     ELSE doc.current
  BY <1>1, AskIs DEF Effect, SameContent
<1>6. s.current <= doc'.current
  BY <1>4, <1>5 DEF Faithful
<1>7. ASSUME s.status = "verified", s.current = doc'.current, doc'.status = "archived",
             doc'.approved_by # None
      PROVE  reviewed' = doc'.current
  <2>1. CASE req[u].ask.op = "upload_version"
    BY <1>4, <1>5, <1>7, <2>1 DEF Faithful
  <2>2. CASE req[u].ask.op \in {"update", "request_approval", "verify", "request_changes",
                                "restore"}
    BY <1>1, <1>3, <1>5, <1>7, <2>2 DEF Effect, Faithful
  <2>3. CASE req[u].ask.op \in {"archive", "archive_record"}
    BY <1>1, <1>2, <1>3, <1>5, <1>7, <2>3 DEF Effect, Faithful
  <2>4. CASE req[u].ask.op = "unarchive_record"
    BY <1>1, <1>3, <1>5, <1>7, <2>4 DEF Effect, Faithful
  <2> QED
    BY <1>1, <2>1, <2>2, <2>3, <2>4, AskIs
<1> QED
  BY <1>6, <1>7 DEF Faithful

\* What archive_record keeps of a document is faithful to it.
LEMMA FaithfulSnapshot ==
    ASSUME IInv, ~overwrote, doc \in DocRows
    PROVE  Snapshot(doc) \in Snapshots /\ Faithful(Snapshot(doc))
<1>1. doc # NoDoc
  BY NoDocIsNoRow
<1>2. /\ Snapshot(doc) \in Snapshots
      /\ Snapshot(doc).status = doc.status /\ Snapshot(doc).current = doc.current
      /\ Snapshot(doc).approved_by = doc.approved_by
      /\ doc.current \in Nat
  BY DEF Snapshot, Snapshots, DocRows
<1> QED
  BY <1>1, <1>2
  DEF IInv, Faithful, ApprovalStampMatchesStatus, VerifiedVersionWasReviewed

LEMMA SaveRecords ==
    ASSUME IInv, NEW u \in Users, Save(u), ~overwrote'
    PROVE  RecordsOK'
<1>1. /\ ~overwrote /\ doc = req[u].row /\ doc \in DocRows /\ req[u].ask \in Asks
      /\ doc' # NoDoc /\ record \in [Records -> Snapshots \cup {None}]
  <2>1. ~overwrote /\ doc = req[u].row /\ doc \in DocRows /\ req[u].ask \in Asks
    BY HandlerType, SavedRow DEF Save
  <2>2. doc' = Meant(u) /\ Meant(u) \in DocRows
    BY <2>1, HandlerType, WrittenIsMeant DEF Save
  <2> QED
    BY <2>1, <2>2, NoDocIsNoRow DEF IInv, TypeOK
<1> SUFFICES ASSUME NEW r \in Records, record'[r] # None
             PROVE  Faithful(record[r])'
  BY <1>1 DEF RecordsOK, Faithful
<1>2. CASE req[u].ask.op = "archive_record" /\ r = req[u].ask.record
  <2>1. record'[r] = Snapshot(doc)
    BY <1>1, <1>2 DEF Save, RecordWritten
  <2>2. PICK s : s = Snapshot(doc)
    OBVIOUS
  <2>3. Faithful(s)'
    BY <1>1, <2>2, FaithfulSnapshot, FaithfulStep
  <2> QED
    BY <2>1, <2>2, <2>3 DEF Faithful
<1>3. CASE req[u].ask.op = "unarchive_record" /\ r = req[u].ask.record
  BY <1>1, <1>3 DEF Save, RecordWritten
<1>4. CASE ~(req[u].ask.op \in RecordOps /\ r = req[u].ask.record)
  <2>1. record'[r] = record[r]
    <3>1. CASE req[u].ask.op = "archive_record"
      BY <1>1, <1>4, <3>1 DEF Save, RecordWritten, RecordOps
    <3>2. CASE req[u].ask.op = "unarchive_record"
      BY <1>1, <1>4, <3>2 DEF Save, RecordWritten, RecordOps
    <3>3. CASE req[u].ask.op \notin RecordOps
      BY <3>3 DEF Save, RecordWritten, RecordOps
    <3> QED
      BY <3>1, <3>2, <3>3 DEF RecordOps
  <2>2. PICK s : s = record[r]
    OBVIOUS
  <2>3. s \in Snapshots /\ Faithful(s)
    BY <1>1, <2>1, <2>2 DEF IInv, RecordsOK
  <2>4. Faithful(s)'
    BY <2>3, FaithfulStep
  <2> QED
    BY <2>1, <2>2, <2>4 DEF Faithful
<1> QED
  BY <1>2, <1>3, <1>4 DEF RecordOps

LEMMA SaveStep ==
    ASSUME IInv, NEW u \in Users, Save(u)
    PROVE  IInv'
<1> USE DEF IInv
<1>1. /\ doc \in DocRows /\ req[u].row \in DocRows /\ req[u].ask \in Asks
      /\ Meant(u) \in DocRows
  BY HandlerType DEF Save
<1>2. doc' \in DocRows
  <2>1. /\ Put(u, "status") \in Statuses
        /\ Put(u, "editable") \in BOOLEAN
        /\ Put(u, "title") \in Titles
        /\ Put(u, "bucket") \in Buckets \cup {None}
        /\ Put(u, "approver") \in Users \cup {None}
        /\ Put(u, "approved_by") \in Users \cup {None}
    BY <1>1 DEF Put, DocRows
  <2>2. PutCurrent(u) \in Nat /\ doc.creator \in Users
    BY <1>1 DEF PutCurrent, DocRows
  <2> QED
    BY <2>1, <2>2 DEF Save, Written, DocRows
<1>3. record' \in [Records -> Snapshots \cup {None}]
  <2>1. Snapshot(req[u].row) \in Snapshots
    BY <1>1 DEF Snapshot, Snapshots, DocRows
  <2> QED
    BY <2>1 DEF Save, RecordWritten, TypeOK
<1>4. TypeOK'
  <2>1. overwrote' \in BOOLEAN
    BY DEF Save, TypeOK
  <2>2. fetch' \in {"none", "asked"} /\ reviewed' \in Nat
    BY <1>1 DEF Save, TypeOK, DocRows
  <2>3. req' \in [Users -> Handlers \cup {Idle}]
    BY DEF Save, TypeOK
  <2> QED
    BY <1>2, <1>3, <2>1, <2>2, <2>3 DEF Save, TypeOK
<1>5. HandlersOK'
  <2> SUFFICES ASSUME NEW v \in Users, req'[v] # Idle
               PROVE  /\ doc' # NoDoc
                      /\ PermittedByRow(By(v), req[v].row, req[v].ask)'
                      /\ req'[v].ask.op = "unarchive_record" => req'[v].snapshot # None
    BY DEF HandlersOK
  <2>1. req'[v] = req[v] /\ req[v] # Idle
    BY DEF Save, TypeOK
  <2> QED
    BY <1>2, <2>1, NoDocIsNoRow DEF HandlersOK, By, PermittedByRow, MayUploadVersion,
       MayUpdate, MayRequestApproval, MayReview, MayArchive, MayRestore
<1>6. CASE ~overwrote'
  BY <1>4, <1>5, <1>6, SaveApproval, SaveRecords
<1>7. CASE overwrote'
  BY <1>4, <1>5, <1>7 DEF RecordsOK, VerifiedVersionWasReviewed, ApprovalStampMatchesStatus
<1> QED
  BY <1>6, <1>7

LEMMA Step == IInv /\ [Next]_vars => IInv'
<1> SUFFICES ASSUME IInv, [Next]_vars
             PROVE  IInv'
  OBVIOUS
<1> USE DEF tables, page, ghosts
<1>0. TypeOK
  BY DEF IInv
<1>1. ASSUME NEW u \in Creators, NEW title \in Titles, NEW bucket \in Buckets \cup {None},
             NEW editable \in BOOLEAN, NEW approver \in Users \cup {None},
             UploadDocument(u, title, bucket, editable, approver)
      PROVE  IInv'
  BY <1>1, UploadDocumentStep
<1>2. ASSUME NEW u \in Outsiders, NEW b \in Buckets, UpdateBucketAccess(u, b)
      PROVE  IInv'
  <2>1. TypeOK'
    BY <1>0, <1>2, UsersAssumption DEF UpdateBucketAccess, TypeOK
  <2> QED
    BY <1>2, <2>1, PageStep DEF UpdateBucketAccess
<1>3. ASSUME NEW u \in Promotable, ChangeRole(u)
      PROVE  IInv'
  <2>1. TypeOK'
    BY <1>0, <1>3, UsersAssumption DEF ChangeRole, TypeOK
  <2> QED
    BY <1>3, <2>1, PageStep DEF ChangeRole
<1>4. ASSUME NEW ask \in Asks, RefuseStale(ask)
      PROVE  IInv'
  <2>1. TypeOK'
    BY <1>0, <1>4 DEF RefuseStale, TypeOK
  <2> QED
    BY <1>4, <2>1, PageStep DEF RefuseStale
<1>5. ASSUME NEW u \in Users, NEW ask \in Asks, Select(u, ask)
      PROVE  IInv'
  BY <1>5, SelectStep
<1>6. ASSUME NEW u \in Users, Save(u)
      PROVE  IInv'
  BY <1>6, SaveStep
<1>7. CASE Mount
  <2>1. TypeOK'
    BY <1>0, <1>7 DEF Mount, TypeOK
  <2> QED
    BY <1>7, <2>1, PageStep DEF Mount
<1>8. CASE ListDocuments
  <2>1. TypeOK'
    BY <1>0, <1>8 DEF ListDocuments, TypeOK
  <2> QED
    BY <1>8, <2>1, PageStep DEF ListDocuments
<1>9. CASE ListBuckets
  <2>1. TypeOK'
    BY <1>0, <1>9 DEF ListBuckets, TypeOK
  <2> QED
    BY <1>9, <2>1, PageStep DEF ListBuckets
<1>10. CASE LoadPage
  <2>1. TypeOK'
    BY <1>0, <1>10 DEF LoadPage, TypeOK
  <2> QED
    BY <1>10, <2>1, PageStep DEF LoadPage
<1>11. CASE UNCHANGED vars
  <2>1. TypeOK'
    BY <1>0, <1>11 DEF vars, TypeOK
  <2> QED
    BY <1>11, <2>1, PageStep DEF vars
<1>12. CASE Stopped
  BY <1>11, <1>12 DEF Stopped
<1> QED
  BY <1>1, <1>2, <1>3, <1>4, <1>5, <1>6, <1>7, <1>8, <1>9, <1>10, <1>11, <1>12 DEF Next

LEMMA Start == Init => IInv
<1> SUFFICES ASSUME Init PROVE IInv
  OBVIOUS
<1>1. TypeOK /\ HandlersOK /\ RecordsOK
  BY UsersAssumption DEF Init, TypeOK, HandlersOK, RecordsOK
<1> QED
  BY <1>1 DEF Init, IInv, VerifiedVersionWasReviewed, ApprovalStampMatchesStatus
-----------------------------------------------------------------------------
(* Action properties.                                                      *)

\* A page whose copies are up to date is not refused.
LEMMA UpToDate ==
    ASSUME TypeOK, known = {"document", "buckets", "role"}, NEW ask \in Asks,
           RefuseStale(ask)
    PROVE  FALSE
<1>1. /\ doc \in DocRows /\ viewer \in Users /\ ask.op \notin RecordOps
      /\ PageOffers(ask) /\ ~Permitted(Actor(viewer), doc, ask)
  BY DEF RefuseStale, Refused, Click, TypeOK
<1>2. Actor(viewer) \in Actors
  BY <1>1 DEF Actor, Actors
<1>3. Control(ask) \in Controls(Actor(viewer), doc)
  BY <1>1 DEF PageOffers
<1>4. PermittedByRow(Actor(viewer), doc, ask)
  BY <1>1, <1>2, <1>3, PagesMirrorServer
<1>5. ask.op = "update" => MayMoveTo(Actor(viewer), ask.patch)
  BY <1>1 DEF PageOffers, MayMoveTo
<1> QED
  BY <1>1, <1>4, <1>5 DEF Permitted, RecordOps

\* Of the actions only Save(u) ends the handler of u.
LEMMA OnlySaveEnds ==
    ASSUME IInv, Next, NEW u \in Users, req[u] # Idle, req'[u] = Idle
    PROVE  Save(u)
<1>1. ASSUME NEW v \in Users, Save(v)
      PROVE  Save(u)
  <2>1. u = v
    BY <1>1 DEF Save, IInv, TypeOK
  <2> QED
    BY <1>1, <2>1
<1>2. ASSUME NEW v \in Users, NEW ask \in Asks, Select(v, ask)
      PROVE  FALSE
  <2>1. req \in [Users -> Handlers \cup {Idle}] /\ req[v] = Idle
    BY <1>2 DEF Select, Click, IInv, TypeOK
  <2>2. v # u
    BY <2>1
  <2>3. req'[u] = req[u]
    BY <1>2, <2>1, <2>2 DEF Select
  <2> QED
    BY <2>3
<1>3. CASE UNCHANGED req
  BY <1>3
<1>4. \/ \E v \in Users : Save(v)
      \/ \E v \in Users, ask \in Asks : Select(v, ask)
      \/ UNCHANGED req
  BY DEF Next, UploadDocument, UpdateBucketAccess, ChangeRole, RefuseStale, Mount,
     ListDocuments, ListBuckets, LoadPage, Stopped, vars
<1> QED
  BY <1>1, <1>2, <1>3, <1>4

\* A document's row changes in the commit of a handler, and at no other moment.
LEMMA OnlySaveChanges ==
    ASSUME Next, doc # NoDoc, doc' # doc
    PROVE  \E u \in Users : Save(u)
  BY DEF Next, UploadDocument, UpdateBucketAccess, ChangeRole, RefuseStale, Select, Mount,
     ListDocuments, ListBuckets, LoadPage, Stopped, tables, vars

LEMMA SaveEnds ==
    ASSUME IInv, NEW u \in Users, Save(u)
    PROVE  req[u] # Idle /\ req'[u] = Idle
  BY DEF Save, IInv, TypeOK

LEMMA LeavesTheArchive ==
    ASSUME IInv, [Next]_vars, doc # NoDoc, ~overwrote', doc.status = "archived",
           doc'.status # "archived"
    PROVE  \E u \in Users :
            \/ Saves(u, {"restore"}) /\ req[u].admin
            \/ /\ Saves(u, {"unarchive_record"})
               /\ doc'.status = record[req[u].ask.record].status
               /\ (doc'.approved_by # None) <=> (doc'.status = "verified")
<1>1. Next /\ doc' # doc
  BY DEF vars, tables
<1>2. PICK u \in Users : Save(u)
  BY <1>1, OnlySaveChanges
<1>3. Effect(u) /\ req[u].ask \in Asks /\ req[u] # Idle /\ req'[u] = Idle /\ ~overwrote
  BY <1>2, SavedIs, SavedRow, SaveEnds, HandlerType
<1>4. CASE req[u].ask.op = "restore"
  BY <1>3, <1>4 DEF Effect, Saves
<1>5. CASE req[u].ask.op = "unarchive_record"
  <2>1. PICK s : s = record[req[u].ask.record]
    OBVIOUS
  <2>2. Faithful(s)
    BY <1>3, <1>5, <2>1, AskIs DEF Effect, IInv, RecordsOK, RecordOps
  <2>3. doc'.status = s.status /\ doc'.approved_by = s.approved_by
    BY <1>3, <1>5, <2>1 DEF Effect
  <2> QED
    BY <1>3, <1>5, <2>1, <2>2, <2>3 DEF Saves, Faithful
<1>6. req[u].ask.op \in {"restore", "unarchive_record"}
  BY <1>3, AskIs DEF Effect
<1> QED
  BY <1>4, <1>5, <1>6

LEMMA FinalChanges ==
    ASSUME IInv, [Next]_vars, doc # NoDoc, ~overwrote', ~doc.editable
    PROVE  \/ SameContent /\ ~doc'.editable
           \/ /\ doc'.editable
              /\ \E u \in Users :
                   \/ Saves(u, {"update", "restore"}) /\ req[u].admin
                   \/ /\ Saves(u, {"unarchive_record"}) /\ SameContent
                      /\ record[req[u].ask.record].editable
<1>1. CASE doc' = doc
  BY <1>1 DEF SameContent
<1>2. CASE doc' # doc
  <2>1. PICK u \in Users : Save(u)
    BY <1>2, OnlySaveChanges DEF vars, tables
  <2>2. Effect(u) /\ req[u].ask \in Asks /\ req[u] # Idle /\ req'[u] = Idle
    BY <2>1, SavedIs, SaveEnds, HandlerType
  <2>3. CASE req[u].ask.op = "update"
    <3>1. PICK patch : patch = req[u].ask.patch
      OBVIOUS
    <3>2. /\ patch \in Bodies
          /\ doc'.current = doc.current
          /\ doc'.title = Given(patch.title, doc.title)
          /\ doc'.bucket = Given(patch.bucket, doc.bucket)
          /\ doc'.editable = Given(patch.editable, doc.editable)
          /\ MayUpdate(By(u), doc, patch)
      BY <2>2, <2>3, <3>1, AskIs DEF Effect
    <3>3. By(u).admin = req[u].admin
      BY DEF By
    <3>4. patch.editable \in BOOLEAN \cup {Keep}
      BY <3>2 DEF Bodies
    <3>5. CASE patch.editable = TRUE
      <4>1. req[u].admin
        BY <3>2, <3>3, <3>5 DEF MayUpdate
      <4>2. doc'.editable
        BY <3>2, <3>5, PatchesAssumption DEF Given
      <4> QED
        BY <2>2, <2>3, <4>1, <4>2 DEF Saves
    <3>6. CASE patch.editable # TRUE
      <4>1. ~Given(patch.editable, doc.editable)
        BY <3>4, <3>6 DEF Given
      <4>2. patch.title = Keep /\ patch.bucket = Keep
        BY <3>2, <4>1 DEF MayUpdate
      <4> QED
        BY <3>2, <4>1, <4>2 DEF SameContent, Given
    <3> QED
      BY <3>5, <3>6
  <2>4. CASE req[u].ask.op = "restore"
    BY <2>2, <2>4 DEF Effect, Saves
  <2>5. CASE req[u].ask.op = "unarchive_record"
    BY <2>2, <2>5 DEF Effect, Saves
  <2>6. CASE req[u].ask.op \in {"upload_version", "request_approval", "verify",
                                "request_changes", "archive", "archive_record"}
    BY <2>2, <2>6 DEF Effect
  <2> QED
    BY <2>2, <2>3, <2>4, <2>5, <2>6, AskIs
<1> QED
  BY <1>1, <1>2

SaveIsAtomic ==
    [][/\ \A u \in Users : req[u] # Idle /\ req'[u] = Idle /\ ~overwrote' => TakesEffectNow(u)
       /\ doc # NoDoc /\ doc' # doc => \E u \in Users : req[u] # Idle /\ req'[u] = Idle]_vars

LEMMA EndsAtomically ==
    ASSUME IInv, [Next]_vars, NEW u \in Users, req[u] # Idle, req'[u] = Idle, ~overwrote'
    PROVE  TakesEffectNow(u)
<1>1. Save(u)
  BY OnlySaveEnds DEF vars
<1> QED
  BY <1>1, SavedRow

LEMMA ChangesAtAnEnd ==
    ASSUME IInv, [Next]_vars, doc # NoDoc, doc' # doc
    PROVE  \E u \in Users : req[u] # Idle /\ req'[u] = Idle
<1>1. Next
  BY DEF vars, tables
<1> QED
  BY <1>1, OnlySaveChanges, SaveEnds
-----------------------------------------------------------------------------
(* Theorems of the specification.                                          *)

\* The invariant holds throughout.
THEOREM Invariance == Spec => []IInv
  BY Start, Step, PTL DEF Spec

\* The variables keep their types.
THEOREM DocumentTypeCorrect == Spec => []TypeOK
  BY Invariance, PTL DEF IInv

\* A verified document's current version is one its reviewer's request found current,
\* whatever records have archived and unarchived it since, unless a handler overwrote
\* something unseen (upload_document_version, review_document, compliance.py).
THEOREM DocumentVerifiedVersionWasReviewed == Spec => []VerifiedVersionWasReviewed
  BY Invariance, PTL DEF IInv

\* The stamp of an approval stands on verified documents and on those archived as such.
THEOREM DocumentApprovalStamp == Spec => []ApprovalStampMatchesStatus
  BY Invariance, PTL DEF IInv

\* A page that knows the document, the buckets and the role as they stand is told
\* neither 403 nor 409, whatever roles and accesses have changed before
\* (documentPermissions.ts).
THEOREM DocumentShownControlIsNotRefused == Spec => ShownControlIsNotRefused
<1>1. IInv /\ [Next]_vars =>
        [known = {"document", "buckets", "role"} => ~\E ask \in Asks : RefuseStale(ask)]_vars
  BY UpToDate DEF IInv
<1> QED
  BY <1>1, Invariance, PTL DEF Spec, ShownControlIsNotRefused

\* An archived document comes back by an admin's restore or the unarchiving of a record,
\* to the status the record had found, approved if and only if that is verified
\* (restore_document, unarchive_meeting_record).
THEOREM DocumentArchivedOnlyRestored == Spec => ArchivedOnlyRestored
<1>1. IInv /\ [Next]_vars =>
        [doc # NoDoc /\ ~overwrote' /\ doc.status = "archived" /\ doc'.status # "archived" =>
            \E u \in Users :
                \/ Saves(u, {"restore"}) /\ req[u].admin
                \/ /\ Saves(u, {"unarchive_record"})
                   /\ doc'.status = record[req[u].ask.record].status
                   /\ (doc'.approved_by # None) <=> (doc'.status = "verified")]_vars
  BY LeavesTheArchive
<1> QED
  BY <1>1, Invariance, PTL DEF Spec, ArchivedOnlyRestored

\* A document marked final keeps its content until an admin's update or restore, or the
\* unarchiving of a record that had marked it, lifts the mark (upload_document_version,
\* update_document, restore_document, unarchive_meeting_record).
THEOREM DocumentFinalIsFrozen == Spec => FinalIsFrozen
<1>1. IInv /\ [Next]_vars =>
        [doc # NoDoc /\ ~overwrote' /\ ~doc.editable =>
            \/ SameContent /\ ~doc'.editable
            \/ /\ doc'.editable
               /\ \E u \in Users :
                    \/ Saves(u, {"update", "restore"}) /\ req[u].admin
                    \/ /\ Saves(u, {"unarchive_record"}) /\ SameContent
                       /\ record[req[u].ask.record].editable]_vars
  BY FinalChanges
<1> QED
  BY <1>1, Invariance, PTL DEF Spec, FinalIsFrozen

\* Handlers that overwrite nothing unseen take effect one at a time, each at the moment
\* of its commit: the row it commits to permits the request, to its user with the role
\* he had at the select, and turns into what the request makes of it, whatever was
\* selected, refused, fetched or granted in between; and a row changes at no other
\* moment (docvault.py, compliance.py: select, wait, commit without a lock).
THEOREM DocumentSaveIsAtomic == Spec => SaveIsAtomic
<1>1. IInv /\ [Next]_vars =>
        [/\ \A u \in Users :
                req[u] # Idle /\ req'[u] = Idle /\ ~overwrote' => TakesEffectNow(u)
         /\ doc # NoDoc /\ doc' # doc =>
                \E u \in Users : req[u] # Idle /\ req'[u] = Idle]_vars
  BY EndsAtomically, ChangesAtAnEnd
<1> QED
  BY <1>1, Invariance, PTL DEF Spec, SaveIsAtomic
=============================================================================
