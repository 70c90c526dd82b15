---------------------------- MODULE DocVaultClient ----------------------------
(***************************************************************************)
(* The catalog of DocVault: buckets, documents and their approval.  What   *)
(* the approval of a document goes through is in DocumentApproval.         *)
(***************************************************************************)
EXTENDS ClientCatalog

\* access: who may see which bucket.
docvaultApi ==
    [listBuckets |-> {"buckets", "access"}, listApprovers |-> {"users", "access"},
     listDocuments |-> {"documents", "access"},
     createBucket |-> {"buckets"}, updateBucket |-> {"buckets"}, deleteBucket |-> {"buckets"},
     updateBucketAccess |-> {"access"},
     uploadDocument |-> {"documents"}, uploadVersion |-> {"documents"},
     updateDocument |-> {"documents"}, reviewDocument |-> {"documents"},
     requestApproval |-> {"documents"}, deleteDocument |-> {"documents"},
     restoreDocument |-> {"documents"}]

bucketsKey == <<"docvault", "buckets">>

documentsKey == <<"docvault", "documents">>

docvaultQueries ==
    [useBuckets |-> Query(bucketsKey, docvaultApi.listBuckets),
     useDocVaultApprovers |-> Query(<<"docvault", "approvers", "id">>, docvaultApi.listApprovers),
     useDocuments |-> Query(documentsKey \o <<"f">>, docvaultApi.listDocuments),
     usePendingApprovals |-> Query(documentsKey \o <<"f">>, docvaultApi.listDocuments)]

docvaultMutations ==
    [useCreateBucket |-> Mutation(docvaultApi.createBucket, {bucketsKey}),
     useDeleteBucket |-> Mutation(docvaultApi.deleteBucket, {bucketsKey}),
     useUpdateBucket |-> Mutation(docvaultApi.updateBucket, {bucketsKey}),
     useUpdateBucketAccess |->
        [Mutation(docvaultApi.updateBucketAccess, {bucketsKey, documentsKey})
            EXCEPT !.awaits = FALSE],
     useUploadDocument |-> Mutation(docvaultApi.uploadDocument, {documentsKey}),
     useUploadVersion |-> Mutation(docvaultApi.uploadVersion, {documentsKey}),
     useUpdateDocument |-> Mutation(docvaultApi.updateDocument, {documentsKey}),
     useReviewDocument |-> Mutation(docvaultApi.reviewDocument, {documentsKey}),
     useRequestApproval |-> Mutation(docvaultApi.requestApproval, {documentsKey}),
     useArchiveDocument |-> Mutation(docvaultApi.deleteDocument, {documentsKey}),
     useRestoreDocument |-> Mutation(docvaultApi.restoreDocument, {documentsKey})]
-----------------------------------------------------------------------------
(* Forms and pages.                                                        *)

\* Always mounted; closing it empties it.
UploadDocumentModal ==
    [Form("UploadDocumentModal", <<"useUploadDocument">>) EXCEPT !.persists = TRUE]

\* Always mounted, over the bucket it was opened for.
BucketAccessModal ==
    [Form("BucketAccessModal", <<"useUpdateBucketAccess">>) EXCEPT !.persists = TRUE]

\* The name of a new bucket and a renamed one are sent by Enter whether or not they are
\* being sent, the latter also by blur; both are dismissed by Escape.  A delete that fails
\* closes its dialog.
BucketRail ==
    {[Form("CreateBucket", <<"useCreateBucket">>) EXCEPT !.lock = FALSE, !.persists = TRUE],
     [Form("RenameBucket", <<"useUpdateBucket">>) EXCEPT !.lock = FALSE, !.persists = TRUE],
     [Confirm("DeleteBucket", <<"useDeleteBucket">>) EXCEPT !.failure = "close"],
     BucketAccessModal}

\* The name, the tags and the notes are seeded again by every changed document.
DocumentFields ==
    [Form("DocumentFields", <<"useUpdateDocument">>) EXCEPT
        !.persists = TRUE, !.follows = {"useDocuments"}, !.success = "stay"]

ReviewPanel ==
    [Form("ReviewPanel", <<"useReviewDocument">>) EXCEPT
        !.persists = TRUE, !.follows = {"useDocuments"}, !.success = "stay"]

RequestPanel ==
    [Form("RequestPanel", <<"useRequestApproval">>) EXCEPT
        !.persists = TRUE, !.follows = {"useDocuments"}, !.success = "stay"]

\* Its loading flag is that of an update, so the button stays enabled; it closes whether
\* the document was archived or not.
ArchiveConfirm ==
    [Confirm("ArchiveConfirm", <<"useArchiveDocument">>) EXCEPT
        !.lock = FALSE, !.failure = "close"]

\* useDocumentActions, in the drawer and in the inspector of the graph.
DocumentActions ==
    {DocumentFields, ReviewPanel, RequestPanel, ArchiveConfirm,
     Control("RestoreDocument", <<"useRestoreDocument">>),
     Control("UploadVersion", <<"useUploadVersion">>)}

ApproverPicker == {"useDocVaultApprovers"}

DocVaultPage ==
    Page("DocVaultPage", {"useBuckets", "useDocuments"} \cup ApproverPicker,
         {UploadDocumentModal} \cup BucketRail \cup DocumentActions)

DocVaultGraphPage ==
    Page("DocVaultGraphPage", {"useBuckets", "useDocuments"} \cup ApproverPicker, DocumentActions)

docvaultPages == {DocVaultPage, DocVaultGraphPage}
-----------------------------------------------------------------------------
(* Weaknesses.                                                             *)

\* Whom a bucket may be restricted to, and so who may approve in it.
docvaultOverlooked == {<<"useUpdateBucketAccess", "useDocVaultApprovers">>}

docvaultWeak ==
    [doubled |-> {"CreateBucket", "RenameBucket", "ArchiveConfirm"},
     reseeded |-> {"DocumentFields", "ReviewPanel", "RequestPanel"},
     closed |-> {"UploadDocumentModal", "BucketAccessModal", "CreateBucket", "RenameBucket"},
     cleared |-> {}, overtaken |-> {}]
=============================================================================
