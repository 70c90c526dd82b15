------------------------------ MODULE AuditClient ------------------------------
(***************************************************************************)
(* The catalog of AuditEase on the company's side.  What becomes of an     *)
(* engagement and of its auditors is in Engagement.                        *)
(***************************************************************************)
EXTENDS ClientCatalog

\* The list of engagements, their fields (status), grants (auditors and pending invites),
\* areas (what an auditor may do), the accounts of a trial balance, their mappings to
\* ledger groups, audit entries, the adjustments that are their approved ones, requirements
\* and their submissions, queries, which of them are linked to requirements, and messages.
auditeaseCompanyApi ==
    [listEngagements |-> {"engagementList", "engagements", "grants"},
     getEngagement |-> {"engagements", "grants"},
     createEngagement |-> {"engagementList"}, deleteEngagement |-> {"engagementList"},
     closeEngagement |-> {"engagements"}, inviteAuditor |-> {"engagements", "grants"},
     listAuditors |-> {"grants", "areas"}, updateAuditorAccess |-> {"areas"},
     removeAuditor |-> {"grants"}, cancelPendingInvite |-> {"grants"},
     getTrialBalance |-> {"accounts", "mappings", "adjustments"},
     importTrialBalance |-> {"accounts", "mappings"}, setSignConvention |-> {"accounts"},
     listLedgerGroups |-> {"groups"}, createLedgerGroup |-> {"groups"},
     renameLedgerGroup |-> {"groups"}, deleteLedgerGroup |-> {"groups"},
     mapLedger |-> {"mappings"}, bulkMapLedgers |-> {"mappings"},
     unmapLedgers |-> {"mappings"}, importMappings |-> {"mappings"},
     listMappingSources |-> {"engagementList"},
     listRequirements |-> {"requirements", "submissions", "linkedQueries"},
     respondRequirement |-> {"submissions", "documents"},
     listQueries |-> {"queries", "messages"}, addQueryMessage |-> {"messages", "documents"},
     listEntries |-> {"entries"}, approveRejectEntry |-> {"entries", "adjustments"},
     previewReport |-> {"accounts", "mappings", "adjustments"},
     previewReportHtml |-> {"accounts", "mappings", "adjustments"},
     generateReport |-> {"documents"}, archiveReport |-> {"documents"}]

auditease(name) == <<"auditease", name>>

engagementsKey == auditease("engagements")

trialBalanceKey == auditease("trial-balance-view") \o <<"v2", "id">>

auditorsKey == engagementsKey \o <<"id", "auditors">>

engagementQueries ==
    [useEngagements |-> Query(engagementsKey, auditeaseCompanyApi.listEngagements),
     useEngagement |->
        Query(auditease("engagement") \o <<"id">>, auditeaseCompanyApi.getEngagement),
     useEngagementAuditors |-> Query(auditorsKey, auditeaseCompanyApi.listAuditors),
     useAuditorActivity |-> Query(auditorsKey \o <<"id", "activity">>, {})]

\* useInvalidateEngagements, which returns nothing.
InvalidateEngagements(writes, keys) ==
    [Mutation(writes, {engagementsKey} \cup keys) EXCEPT !.awaits = FALSE]

engagementMutations ==
    [useCreateEngagement |-> InvalidateEngagements(auditeaseCompanyApi.createEngagement, {}),
     useCloseEngagement |->
        InvalidateEngagements(auditeaseCompanyApi.closeEngagement,
            {auditease("engagement") \o <<"id">>}),
     useDeleteEngagement |-> InvalidateEngagements(auditeaseCompanyApi.deleteEngagement, {}),
     useInviteAuditor |->
        InvalidateEngagements(auditeaseCompanyApi.inviteAuditor,
            {auditease("engagement") \o <<"id">>})]

\* They invalidate what is below the engagements' key, which the list and the engagement
\* itself are not.
auditorMutations ==
    LET Below(writes, key) == [Mutation(writes, {key}) EXCEPT !.awaits = FALSE]
        engagementKey == engagementsKey \o <<"id">>
    IN  [useInviteEngagementAuditor |-> Below(auditeaseCompanyApi.inviteAuditor, engagementKey),
         useUpdateAuditorAccess |-> Below(auditeaseCompanyApi.updateAuditorAccess, auditorsKey),
         useRemoveEngagementAuditor |-> Below(auditeaseCompanyApi.removeAuditor, engagementKey),
         useCancelPendingInvite |-> Below(auditeaseCompanyApi.cancelPendingInvite, engagementKey)]

\* The hooks of the accounts and of the totals share the key and the fetch.
trialBalanceQueries ==
    [useCompanyTrialBalance |-> Query(trialBalanceKey, auditeaseCompanyApi.getTrialBalance),
     useLedgerGroups |-> Query(auditease("ledger-groups"), auditeaseCompanyApi.listLedgerGroups),
     useMappingSources |->
        Query(auditease("mapping-sources") \o <<"id">>, auditeaseCompanyApi.listMappingSources)]

trialBalanceMutations ==
    [useSetSignConvention |->
        [Mutation(auditeaseCompanyApi.setSignConvention, {}) EXCEPT !.puts = {trialBalanceKey}],
     useImportTrialBalance |-> Mutation(auditeaseCompanyApi.importTrialBalance, {trialBalanceKey}),
     useInspectTrialBalance |-> Mutation({}, {}),
     usePreviewTrialBalance |-> Mutation({}, {})]

ledgerGroupMutations ==
    [useCreateLedgerGroup |->
        Mutation(auditeaseCompanyApi.createLedgerGroup, {auditease("ledger-groups")}),
     useRenameLedgerGroup |->
        Mutation(auditeaseCompanyApi.renameLedgerGroup, {auditease("ledger-groups")}),
     useDeleteLedgerGroup |->
        Mutation(auditeaseCompanyApi.deleteLedgerGroup, {auditease("ledger-groups")})]

mappingMutations ==
    [useMapLedger |-> Mutation(auditeaseCompanyApi.mapLedger, {trialBalanceKey}),
     useBulkMapLedgers |-> Mutation(auditeaseCompanyApi.bulkMapLedgers, {trialBalanceKey}),
     useUnmapLedgers |-> Mutation(auditeaseCompanyApi.unmapLedgers, {trialBalanceKey}),
     useImportMappings |-> Mutation(auditeaseCompanyApi.importMappings, {trialBalanceKey})]

fieldworkQueries ==
    [useListRequirements |->
        Query(auditease("requirements") \o <<"id">>, auditeaseCompanyApi.listRequirements),
     useListQueries |->
        [Query(auditease("queries") \o <<"id">>, auditeaseCompanyApi.listQueries)
            EXCEPT !.polls = TRUE],
     useListEntries |-> Query(auditease("entries") \o <<"id">>, auditeaseCompanyApi.listEntries)]

\* No query has the key <<"company", "activity">>.
fieldworkMutations ==
    [useRespondToRequirement |->
        [Mutation(auditeaseCompanyApi.respondRequirement,
            {auditease("requirements") \o <<"id">>, <<"company", "activity">>})
            EXCEPT !.awaits = FALSE],
     useAddQueryMessage |->
        Mutation(auditeaseCompanyApi.addQueryMessage, {auditease("queries") \o <<"id">>}),
     useApproveRejectEntry |->
        [Mutation(auditeaseCompanyApi.approveRejectEntry,
            {auditease("entries"), auditease("trial-balance-view") \o <<"v2">>,
             auditease("report-preview")}) EXCEPT !.awaits = FALSE]]

reportQueries ==
    [usePreviewReport |->
        Query(auditease("report-preview") \o <<"id">>, auditeaseCompanyApi.previewReport),
     usePreviewReportHtml |->
        Query(auditease("report-preview-html") \o <<"id", "f">>,
            auditeaseCompanyApi.previewReportHtml)]

reportMutations ==
    [useGenerateReport |->
        [Mutation(auditeaseCompanyApi.generateReport, {<<"docvault", "documents">>})
            EXCEPT !.awaits = FALSE],
     useArchiveEngagementReport |->
        [Mutation(auditeaseCompanyApi.archiveReport, {<<"docvault", "documents">>})
            EXCEPT !.awaits = FALSE]]

auditeaseQueries ==
    engagementQueries @@ trialBalanceQueries @@ fieldworkQueries @@ reportQueries

auditeaseMutations ==
    engagementMutations @@ auditorMutations @@ trialBalanceMutations @@ ledgerGroupMutations
        @@ mappingMutations @@ fieldworkMutations @@ reportMutations
-----------------------------------------------------------------------------
(* Forms and pages.                                                        *)

\* Enter sends the period whether or not it is being sent; it is kept when dismissed.
NewEngagement ==
    [Form("NewEngagement", <<"useCreateEngagement">>) EXCEPT !.lock = FALSE, !.persists = TRUE]

CloseEngagement == Confirm("CloseEngagement", <<"useCloseEngagement">>)

\* A draft or closed engagement; one with data asks for its period to be typed.
DeleteEngagement ==
    [Form("DeleteEngagement", <<"useDeleteEngagement">>) EXCEPT !.persists = TRUE]

\* Mounted while it is open.  Enter sends the address whether or not it is being sent.
InviteAuditorModal ==
    [Form("InviteAuditorModal", <<"useInviteAuditor">>) EXCEPT !.lock = FALSE]

EngagementsPage ==
    Page("EngagementsPage", {"useEngagements"},
         {NewEngagement, CloseEngagement, DeleteEngagement, InviteAuditorModal})

\* Seeded from the row that was clicked, which does not follow the list.
EditAuditorAccessModal ==
    [Form("EditAuditorAccessModal", <<"useUpdateAuditorAccess">>) EXCEPT !.persists = TRUE]

\* An invitation is sent again with the areas it has.
AuditorsTab ==
    Page("AuditorsTab", {"useEngagementAuditors"},
         {EditAuditorAccessModal,
          Confirm("RemoveAuditor", <<"useRemoveEngagementAuditor">>),
          Confirm("CancelInvite", <<"useCancelPendingInvite">>),
          Control("ResendInvite", <<"useInviteEngagementAuditor">>)})

\* Mounted while it is open: the file is inspected and the mapped columns are previewed,
\* which writes nothing, the import may ask for a confirmation, and its result stays on
\* the screen.
ImportTrialBalanceModal ==
    [Form("ImportTrialBalanceModal", <<"useImportTrialBalance">>) EXCEPT !.success = "stay"]

\* Its two buttons set one convention or the other with mutate.
SetSignConvention ==
    [Control("SetSignConvention", <<"useSetSignConvention">>) EXCEPT !.how = "callback"]

\* The select shows the mapping the server has, so the choice can be made again meanwhile.
GroupMappingCell ==
    [Control("GroupMappingCell", <<"useMapLedger">>) EXCEPT !.lock = FALSE, !.how = "callback"]

\* The cell's dialog: it closes once the group exists; the mapping to it is sent without
\* waiting and its failure is not shown.  What was typed is kept when it is dismissed.
CreateSubgroup ==
    [Form("CreateSubgroup", <<"useCreateLedgerGroup">>) EXCEPT !.persists = TRUE]

TrialBalanceTable == {GroupMappingCell, CreateSubgroup}

\* What every tab of an engagement shows, and what its own forms are.
EngagementWorkspace ==
    Page("EngagementWorkspace",
         {"useEngagement", "useCompanyTrialBalance", "useListRequirements", "useListQueries",
          "useListEntries"},
         {CloseEngagement, InviteAuditorModal, ImportTrialBalanceModal, SetSignConvention})

Tab(name, reads, forms) ==
    Page(name, EngagementWorkspace.reads \cup reads, forms)

TrialBalanceTab == Tab("TrialBalanceTab", {"useLedgerGroups"}, TrialBalanceTable)

\* Three selects, of which the last one chosen is the group.  It is seeded again when the
\* groups or the mapping change, and forgets a choice of the first two.
GroupPicker(name, calls) ==
    [Picker(name, calls) EXCEPT !.follows = {"useLedgerGroups", "useCompanyTrialBalance"}]

\* The rows that are selected while the others are mapped are deselected with them.
MappingTab ==
    Tab("MappingTab", {"useLedgerGroups"},
        {GroupPicker("RowMapping", <<"useMapLedger">>),
         [Control("RowUnmap", <<"useUnmapLedgers">>) EXCEPT !.lock = FALSE],
         Inline("BulkMap", <<"useBulkMapLedgers">>),
         Inline("BulkUnmap", <<"useUnmapLedgers">>)})

\* Always mounted; the result stays on the screen.
ImportMappingModal ==
    [Form("ImportMappingModal", <<"useImportMappings">>) EXCEPT
        !.persists = TRUE, !.success = "stay"]

ImportMapping == Tab("ImportMapping", {"useMappingSources"}, {ImportMappingModal})

\* A group is added and renamed by Enter whether or not it is being sent.
GroupTree ==
    Page("GroupTree", {"useLedgerGroups"},
         {[Form("AddGroup", <<"useCreateLedgerGroup">>) EXCEPT
            !.lock = FALSE, !.persists = TRUE],
          [Form("RenameGroup", <<"useRenameLedgerGroup">>) EXCEPT
            !.lock = FALSE, !.persists = TRUE],
          Confirm("DeleteGroup", <<"useDeleteLedgerGroup">>)})

\* The text and the files can be changed while they are sent, and are then cleared.
RespondPanel ==
    [Inline("RespondPanel", <<"useRespondToRequirement">>) EXCEPT
        !.stales = {auditease("requirements") \o <<"id">>, <<"docvault", "documents">>}]

RequirementsTab == Tab("RequirementsTab", DocVaultPickerModal, {RespondPanel})

\* The reply's inputs are disabled while it is sent.
QueriesTab ==
    Tab("QueriesTab", DocVaultPickerModal,
        {[Inline("ReplyToQuery", <<"useAddQueryMessage">>) EXCEPT !.freezes = TRUE]})

AuditEntriesTab ==
    Tab("AuditEntriesTab", {}, {Control("ApproveRejectEntry", <<"useApproveRejectEntry">>)})

\* The button of the whole pack is told of no loading.
ReportForms ==
    {Control("GenerateReport", <<"useGenerateReport">>),
     ReportExportMenu("ArchiveReport", <<"useArchiveEngagementReport">>),
     [Control("ArchivePack", <<"useArchiveEngagementReport">>) EXCEPT !.lock = FALSE]}

ReportsTab == Tab("ReportsTab", {"usePreviewReport", "usePreviewReportHtml"}, ReportForms)

auditeasePages ==
    {EngagementsPage, AuditorsTab, EngagementWorkspace, TrialBalanceTab, MappingTab,
     ImportMapping, GroupTree, RequirementsTab, QueriesTab, AuditEntriesTab, ReportsTab}
-----------------------------------------------------------------------------
(* Weaknesses.                                                             *)

\* The reports are read under other keys than what changes them invalidates; the auditors
\* of an engagement are also in the list and in the engagement; an engagement can become
\* a source of mappings; a reply's files become documents.
auditeaseOverlooked ==
    ({"useInviteEngagementAuditor", "useRemoveEngagementAuditor", "useCancelPendingInvite"}
        \X {"useEngagements", "useEngagement"})
    \cup ({"useCreateEngagement", "useDeleteEngagement"} \X {"useMappingSources"})
    \cup ({"useImportTrialBalance", "useSetSignConvention", "useMapLedger",
           "useBulkMapLedgers", "useUnmapLedgers", "useImportMappings"}
           \X {"usePreviewReport", "usePreviewReportHtml"})
    \cup {<<"useApproveRejectEntry", "usePreviewReportHtml">>}
    \cup ({"useAddQueryMessage"} \X {"useDocuments", "usePendingApprovals"})

auditeaseWeak ==
    [doubled |-> {"NewEngagement", "InviteAuditorModal", "GroupMappingCell", "RowUnmap",
                  "AddGroup", "RenameGroup", "ArchivePack"},
     reseeded |-> {"RowMapping"},
     closed |-> {"NewEngagement", "DeleteEngagement", "InviteAuditorModal",
                 "EditAuditorAccessModal", "CreateSubgroup", "AddGroup", "RenameGroup"},
     cleared |-> {"BulkMap", "BulkUnmap", "RespondPanel"},
     overtaken |-> {"SetSignConvention"}]
=============================================================================
