----------------------------- MODULE AuditorClient -----------------------------
(***************************************************************************)
(* The catalog of AuditEase on the auditor's side, whose sign-in and cache *)
(* are its own: the company's writes are others' writes to it.             *)
(***************************************************************************)
EXTENDS ClientCatalog

\* The names are those of AuditClient; the prefix tells the endpoints' own writes apart.
auditorEngagementsApi ==
    [listEngagements |-> {"auditor engagements"},
     acceptEngagement |-> {"auditor engagements"},
     getTrialBalance |-> {"auditor accounts", "auditor adjustments"},
     listEntries |-> {"auditor entries"},
     createEntry |-> {"auditor entries"}, deleteEntry |-> {"auditor entries"},
     listRequirements |-> {"auditor requirements", "auditor linkedQueries"},
     createRequirement |-> {"auditor requirements"},
     updateRequirement |-> {"auditor requirements"},
     deleteRequirement |-> {"auditor requirements"},
     closeRequirement |-> {"auditor requirements"},
     reopenRequirement |-> {"auditor requirements"},
     bulkImportRequirements |-> {"auditor requirements"},
     listQueries |-> {"auditor queries"},
     createQuery |-> {"auditor queries", "auditor linkedQueries"},
     addQueryMessage |-> {"auditor queries"}, closeQuery |-> {"auditor queries"}]

auditor(name) == <<"auditor", name>>

auditorQueries ==
    [useAuditorEngagements |->
        Query(auditor("engagements"), auditorEngagementsApi.listEngagements),
     useAuditorTrialBalance |->
        Query(auditor("trial-balance-view") \o <<"v2", "id">>,
            auditorEngagementsApi.getTrialBalance),
     useAuditorListEntries |->
        Query(auditor("entries") \o <<"id">>, auditorEngagementsApi.listEntries),
     useAuditorListRequirements |->
        Query(auditor("requirements") \o <<"id">>, auditorEngagementsApi.listRequirements),
     useAuditorListQueries |->
        [Query(auditor("queries") \o <<"id">>, auditorEngagementsApi.listQueries)
            EXCEPT !.polls = TRUE]]

auditorEntryMutations ==
    [useAcceptEngagement |->
        Mutation(auditorEngagementsApi.acceptEngagement, {auditor("engagements")}),
     useAuditorCreateEntry |->
        Mutation(auditorEngagementsApi.createEntry, {auditor("entries") \o <<"id">>}),
     useAuditorDeleteEntry |->
        Mutation(auditorEngagementsApi.deleteEntry, {auditor("entries")})]

\* Closing and reopening do not return the invalidation.
auditorRequirementMutations ==
    LET requirements == auditor("requirements") \o <<"id">>
        Unawaited(writes) ==
            [Mutation(writes, {requirements, <<"company", "activity">>}) EXCEPT !.awaits = FALSE]
    IN  [useAuditorCreateRequirement |->
            Mutation(auditorEngagementsApi.createRequirement, {requirements}),
         useAuditorUpdateRequirement |->
            Mutation(auditorEngagementsApi.updateRequirement, {requirements}),
         useAuditorDeleteRequirement |->
            Mutation(auditorEngagementsApi.deleteRequirement, {requirements}),
         useAuditorCloseRequirement |-> Unawaited(auditorEngagementsApi.closeRequirement),
         useAuditorReopenRequirement |-> Unawaited(auditorEngagementsApi.reopenRequirement),
         useAuditorBulkImportRequirements |->
            Mutation(auditorEngagementsApi.bulkImportRequirements, {requirements})]

auditorQueryMutations ==
    [useAuditorCreateQuery |->
        Mutation(auditorEngagementsApi.createQuery, {auditor("queries") \o <<"id">>}),
     useAuditorAddQueryMessage |->
        Mutation(auditorEngagementsApi.addQueryMessage, {auditor("queries") \o <<"id">>}),
     useAuditorCloseQuery |->
        Mutation(auditorEngagementsApi.closeQuery, {auditor("queries") \o <<"id">>})]

auditorMutationHooks ==
    auditorEntryMutations @@ auditorRequirementMutations @@ auditorQueryMutations
-----------------------------------------------------------------------------
(* Forms and pages.                                                        *)

AuditorEngagements ==
    Page("AuditorEngagements", {"useAuditorEngagements"},
         {Control("AcceptEngagement", <<"useAcceptEngagement">>)})

\* What every tab of an engagement shows.
AuditorEngagementWorkspace(name, forms) ==
    Page(name,
         {"useAuditorEngagements", "useAuditorTrialBalance", "useAuditorListRequirements",
          "useAuditorListQueries", "useAuditorListEntries"}, forms)

\* Always mounted; what was typed is kept when it is dismissed.
NewEntryDrawer ==
    [Form("NewEntryDrawer", <<"useAuditorCreateEntry">>) EXCEPT !.persists = TRUE]

AuditorEntriesTab ==
    AuditorEngagementWorkspace("AuditorEntriesTab",
        {NewEntryDrawer, Control("DeleteEntry", <<"useAuditorDeleteEntry">>)})

\* Mounted while they are open; they create a requirement or change one.
NewRequirementModal == Form("NewRequirementModal", <<"useAuditorCreateRequirement">>)

EditRequirementModal == Form("EditRequirementModal", <<"useAuditorUpdateRequirement">>)

\* The file that is chosen is sent at once, and a spinner takes the place of the input.
BulkImportModal ==
    [Form("BulkImportModal", <<"useAuditorBulkImportRequirements">>) EXCEPT !.types = FALSE]

\* The dialog of a requirement's query, mounted while it is open.  Its inputs are disabled
\* while it is sent.
InitiateQueryModal ==
    [Form("InitiateQueryModal", <<"useAuditorCreateQuery">>) EXCEPT !.freezes = TRUE]

\* Its buttons are told of no loading.
RequirementCard ==
    {[Control("CloseRequirement", <<"useAuditorCloseRequirement">>) EXCEPT !.lock = FALSE],
     [Control("ReopenRequirement", <<"useAuditorReopenRequirement">>) EXCEPT !.lock = FALSE]}

\* The confirmation of a deletion is not told that it is being deleted and closes either way.
AuditorRequirementsTab ==
    AuditorEngagementWorkspace("RequirementsTab",
        {NewRequirementModal, EditRequirementModal, BulkImportModal, InitiateQueryModal,
         [Confirm("DeleteRequirement", <<"useAuditorDeleteRequirement">>) EXCEPT
            !.lock = FALSE, !.failure = "close"]} \cup RequirementCard)

\* The inputs are disabled while they are sent.
AuditorQueriesTab ==
    AuditorEngagementWorkspace("QueriesTab",
        {[Inline("OpenQuery", <<"useAuditorCreateQuery">>) EXCEPT !.freezes = TRUE],
         [Inline("AuditorReply", <<"useAuditorAddQueryMessage">>) EXCEPT !.freezes = TRUE],
         Control("CloseQuery", <<"useAuditorCloseQuery">>)})

auditorPages ==
    {AuditorEngagements, AuditorEntriesTab, AuditorRequirementsTab, AuditorQueriesTab}
-----------------------------------------------------------------------------
(* Weaknesses.                                                             *)

\* A requirement shows how many queries are linked to it.
auditorOverlooked == {<<"useAuditorCreateQuery", "useAuditorListRequirements">>}

auditorWeak ==
    [doubled |-> {"DeleteRequirement", "CloseRequirement", "ReopenRequirement"},
     reseeded |-> {},
     closed |-> {"NewEntryDrawer", "NewRequirementModal", "EditRequirementModal",
                 "InitiateQueryModal"},
     cleared |-> {}, overtaken |-> {}]
=============================================================================
