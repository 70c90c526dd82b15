------------------------------ MODULE OfficeClient ------------------------------
(***************************************************************************)
(* The catalog of the rest of the company's client: compliance records,    *)
(* users and settings, KRAs, sales, custom fields and notifications.       *)
(***************************************************************************)
EXTENDS ClientCatalog

\* One factory for the two domains, of which one is shown at a time.  Archiving a record
\* archives its document; records are made for the documents of the domain's bucket that
\* have none.
complianceApi ==
    [listDocumentTypes |-> {"documentTypes"}, createDocumentType |-> {"documentTypes"},
     updateDocumentType |-> {"documentTypes"}, deleteDocumentType |-> {"documentTypes"},
     listMeetingRecords |-> {"records"}, createMeetingRecord |-> {"records"},
     updateMeetingRecord |-> {"records"}, archiveMeetingRecord |-> {"records", "documents"},
     unarchiveMeetingRecord |-> {"records", "documents"},
     listUnsyncedDocuments |-> {"records", "documents"}, syncFromDocVault |-> {"records"}]

\* A user's picture and password are stamped on the user's row.
usersApi ==
    [list |-> {"users"}, myReports |-> {"users"}, create |-> {"users"}, update |-> {"users"},
     deactivate |-> {"users"}, reactivate |-> {"users"}, remove |-> {"users"},
     changePassword |-> {"users"}, uploadAvatar |-> {"users"}]

salesApi ==
    [list |-> {"sales"}, aggregate |-> {"sales"}, create |-> {"sales"}, update |-> {"sales"},
     import |-> {"sales"}]

kraApi == [list |-> {"kras"}, create |-> {"kras"}, update |-> {"kras"}]

customFieldsApi ==
    [list |-> {"customFields"}, create |-> {"customFields"}, update |-> {"customFields"},
     deactivate |-> {"customFields"}, reactivate |-> {"customFields"}]

notificationsApi == [list |-> {"notifications"}, markRead |-> {"notifications"}]

companySmtpApi == [get |-> {"smtp"}, update |-> {"smtp"}, reset |-> {"smtp"}]

companyProfileApi == [get |-> {"profile"}, update |-> {"profile"}, uploadLogo |-> {"profile"}]

complianceQueries ==
    [useDocumentTypes |->
        Query(<<"compliance", "domain", "types">>, complianceApi.listDocumentTypes),
     useMeetingRecords |->
        Query(<<"compliance", "domain", "records", "f">>, complianceApi.listMeetingRecords),
     useUnsyncedDocuments |->
        Query(<<"compliance", "domain", "unsynced">>, complianceApi.listUnsyncedDocuments)]

\* useInvalidateCompliance: everything of the domain.
InvalidateCompliance(writes) == Mutation(writes, {<<"compliance", "domain">>})

complianceMutations ==
    [useCreateDocumentType |-> InvalidateCompliance(complianceApi.createDocumentType),
     useUpdateDocumentType |-> InvalidateCompliance(complianceApi.updateDocumentType),
     useDeleteDocumentType |-> InvalidateCompliance(complianceApi.deleteDocumentType),
     useCreateMeetingRecord |-> InvalidateCompliance(complianceApi.createMeetingRecord),
     useUpdateMeetingRecord |-> InvalidateCompliance(complianceApi.updateMeetingRecord),
     useArchiveMeetingRecord |-> InvalidateCompliance(complianceApi.archiveMeetingRecord),
     useUnarchiveMeetingRecord |-> InvalidateCompliance(complianceApi.unarchiveMeetingRecord),
     useSyncFromDocVault |-> InvalidateCompliance(complianceApi.syncFromDocVault)]

\* The two dialogs ask for their bucket (getBucket, resolveBucket), which creates it when it
\* is first asked for, and upload their file into it with DocVault's endpoint, and tell no
\* query of either: one call here, as what befalls the first is no different from what
\* befalls the second.
uploadComplianceFile == [uploadComplianceFile |-> Mutation({"buckets", "documents"}, {})]

userMutations ==
    [useChangePassword |->
        [Mutation(usersApi.changePassword, {<<"users", "me">>}) EXCEPT !.awaits = FALSE],
     useUploadAvatar |->
        [Mutation(usersApi.uploadAvatar, {<<"users">>, <<"auth">>}) EXCEPT
            !.puts = {<<"users", "me">>}, !.awaits = FALSE]]

\* The directory has its own query and mutations.
directoryQueries == [users |-> Query(<<"users">>, usersApi.list)]

directoryMutations ==
    LET Users(writes) == Mutation(writes, {<<"users">>})
    IN  [createUser |-> Users(usersApi.create), updateUser |-> Users(usersApi.update),
         deleteUser |-> Users(usersApi.remove), deactivateUser |-> Users(usersApi.deactivate),
         reactivateUser |-> Users(usersApi.reactivate)]

salesQueries ==
    [useSales |-> Query(<<"sales", "list", "f">>, salesApi.list),
     useSalesAggregate |-> Query(<<"sales", "aggregate">>, salesApi.aggregate)]

\* The file to import is inspected, which writes nothing.
salesMutations ==
    LET InvalidateSales(writes) == Mutation(writes, {<<"sales">>})
    IN  [useCreateSale |-> InvalidateSales(salesApi.create),
         useUpdateSale |-> InvalidateSales(salesApi.update),
         useImportSales |-> InvalidateSales(salesApi.import)]

kraQueries == [useKras |-> Query(<<"kra", "list", "f">>, kraApi.list)]

kraMutations ==
    LET InvalidateKras(writes) == Mutation(writes, {<<"kra">>})
    IN  [useCreateKra |-> InvalidateKras(kraApi.create),
         useUpdateKra |-> InvalidateKras(kraApi.update)]

\* An administrator's or a manager's list of names, one query of its own for each page.
nameQueries ==
    [salesDirectory |-> Query(<<"sales", "directory", "role">>, usersApi.list),
     kraDirectory |-> Query(<<"kra", "directory", "role">>, usersApi.list)]

customFieldQueries ==
    [useCustomFields |-> Query(<<"custom-fields", "module", "f">>, customFieldsApi.list)]

customFieldMutations ==
    LET InvalidateCustomFields(writes) == Mutation(writes, {<<"custom-fields", "module">>})
    IN  [useCreateCustomField |-> InvalidateCustomFields(customFieldsApi.create),
         useUpdateCustomField |-> InvalidateCustomFields(customFieldsApi.update),
         useDeactivateCustomField |-> InvalidateCustomFields(customFieldsApi.deactivate),
         useReactivateCustomField |-> InvalidateCustomFields(customFieldsApi.reactivate)]

notificationQueries ==
    [useNotifications |->
        [Query(<<"notifications">>, notificationsApi.list) EXCEPT !.polls = TRUE]]

notificationMutations ==
    [useMarkNotificationRead |->
        [Mutation(notificationsApi.markRead, {<<"notifications">>}) EXCEPT !.awaits = FALSE]]

smtpQueries == [useCompanySmtp |-> Query(<<"companySmtp">>, companySmtpApi.get)]

\* Verifying a configuration writes nothing.
smtpMutations ==
    [useUpdateCompanySmtp |-> Mutation(companySmtpApi.update, {<<"companySmtp">>}),
     useResetCompanySmtp |-> Mutation(companySmtpApi.reset, {<<"companySmtp">>})]

profileQueries == [useCompanyProfile |-> Query(<<"company", "profile">>, companyProfileApi.get)]

\* Both put the profile they are answered with into the cache.
profileMutations ==
    LET Puts(writes) == [Mutation(writes, {}) EXCEPT !.puts = {<<"company", "profile">>}]
    IN  [useUpdateCompanyProfile |-> Puts(companyProfileApi.update),
         useUploadLogo |-> Puts(companyProfileApi.uploadLogo)]

officeQueries ==
    complianceQueries @@ directoryQueries @@ salesQueries @@ kraQueries @@ nameQueries
        @@ customFieldQueries @@ notificationQueries @@ smtpQueries @@ profileQueries

officeMutations ==
    complianceMutations @@ uploadComplianceFile @@ userMutations @@ directoryMutations
        @@ salesMutations @@ kraMutations @@ customFieldMutations @@ notificationMutations
        @@ smtpMutations @@ profileMutations
-----------------------------------------------------------------------------
(* Forms and pages.                                                        *)

\* Always mounted and seeded when it is opened.  The flag that disables its button is one
\* for all that it sends: opening it takes it off, and so does the end of a submission
\* that was dismissed while another is under way, which is no lock.  A new record's file is
\* uploaded first, each time the record is sent.
RecordModal ==
    LET Saving(name, calls) == [Form(name, calls) EXCEPT !.lock = FALSE]
    IN  {Saving("CreateRecord", <<"useCreateMeetingRecord">>),
         Saving("CreateRecordWithFile", <<"uploadComplianceFile", "useCreateMeetingRecord">>),
         Saving("EditRecord", <<"useUpdateMeetingRecord">>)}

\* Its dialog closes whether the record was archived or not; a record can be restored again
\* while it is being restored.
RecordsTab ==
    Page("RecordsTab", {"useMeetingRecords", "useDocumentTypes", "useUnsyncedDocuments"},
         RecordModal \cup
         {Control("SyncFromDocVault", <<"useSyncFromDocVault">>),
          [Confirm("ArchiveRecord", <<"useArchiveMeetingRecord">>) EXCEPT !.failure = "close"],
          [Control("UnarchiveRecord", <<"useUnarchiveMeetingRecord">>) EXCEPT !.lock = FALSE]})

\* As RecordModal, for the template of a type.
DocumentTypeModal ==
    LET Saving(name, calls) == [Form(name, calls) EXCEPT !.lock = FALSE]
        WithTemplate(name, call) == Saving(name, <<"uploadComplianceFile", call>>)
    IN  {Saving("CreateType", <<"useCreateDocumentType">>),
         WithTemplate("CreateTypeWithTemplate", "useCreateDocumentType"),
         Saving("EditType", <<"useUpdateDocumentType">>),
         WithTemplate("EditTypeWithTemplate", "useUpdateDocumentType")}

\* window.confirm asks before a type is deleted.
DocumentTypesTab ==
    Page("DocumentTypesTab", {"useDocumentTypes"},
         DocumentTypeModal \cup
         {[Control("DeleteType", <<"useDeleteDocumentType">>) EXCEPT !.lock = FALSE]})

\* One dialog, seeded from the row that was clicked.
UserModal ==
    LET Saving(name, calls) == [Form(name, calls) EXCEPT !.persists = TRUE]
    IN  {Saving("CreateUser", <<"createUser">>), Saving("EditUser", <<"updateUser">>),
         Confirm("DeleteUser", <<"deleteUser">>), Confirm("DeactivateUser", <<"deactivateUser">>),
         Confirm("ReactivateUser", <<"reactivateUser">>)}

UsersDirectory == Page("UsersDirectory", {"users"}, UserModal)

\* It closes whether the picture was saved or not, and has one flag as RecordModal does.
AvatarCropperModal ==
    [Form("AvatarCropperModal", <<"useUploadAvatar">>) EXCEPT
        !.lock = FALSE, !.failure = "close"]

\* The inputs of the password are disabled while it is changed.
ChangePassword ==
    [Inline("ChangePassword", <<"useChangePassword">>) EXCEPT !.freezes = TRUE]

UserSettingsPage == Page("UserSettingsPage", {}, {AvatarCropperModal, ChangePassword})

\* Seeded when it is mounted; the logo can be chosen again while one is uploaded.
CompanyProfileForm ==
    {[Inline("CompanyProfileForm", <<"useUpdateCompanyProfile">>) EXCEPT !.success = "stay"],
     [Control("UploadLogo", <<"useUploadLogo">>) EXCEPT !.lock = FALSE]}

\* Seeded again whenever the configuration changes; saving it empties the password.
SmtpSettings ==
    [Inline("SmtpSettings", <<"useUpdateCompanySmtp">>) EXCEPT !.follows = {"useCompanySmtp"}]

\* The dialog that resets it is told of no loading.
CompanySmtpCard ==
    {SmtpSettings, [Confirm("ResetSmtp", <<"useResetCompanySmtp">>) EXCEPT !.lock = FALSE]}

CompanyProfilePage ==
    Page("CompanyProfilePage", {"useCompanyProfile", "useCompanySmtp"},
         CompanyProfileForm \cup CompanySmtpCard)

\* Always mounted.  Its fields follow the number of cycles, which the list of KRAs gives.
KraDrawer ==
    LET Drawer(name, calls) ==
            [Form(name, calls) EXCEPT !.persists = TRUE, !.follows = {"useKras"}]
    IN  {Drawer("CreateKra", <<"useCreateKra">>), Drawer("UpdateKra", <<"useUpdateKra">>),
         [Drawer("ApproveKra", <<"useUpdateKra">>) EXCEPT !.types = FALSE]}

KraPage == Page("KraPage", {"useKras", "kraDirectory"}, KraDrawer)

\* Always mounted.  Its fields follow the custom fields, which it does not write.
SalesDrawer ==
    LET Drawer(name, calls) ==
            [Form(name, calls) EXCEPT !.persists = TRUE, !.follows = {"useCustomFields"}]
    IN  {Drawer("CreateSale", <<"useCreateSale">>), Drawer("UpdateSale", <<"useUpdateSale">>)}

\* Always mounted and emptied when it is dismissed; the result replaces what was filled in.
ImportSalesModal ==
    [Form("ImportSalesModal", <<"useImportSales">>) EXCEPT
        !.persists = TRUE, !.success = "clear"]

SalesPage ==
    Page("SalesPage", {"useSales", "useSalesAggregate", "useCustomFields", "salesDirectory"},
         {ImportSalesModal} \cup SalesDrawer)

CreateFieldModal ==
    [Form("CreateFieldModal", <<"useCreateCustomField">>) EXCEPT !.persists = TRUE]

EditFieldModal ==
    [Form("EditFieldModal", <<"useUpdateCustomField">>) EXCEPT !.persists = TRUE]

\* A field can be reactivated again while it is being reactivated.
CustomFieldsPage ==
    Page("CustomFieldsPage", {"useCustomFields"},
         {CreateFieldModal, EditFieldModal,
          Confirm("DeactivateField", <<"useDeactivateCustomField">>),
          [Control("ReactivateField", <<"useReactivateCustomField">>) EXCEPT !.lock = FALSE]})

\* Opening a notification's document marks it as read, whatever is being marked.
NotificationsPage ==
    LET Mark(name) ==
            [Control(name, <<"useMarkNotificationRead">>) EXCEPT !.how = "callback"]
    IN  Page("NotificationsPage", {"useNotifications"},
             {Mark("MarkRead"), [Mark("OpenDocument") EXCEPT !.lock = FALSE]})

Dashboard == Page("Dashboard", {"usePendingApprovals"}, {})

officePages ==
    {RecordsTab, DocumentTypesTab, UsersDirectory, UserSettingsPage, CompanyProfilePage, KraPage,
     SalesPage, CustomFieldsPage, NotificationsPage, Dashboard}
-----------------------------------------------------------------------------
(* Weaknesses.                                                             *)

\* Names and approvers are read under the keys of other areas; documents are written by
\* compliance and read by it, and so are buckets; one's password is stamped on a row of the directory.
officeOverlooked ==
    ((DOMAIN directoryMutations) \X {"salesDirectory", "kraDirectory", "useDocVaultApprovers"})
    \cup ({"useUploadAvatar"} \X {"salesDirectory", "kraDirectory", "useDocVaultApprovers"})
    \cup ({"useChangePassword"}
            \X {"users", "salesDirectory", "kraDirectory", "useDocVaultApprovers"})
    \cup ({"uploadComplianceFile", "useArchiveMeetingRecord", "useUnarchiveMeetingRecord"}
            \X {"useDocuments", "usePendingApprovals"})
    \cup {<<"uploadComplianceFile", "useBuckets">>}
    \cup ({"useUploadDocument", "useUploadVersion", "useUpdateDocument", "useReviewDocument",
           "useRequestApproval", "useArchiveDocument", "useRestoreDocument",
           "useUploadAssetDocument", "useArchiveAssetReport", "useGenerateReport",
           "useArchiveEngagementReport", "useRespondToRequirement", "useAddQueryMessage",
           "uploadComplianceFile"}
            \X {"useUnsyncedDocuments"})

officeWeak ==
    [doubled |-> {"CreateRecord", "CreateRecordWithFile", "EditRecord", "CreateType",
                  "CreateTypeWithTemplate", "EditType", "EditTypeWithTemplate",
                  "UnarchiveRecord", "DeleteType", "AvatarCropperModal", "UploadLogo",
                  "ResetSmtp", "ReactivateField", "OpenDocument"},
     reseeded |-> {"CreateKra", "UpdateKra", "SmtpSettings"},
     closed |-> {"CreateRecord", "CreateRecordWithFile", "EditRecord", "CreateType",
                 "CreateTypeWithTemplate", "EditType", "EditTypeWithTemplate", "CreateUser",
                 "EditUser", "AvatarCropperModal", "CreateKra", "UpdateKra", "CreateSale",
                 "UpdateSale", "CreateFieldModal", "EditFieldModal"},
     cleared |-> {"SmtpSettings", "ImportSalesModal"},
     overtaken |-> {"CompanyProfileForm", "UploadLogo"}]
=============================================================================
