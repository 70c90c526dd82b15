------------------------------ MODULE AssetClient ------------------------------
(***************************************************************************)
(* The catalog of the asset register, its masters, its depreciation runs   *)
(* and its reports.  What becomes of a run is in DepreciationRuns.         *)
(***************************************************************************)
EXTENDS ClientCatalog

\* The list of assets (which exist), their fields, the acquisitions that units share, and
\* the documents attached to either.
assetsApi ==
    [list |-> {"assetList", "assets"}, get |-> {"assets", "acquisitions", "assetDocuments"},
     quickAdd |-> {"assetList"}, createExisting |-> {"assetList"}, importAssets |-> {"assetList"},
     update |-> {"assets"}, remove |-> {"assetList"}, assignSerials |-> {"assets"},
     transition |-> {"assets"}, dispose |-> {"assets"},
     uploadDocument |-> {"assetDocuments", "documents"},
     attachDocument |-> {"assetDocuments"}, detachDocument |-> {"assetDocuments"}]

acquisitionsApi == [update |-> {"assets", "acquisitions"}]

\* An impact says how many assets and which runs depend on a row.
assetMastersApi ==
    [listCategories |-> {"categories"}, createCategory |-> {"categories"},
     updateCategory |-> {"categories"},
     listItBlocks |-> {"itBlocks"}, createItBlock |-> {"itBlocks"}, updateItBlock |-> {"itBlocks"},
     listSuppliers |-> {"suppliers"}, createSupplier |-> {"suppliers"},
     updateSupplier |-> {"suppliers"},
     listLookups |-> {"lookups"}, createLookup |-> {"lookups"}, updateLookup |-> {"lookups"},
     impactPreview |-> {"assetList", "assets", "runs"}]

\* A run's lines are written with it; another run of the year has lines of its own.
depreciationApi ==
    [listRuns |-> {"runs"}, createRun |-> {"runs"}, finalizeRun |-> {"runs"},
     reopenRun |-> {"runs"}]

financialYearsApi ==
    [list |-> {"years"}, create |-> {"years"}, close |-> {"years"}, reopen |-> {"years"}]

assetReportsApi ==
    [list |-> {}, previewHtml |-> {"assets", "assetList", "runs"}, archive |-> {"documents"}]

assetQueries ==
    [useAssets |-> Query(<<"assets", "list", "f">>, assetsApi.list),
     useAsset |-> Query(<<"assets", "detail", "id">>, assetsApi.get)]

\* useInvalidateAssets: the whole namespace.
InvalidateAssets(writes) == Mutation(writes, {<<"assets">>})

\* An asset that already existed is created without telling the list.
assetMutations ==
    [useQuickAddAsset |-> InvalidateAssets(assetsApi.quickAdd),
     useCreateExistingAsset |-> Mutation(assetsApi.createExisting, {}),
     useImportAssets |-> InvalidateAssets(assetsApi.importAssets),
     useUpdateAsset |-> InvalidateAssets(assetsApi.update),
     useDeleteAsset |-> InvalidateAssets(assetsApi.remove),
     useUpdateAcquisition |-> InvalidateAssets(acquisitionsApi.update),
     useAssignSerials |-> InvalidateAssets(assetsApi.assignSerials),
     useAssetTransition |-> InvalidateAssets(assetsApi.transition)]

assetDocumentMutations ==
    [useUploadAssetDocument |-> InvalidateAssets(assetsApi.uploadDocument),
     useDetachAssetDocument |-> InvalidateAssets(assetsApi.detachDocument),
     useAttachAssetDocument |-> InvalidateAssets(assetsApi.attachDocument)]

\* The disposal dialog calls the endpoint itself.
disposalCall == [dispose |-> Mutation(assetsApi.dispose, {})]

\* Their staleTime is five minutes.
assetMasterQueries ==
    [useAssetCategories |->
        Query(<<"asset-masters", "categories">>, assetMastersApi.listCategories),
     useItBlocks |-> Query(<<"asset-masters", "it-blocks">>, assetMastersApi.listItBlocks),
     useSuppliers |-> Query(<<"asset-masters", "suppliers">>, assetMastersApi.listSuppliers),
     useAssetLookups |-> Query(<<"asset-masters", "lookups", "f">>, assetMastersApi.listLookups),
     useImpactPreview |->
        Query(<<"asset-masters", "impact", "f", "id">>, assetMastersApi.impactPreview)]

\* useInvalidateMasters: the whole namespace.
InvalidateMasters(writes) == Mutation(writes, {<<"asset-masters">>})

assetMasterMutations ==
    [useCreateCategory |-> InvalidateMasters(assetMastersApi.createCategory),
     useUpdateCategory |-> InvalidateMasters(assetMastersApi.updateCategory),
     useCreateSupplier |-> InvalidateMasters(assetMastersApi.createSupplier),
     useUpdateSupplier |-> InvalidateMasters(assetMastersApi.updateSupplier),
     useCreateLookup |-> InvalidateMasters(assetMastersApi.createLookup),
     useUpdateLookup |-> InvalidateMasters(assetMastersApi.updateLookup),
     useCreateItBlock |-> InvalidateMasters(assetMastersApi.createItBlock),
     useUpdateItBlock |-> InvalidateMasters(assetMastersApi.updateItBlock)]

\* The lines of a run are fetched by its id, an explanation at each opening of its drawer.
depreciationQueries ==
    [useDepreciationRuns |-> Query(<<"depreciation", "runs">>, depreciationApi.listRuns)]

depreciationMutations ==
    LET Runs(writes, keys) ==
            [Mutation(writes, {<<"depreciation", "runs">>} \cup keys) EXCEPT !.awaits = FALSE]
    IN  [useCreateDepreciationRun |-> Runs(depreciationApi.createRun, {}),
         useFinalizeDepreciationRun |->
            Runs(depreciationApi.finalizeRun, {<<"depreciation", "run", "id">>}),
         useReopenDepreciationRun |->
            Runs(depreciationApi.reopenRun, {<<"depreciation", "run", "id">>})]

financialYearQueries ==
    [useFinancialYears |-> Query(<<"financial-years">>, financialYearsApi.list)]

financialYearMutations ==
    LET Years(writes) == [Mutation(writes, {<<"financial-years">>}) EXCEPT !.awaits = FALSE]
    IN  [useCreateFinancialYear |-> Years(financialYearsApi.create),
         useCloseFinancialYear |-> Years(financialYearsApi.close),
         useReopenFinancialYear |-> Years(financialYearsApi.reopen)]

\* Nothing invalidates a preview.
assetReportQueries ==
    [useAssetReportsList |-> Query(<<"asset-reports">>, assetReportsApi.list),
     useAssetReportPreview |->
        Query(<<"asset-reports", "preview", "id", "f">>, assetReportsApi.previewHtml)]

assetReportMutations ==
    [useArchiveAssetReport |->
        [Mutation(assetReportsApi.archive, {<<"docvault">>}) EXCEPT !.awaits = FALSE]]

registerQueries ==
    assetQueries @@ assetMasterQueries @@ depreciationQueries @@ financialYearQueries
        @@ assetReportQueries

registerMutations ==
    assetMutations @@ assetDocumentMutations @@ disposalCall @@ assetMasterMutations
        @@ depreciationMutations @@ financialYearMutations @@ assetReportMutations
-----------------------------------------------------------------------------
(* Forms and pages.                                                        *)

\* Always mounted, emptied when it is opened; the new asset's page follows.
QuickAddAssetModal ==
    [Form("QuickAddAssetModal", <<"useQuickAddAsset">>) EXCEPT !.persists = TRUE]

\* They show the categories, and one kind of lookup.
CategoryPicker == {"useAssetCategories"}

LookupSelect == {"useAssetLookups"}

AssetsPage ==
    Page("AssetsPage", {"useAssets", "useSuppliers"} \cup CategoryPicker \cup LookupSelect,
         {QuickAddAssetModal})

\* The page is left for the asset's; the file that is chosen is sent at once.
ExistingAssetForms ==
    {Inline("CreateExistingAsset", <<"useCreateExistingAsset">>),
     Control("ImportAssets", <<"useImportAssets">>)}

ExistingAssetPage ==
    Page("ExistingAssetPage", CategoryPicker \cup LookupSelect, ExistingAssetForms)

\* It calls the endpoint and invalidates <<"assets">> and a key that no query has.  A
\* refusal that says the asset changed closes it too, any other failure keeps it.
AssetDisposalModal ==
    [Form("AssetDisposalModal", <<"dispose">>) EXCEPT
        !.stales = {<<"assets">>, <<"asset", "id">>}, !.persists = TRUE, !.failure = "either"]

AssetActions ==
    {Control("AssetTransition", <<"useAssetTransition">>),
     Confirm("DeleteAsset", <<"useDeleteAsset">>)}

AssetDetailPage ==
    Page("AssetDetailPage", {"useAsset", "useAssetCategories"},
         AssetActions \cup {AssetDisposalModal})

AssetTab(name, reads, forms) == Page(name, AssetDetailPage.reads \cup reads, forms)

\* useSectionForm: a tab's fields, sent when they differ from the asset and seeded again
\* whenever the asset's do; they can be changed while they are saved.
useSectionForm(name, calls) ==
    [Inline(name, calls) EXCEPT !.follows = {"useAsset"}, !.success = "stay"]

\* One serial number for each unit of the batch, seeded again when any unit's changes.
SerialGrid ==
    [Inline("SerialGrid", <<"useAssignSerials">>) EXCEPT
        !.follows = {"useAsset"}, !.success = "stay"]

IdentityFields == useSectionForm("IdentityFields", <<"useUpdateAsset">>)

IdentityTab == AssetTab("IdentityTab", {}, {IdentityFields, SerialGrid})

AssignmentFields == useSectionForm("AssignmentFields", <<"useUpdateAsset">>)

AssignmentTab == AssetTab("AssignmentTab", LookupSelect, {AssignmentFields})

\* What the units of a batch were bought for, and how that is taxed.
AcquisitionFields == useSectionForm("AcquisitionFields", <<"useUpdateAcquisition">>)

AcquisitionTab == AssetTab("AcquisitionTab", {"useSuppliers"}, {AcquisitionFields})

TaxFields == useSectionForm("TaxFields", <<"useUpdateAcquisition">>)

TaxTab == AssetTab("TaxTab", {}, {TaxFields})

\* Each disables its own button.
RunControls ==
    {Control("CreateRun", <<"useCreateDepreciationRun">>),
     Control("FinalizeRun", <<"useFinalizeDepreciationRun">>)}

\* The reason for reopening a run is kept when its dialog is dismissed.
DepreciationRunCard ==
    RunControls
        \cup {[Form("ReopenRun", <<"useReopenDepreciationRun">>) EXCEPT !.persists = TRUE]}

DepreciationDerivedCard == {"useFinancialYears"}

DepreciationFields == useSectionForm("DepreciationFields", <<"useUpdateAsset">>)

DepreciationTab ==
    AssetTab("DepreciationTab",
             {"useItBlocks", "useFinancialYears", "useDepreciationRuns"}
                \cup DepreciationDerivedCard,
             {DepreciationFields} \cup DepreciationRunCard)

\* The directory's query gives the names of who did what.
HistoryTab == AssetTab("HistoryTab", {"users"}, {})

\* A file that is chosen while another is uploaded is cleared with it; what is picked from
\* DocVault is attached after its picker has closed; every attachment can be removed again
\* while it is being removed.
DocumentsTab ==
    AssetTab("DocumentsTab", DocVaultPickerModal,
             {Inline("UploadAssetDocument", <<"useUploadAssetDocument">>),
              Control("AttachAssetDocument", <<"useAttachAssetDocument">>),
              [Control("DetachAssetDocument", <<"useDetachAssetDocument">>) EXCEPT !.lock = FALSE]})

\* A dialog that creates a row or changes one, seeded when it is opened.  The impact of a
\* change has to be acknowledged once it has been fetched.
MasterEditor(name, create, update) ==
    {[Form("Create" \o name, <<create>>) EXCEPT !.persists = TRUE],
     [Form("Edit" \o name, <<update>>) EXCEPT !.persists = TRUE]}

ImpactNotice == {"useImpactPreview"}

CategoryEditor == MasterEditor("Category", "useCreateCategory", "useUpdateCategory")

CategoriesTab ==
    Page("CategoriesTab", {"useAssetCategories", "useItBlocks"} \cup ImpactNotice, CategoryEditor)

ItBlockEditor == MasterEditor("ItBlock", "useCreateItBlock", "useUpdateItBlock")

ItBlocksTab == Page("ItBlocksTab", {"useItBlocks"} \cup ImpactNotice, ItBlockEditor)

SupplierEditor == MasterEditor("Supplier", "useCreateSupplier", "useUpdateSupplier")

SuppliersTab == Page("SuppliersTab", {"useSuppliers"} \cup ImpactNotice, SupplierEditor)

LookupEditor == MasterEditor("Lookup", "useCreateLookup", "useUpdateLookup")

LookupsTab == Page("LookupsTab", {"useAssetLookups"} \cup ImpactNotice, LookupEditor)

\* A year's label is kept when its dialog is dismissed, the reason for reopening one is not.
YearForms ==
    {[Form("CreateYear", <<"useCreateFinancialYear">>) EXCEPT !.persists = TRUE],
     [Form("ReopenYear", <<"useReopenFinancialYear">>) EXCEPT !.persists = TRUE],
     Control("CloseYear", <<"useCloseFinancialYear">>)}

FinancialYearsTab == Page("FinancialYearsTab", {"useFinancialYears"}, YearForms)

ArchiveAssetReport == ReportExportMenu("ArchiveAssetReport", <<"useArchiveAssetReport">>)

AssetReportsPage ==
    Page("AssetReportsPage",
         {"useFinancialYears", "useAssetCategories", "useAssetLookups", "useAssetReportsList",
          "useAssetReportPreview"},
         {ArchiveAssetReport})

registerPages ==
    {AssetsPage, ExistingAssetPage, AssetDetailPage, IdentityTab, AssignmentTab, AcquisitionTab,
     TaxTab, DepreciationTab, HistoryTab, DocumentsTab, CategoriesTab, ItBlocksTab,
     SuppliersTab, LookupsTab, FinancialYearsTab, AssetReportsPage}
-----------------------------------------------------------------------------
(* Weaknesses.                                                             *)

\* Reports and impacts are computed from assets and runs that do not invalidate them; an
\* uploaded file becomes a document of DocVault.
registerOverlooked ==
    ((DOMAIN assetMutations \cup DOMAIN disposalCall \cup DOMAIN depreciationMutations)
        \X {"useAssetReportPreview", "useImpactPreview"})
    \cup {<<"useCreateExistingAsset", "useAssets">>}
    \cup ({"useUploadAssetDocument"} \X {"useDocuments", "usePendingApprovals"})

registerWeak ==
    [doubled |-> {"DetachAssetDocument"},
     reseeded |-> {"IdentityFields", "AssignmentFields", "AcquisitionFields", "TaxFields",
                   "DepreciationFields", "SerialGrid"},
     closed |-> {"QuickAddAssetModal", "AssetDisposalModal", "ReopenRun", "CreateYear",
                 "ReopenYear", "CreateCategory", "EditCategory", "CreateItBlock", "EditItBlock",
                 "CreateSupplier", "EditSupplier", "CreateLookup", "EditLookup"},
     cleared |-> {"CreateExistingAsset", "UploadAssetDocument"},
     overtaken |-> {}]
=============================================================================
