---------------------------- MODULE ClientCatalog ----------------------------
(***************************************************************************)
(* The vocabulary of the client's catalogs.  A catalog lists, for one area *)
(* of the React client, what its endpoints read and write (api/endpoints,  *)
(* whose handlers are in app/routers), its query and mutation hooks        *)
(* (api/hooks), its forms and its pages.  An endpoint reads the tables     *)
(* that decide which rows and figures it answers with; names joined to a   *)
(* row, and the activity log that most handlers write, are left out.       *)
(***************************************************************************)
EXTENDS Naturals, Sequences, TLC

\* useQuery: its key, with "id" and "f" for arguments, and what its endpoint reads.
Query(key, reads) ==
    [key |-> key, reads |-> reads, polls |-> FALSE,
     writes |-> {}, stales |-> {}, puts |-> {}, awaits |-> TRUE]

\* useMutation: what its endpoint writes, and the keys whose queries its onSuccess
\* invalidates.  awaits: onSuccess returns the promise of the invalidation.  puts: keys
\* whose data it sets.
Mutation(writes, stales) ==
    [key |-> <<>>, reads |-> {}, polls |-> FALSE,
     writes |-> writes, stales |-> stales, puts |-> {}, awaits |-> TRUE]

\* A dialog whose mutations run one after the other under an await and which is closed by
\* Escape, the backdrop and the cross at any time (components/ui/Modal and Drawer), while
\* its button is disabled when loading (components/ui/Button) and its inputs are not.
\* stales: the keys that the form itself invalidates after its last call.
Form(name, calls) ==
    [name |-> name, calls |-> calls, stales |-> {}, types |-> TRUE, picks |-> FALSE,
     dialog |-> TRUE, lock |-> TRUE, freezes |-> FALSE, persists |-> FALSE, follows |-> {},
     how |-> "await", success |-> "close", failure |-> "keep"]

\* A form of the page itself.
Inline(name, calls) ==
    [Form(name, calls) EXCEPT !.dialog = FALSE, !.success = "clear"]

\* A button or switch of the page.
Control(name, calls) ==
    [Inline(name, calls) EXCEPT !.types = FALSE, !.success = "stay"]

\* A select whose choice is sent at once.
Picker(name, calls) ==
    [Inline(name, calls) EXCEPT !.picks = TRUE, !.lock = FALSE, !.success = "stay"]

\* components/ui/ConfirmDialog, a part of the page: loading disables its buttons.
Confirm(name, calls) ==
    [Form(name, calls) EXCEPT !.types = FALSE, !.persists = TRUE]

\* components/reports/ReportExportMenu: closed and disabled while one of its actions runs.
ReportExportMenu(name, calls) == Control(name, calls)

\* components/docvault/DocVaultPickerModal: documents to choose from, and by bucket.
DocVaultPickerModal == {"useBuckets", "useDocuments"}

\* What a page or one of its tabs shows together.
Page(name, reads, forms) == [name |-> name, reads |-> reads, forms |-> forms]
=============================================================================
