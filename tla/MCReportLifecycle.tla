------------------------- MODULE MCReportLifecycle -------------------------
(* Small instances of ReportLifecycle for TLC. *)
EXTENDS ReportLifecycleInvariant, TLC

\* The members of each of these sets differ only in name.
Symmetry ==
    Permutations(DocumentId) \cup Permutations(RowId) \cup
    Permutations(Handler) \cup Permutations(ArchiverRun) \cup
    Permutations(EraserRun)

=============================================================================
