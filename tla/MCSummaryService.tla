--------------------------- MODULE MCSummaryService ---------------------------
(***************************************************************************)
(* Values for the constants of SummaryService.  Requests of one kind are   *)
(* interchangeable; clients are not permuted.                              *)
(***************************************************************************)
EXTENDS SummaryService

RequestSymmetry == Permutations(Readers) \cup Permutations(Refreshers)

=============================================================================
