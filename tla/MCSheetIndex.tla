---------------------------- MODULE MCSheetIndex ----------------------------
(* A Sheet of three records and two index keys. *)
EXTENDS SheetIndex

CONSTANTS k1, k2

RecordPaths == 1 .. 3

=============================================================================
