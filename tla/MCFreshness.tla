---------------------------- MODULE MCFreshness ----------------------------
(* Two sheets, a few operations and commits, a read at a time. *)
EXTENDS Freshness, TLC

Interchangeable == Permutations(Sheets) \cup Permutations(Ops)

=============================================================================
