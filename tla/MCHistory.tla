----------------------------- MODULE MCHistory -----------------------------
(***************************************************************************)
(* Two sessions; counts that are empty, small, more than five times as     *)
(* large and beyond the cap; up to three records.                          *)
(***************************************************************************)
EXTENDS History

MCRowCounts == {0, 1, 7, 40}

=============================================================================
