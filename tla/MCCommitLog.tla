----------------------------- MODULE MCCommitLog -----------------------------
(***************************************************************************)
(* CommitLog with logs of at most MaxLog batches.                          *)
(***************************************************************************)
EXTENDS CommitLog

CONSTANT MaxLog

MCSpec == Init /\ [][Next /\ Len(log') <= MaxLog]_vars

=============================================================================
