---------------------- MODULE MCTaskTransactions ----------------------
(* Small instances of TaskTransactions for TLC.                           *)
EXTENDS TaskTransactions, TLC

Symmetry == Permutations(Session)
=============================================================================
