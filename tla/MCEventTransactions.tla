---------------------- MODULE MCEventTransactions ----------------------
(* Small instances of EventTransactions for TLC.                           *)
EXTENDS EventTransactions, TLC

Symmetry ==
  Permutations(Run) \union Permutations(Worker) \union Permutations(Client)
    \union Permutations(Payload)
=============================================================================
