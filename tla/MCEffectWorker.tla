--------------------------- MODULE MCEffectWorker ---------------------------
(* Small instances of EffectWorker for TLC.                                *)
EXTENDS EffectWorker

CONSTANTS t1, p1, p2

\* A rolling deployment: the second process may not have the handler yet.
Rolling == [p \in Process |-> IF p = p1 THEN {Task} ELSE {Task, {}}]

\* The first has room for two executions.
MixedConcurrency == [p \in Process |-> IF p = p1 THEN 2 ELSE 1]
=============================================================================
