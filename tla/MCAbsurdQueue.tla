--------------------------- MODULE MCAbsurdQueue ---------------------------
(* Small instances of AbsurdQueue for TLC.                                 *)
EXTENDS AbsurdQueue, TLC

Options(max, strategy, delay, duration) ==
  [maxAttempts |-> max, strategy |-> strategy,
   maxDelay |-> delay, maxDuration |-> duration]

\* A task with two attempts one second apart; one with both cancellation
\* rules; one stored with a strategy that is no longer valid.
AttemptLegacy == {Options(Null, <<>>, Null, Null)}
AttemptOptions ==
  AttemptLegacy \union
  {Options(2, <<1>>, Null, Null), Options(2, <<0>>, 1, 2)}

\* Tasks retried at once, to keep their attempts in one claim.
ClaimOptions == {Options(2, <<0>>, Null, Null), Options(Null, <<0>>, Null, 1)}

\* Tasks that give up after one attempt or two.
LivenessOptions == {Options(1, <<0>>, Null, Null)}

EventOptions == {Options(2, <<0>>, Null, Null)}

Symmetry == Permutations(TaskId) \union Permutations(RunId)
=============================================================================
