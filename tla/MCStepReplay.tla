---------------------------- MODULE MCStepReplay ----------------------------
(* Small instances of StepReplay for TLC.                                  *)
EXTENDS StepReplay

CONSTANTS s, z, e, f

Op0(kind, name, timed) == [kind |-> kind, name |-> name, timed |-> timed]

\* A step, two waits for one event with timeouts, a sleep, and the step's
\* name again.
Loop ==
  <<Op0("step", s, FALSE), Op0("await", e, TRUE), Op0("await", e, TRUE),
    Op0("sleep", z, FALSE), Op0("step", s, FALSE)>>

\* Two waits with timeouts, one after the other.
TwoTimeouts == <<Op0("await", e, TRUE), Op0("await", f, TRUE)>>
=============================================================================
