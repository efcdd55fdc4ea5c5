------------------------ MODULE MCWorkflowDoorbell ------------------------
(* Small instances of WorkflowDoorbell for TLC.                            *)
EXTENDS WorkflowDoorbell

CONSTANTS d, clk, ch, act

\* An activity, then a deferred and a clock at once, then a child.
Handler == <<{act}, {d, clk}, {ch}>>

\* One deferred.
OneSignal == <<{d}>>
=============================================================================
