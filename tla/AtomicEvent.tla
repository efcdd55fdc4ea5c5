----------------------------- MODULE AtomicEvent -----------------------------
(***************************************************************************)
(* What await_event and emit_event promise about one event, as if each     *)
(* call ran alone: an event is emitted once; a run that awaits it is given *)
(* its payload, or sleeps until the emission gives it.                     *)
(***************************************************************************)
CONSTANTS Run, Payload, Null

VARIABLES
  emitted,    \* the payload, Null until the event is emitted
  runState,   \* of the runs that may await it
  checkpoint  \* the payload each run was given, Null before

Init ==
  /\ emitted = Null
  /\ runState = [r \in Run |-> "pending"]
  /\ checkpoint = [r \in Run |-> Null]

Await(r) ==
  /\ runState[r] = "running" /\ checkpoint[r] = Null
  /\ \/ /\ emitted # Null
        /\ checkpoint' = [checkpoint EXCEPT ![r] = emitted]
        /\ UNCHANGED runState
     \/ /\ emitted = Null
        /\ runState' = [runState EXCEPT ![r] = "sleeping"]
        /\ UNCHANGED checkpoint
  /\ UNCHANGED emitted

Emit(p) ==
  LET woken == {r \in Run : runState[r] = "sleeping"}
  IN  /\ emitted = Null
      /\ emitted' = p
      /\ runState' = [r \in Run |->
                        IF r \in woken THEN "pending" ELSE runState[r]]
      /\ checkpoint' = [r \in Run |->
                          IF r \in woken THEN p ELSE checkpoint[r]]

Claim(r) ==
  /\ runState[r] = "pending"
  /\ runState' = [runState EXCEPT ![r] = "running"]
  /\ UNCHANGED <<emitted, checkpoint>>

Next ==
  \/ \E r \in Run : Await(r) \/ Claim(r)
  \/ \E p \in Payload : Emit(p)

Spec == Init /\ [][Next]_<<emitted, runState, checkpoint>>
=============================================================================
