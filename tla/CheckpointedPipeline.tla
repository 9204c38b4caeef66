-------------------------- MODULE CheckpointedPipeline --------------------------
(***************************************************************************)
(* What the control plane promises of one logical run, whoever executes it *)
(* and however often it is interrupted: the run is created once, its steps *)
(* are checkpointed one at a time in dependency order, no checkpoint is    *)
(* ever taken back, and the run completes once, after the last checkpoint. *)
(***************************************************************************)
EXTENDS Naturals

CONSTANT StepCount

VARIABLES
  phase,   \* "none" before the run row exists, then "open", then "complete"
  done     \* the steps that are checkpointed

vars  == <<phase, done>>
Steps == 1..StepCount

Init == phase = "none" /\ done = {}

Open ==
  /\ phase = "none"
  /\ phase' = "open"
  /\ UNCHANGED done

Checkpoint(k) ==
  /\ phase = "open"
  /\ k \notin done
  /\ 1..(k - 1) \subseteq done
  /\ done' = done \cup {k}
  /\ UNCHANGED phase

Complete ==
  /\ phase = "open"
  /\ done = Steps
  /\ phase' = "complete"
  /\ UNCHANGED done

Next == Open \/ Complete \/ \E k \in Steps : Checkpoint(k)

Spec == Init /\ [][Next]_vars
=============================================================================
