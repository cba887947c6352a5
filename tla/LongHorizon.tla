----------------------------- MODULE LongHorizon -----------------------------
(* Runtime/sarembok_long_horizon.py: the task of a LongHorizonTaskEngine,     *)
(* through any calls its caller makes, in any order.                          *)
EXTENDS Naturals

CONSTANTS MaxTaskSteps, CheckpointEvery, MaxRecoveries \* AgenticHorizon

ASSUME HorizonAssumption == MaxTaskSteps \in Nat /\ CheckpointEvery \in Nat \ {0}
                            /\ MaxRecoveries \in Nat

VARIABLES task,      \* AutonomousTask; checkpoint is the step of one, 0 for none
          advances   \* history: the steps that were really made

horizonVars == <<task, advances>>

HorizonTypeOK ==
  /\ task \in [status: {"planned", "running", "checkpointed", "recovering", "completed", "failed"},
               current_step: 0..MaxTaskSteps, recovery_attempts: 0..MaxRecoveries,
               checkpoint: 0..MaxTaskSteps]
  /\ advances \in Nat

HorizonInit ==
  /\ task = [status |-> "planned", current_step |-> 0, recovery_attempts |-> 0, checkpoint |-> 0]
  /\ advances = 0

\* A call from another status raises and leaves the task as it is.
start ==
  /\ task.status \in {"planned", "checkpointed", "recovering"}
  /\ task' = [task EXCEPT !.status = "running"]
  /\ UNCHANGED advances

advance ==
  /\ task.status = "running"
  /\ LET next_step == task.current_step + 1 IN
     \/ /\ next_step > MaxTaskSteps
        /\ task' = [task EXCEPT !.status = "failed"]
        /\ UNCHANGED advances
     \/ /\ next_step <= MaxTaskSteps
        /\ task' = IF next_step % CheckpointEvery = 0
             THEN [task EXCEPT !.current_step = next_step, !.checkpoint = next_step,
                               !.status = "checkpointed"]
             ELSE [task EXCEPT !.current_step = next_step]
        /\ advances' = advances + 1

\* Mutant: the recoveries are not counted.
RecoverFreely ==
  /\ task' = IF task.recovery_attempts >= MaxRecoveries \/ task.checkpoint = 0
       THEN [task EXCEPT !.status = "failed"]
       ELSE [task EXCEPT !.status = "recovering", !.current_step = task.checkpoint]
  /\ UNCHANGED advances

\* From any status: a task that was completed or failed is taken up again too.
recover ==
  /\ task' = IF task.recovery_attempts >= MaxRecoveries \/ task.checkpoint = 0
       THEN [task EXCEPT !.status = "failed"]
       ELSE [task EXCEPT !.status = "recovering", !.recovery_attempts = @ + 1,
                         !.current_step = task.checkpoint]
  /\ UNCHANGED advances

complete ==
  /\ task.status \in {"running", "checkpointed"}
  /\ task' = [task EXCEPT !.status = "completed"]
  /\ UNCHANGED advances

HorizonNext == start \/ advance \/ recover \/ complete

HorizonSpec == HorizonInit /\ [][HorizonNext]_horizonVars

----------------------------------------------------------------------------
\* However often a task is recovered, the steps made for it are those of its
\* horizon and, for each recovery, fewer than lie between two checkpoints; and no
\* checkpoint is ahead of the task or more than that behind it.
WorkBounded ==
  /\ HorizonTypeOK
  /\ advances <= MaxTaskSteps + task.recovery_attempts * (CheckpointEvery - 1)
  /\ advances >= task.current_step
  /\ task.current_step - task.checkpoint \in 0..CheckpointEvery - 1

=============================================================================
