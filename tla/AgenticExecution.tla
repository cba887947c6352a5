--------------------------- MODULE AgenticExecution ---------------------------
(* Runtime/sarembok_agentic_execution.py, the engine that runs actions within *)
(* limits, and sarembok_agent_runtime.py, which has it run one action for an  *)
(* event and writes the record to SarembokMemory (memory.py), whose file      *)
(* outlives the process.                                                      *)
EXTENDS Naturals, Sequences

CONSTANTS Execution,           \* execution ids
          MaxEngineSteps, MaxRetries, CheckpointInterval, \* ExecutionLimits
          MaxActions,          \* bound on the actions of a run
          MaxRemembered        \* bound on the rows of the memory

\* In the memory an execution's key begins with "execution:".
ASSUME ExecutionAssumption ==
  /\ {MaxEngineSteps, MaxRetries, CheckpointInterval, MaxActions, MaxRemembered} \subseteq Nat
  /\ MaxActions >= 1 /\ "last_execution_id" \notin Execution

NoExecution == "none"

VARIABLES
  record,     \* the ExecutionRecord of the run, with the number of its actions
  caller,     \* "run" or "handle_event", where the engine's caller stands
  memories    \* rows <<key, value>> in the order of their ids

executionVars == <<record, caller, memories>>

Ended == {"COMPLETED", "CHECKPOINTED", "ESCALATED", "FAILED"}
Checkpoint == [step: 0..MaxActions, reason: {"interval", "recovery", "completed"}, result: 0..MaxActions]

ExecutionTypeOK ==
  /\ record \in [execution_id: Execution \cup {NoExecution}, actions: 0..MaxActions,
                 state: Ended \cup {"QUEUED", "PLANNING", "EXECUTING", "VALIDATING"},
                 step: 0..MaxActions, retries: 0..MaxRetries + 1,
                 result: 0..MaxActions, checkpoints: Seq(Checkpoint)]
  /\ caller \in {"idle", "run", "handle_event", "returned", "persisting"}
  /\ Len(memories) <= MaxRemembered

NewRecord(e, n) == [execution_id |-> e, actions |-> n, state |-> "QUEUED", step |-> 0,
                    retries |-> 0, result |-> 0, checkpoints |-> <<>>]

ExecutionInit == /\ record = NewRecord(NoExecution, 0)
                 /\ caller = "idle" /\ memories = <<>>

\* SarembokMemory.recall()
recall(key) == LET ids == {i \in DOMAIN memories: memories[i][1] = key}
               IN IF ids = {} THEN NoExecution
                  ELSE memories[CHOOSE i \in ids: \A j \in ids: j <= i][2]

remember(key, value) == memories' = Append(memories, <<key, value>>)

Running == caller \in {"run", "handle_event"}
\* The engine returns to its caller.
Returned == caller' = IF caller = "run" THEN "idle" ELSE "returned"

\* _checkpoint(), on a record of which a step has just ended
_checkpoint(r, reason) ==
  [r EXCEPT !.state = "CHECKPOINTED",
            !.checkpoints = Append(@, [step |-> r.step, reason |-> reason, result |-> r.result])]

_checkpoint_if_due(r) ==
  IF r.step % (IF CheckpointInterval < 1 THEN 1 ELSE CheckpointInterval) = 0
    THEN _checkpoint(r, "interval") ELSE r

\* An event is handled by a run of one action, other callers run any number.
handle_event(e) ==
  /\ caller = "idle" /\ Len(memories) + 2 <= MaxRemembered
  /\ record' = [NewRecord(e, 1) EXCEPT !.state = "PLANNING"]
  /\ caller' = "handle_event"
  /\ UNCHANGED memories

run(e, n) ==
  /\ caller = "idle"
  /\ IF n = 0 THEN record' = [NewRecord(e, 0) EXCEPT !.state = "COMPLETED"] /\ UNCHANGED caller
     ELSE record' = [NewRecord(e, n) EXCEPT !.state = "PLANNING"] /\ caller' = "run"
  /\ UNCHANGED memories

MoreActions == Running /\ record.step < record.actions /\ record.state # "EXECUTING"

\* The limits are looked at between actions; that of time passes at any moment.
_escalate ==
  /\ MoreActions
  /\ record' = [record EXCEPT !.state = "ESCALATED"]
  /\ Returned /\ UNCHANGED memories

ActionStarts ==
  /\ MoreActions /\ record.step < MaxEngineSteps
  /\ record' = [record EXCEPT !.state = "EXECUTING", !.step = @ + 1]
  /\ UNCHANGED <<caller, memories>>

\* The action returns and its result passes the validation. Results are told
\* apart by the step that brought them.
ActionPasses ==
  /\ Running /\ record.state = "EXECUTING"
  /\ record' = _checkpoint_if_due([record EXCEPT !.state = "VALIDATING", !.result = record.step])
  /\ UNCHANGED <<caller, memories>>

\* It raises, or the validation refuses the result. The next action follows: no
\* action is tried again.
ActionFails ==
  /\ Running /\ record.state = "EXECUTING"
  /\ LET r == [record EXCEPT !.retries = @ + 1] IN
     IF r.retries > MaxRetries THEN record' = [r EXCEPT !.state = "FAILED"] /\ Returned
     ELSE record' = _checkpoint([r EXCEPT !.state = "RECOVERY"], "recovery") /\ UNCHANGED caller
  /\ UNCHANGED memories

RunEnds ==
  /\ Running /\ record.step = record.actions /\ record.state # "EXECUTING"
  /\ record' = _checkpoint([record EXCEPT !.state = "COMPLETED"], "completed")
  /\ Returned /\ UNCHANGED memories

\* Mutant: the id goes first.
IdPersisted ==
  /\ caller = "returned"
  /\ remember("last_execution_id", record.execution_id)
  /\ caller' = "persisting" /\ UNCHANGED record

\* _persist(): two rows, each with its commit
RecordPersisted ==
  /\ caller = "returned"
  /\ remember(record.execution_id, record.state)
  /\ caller' = "persisting" /\ UNCHANGED record

LastIdPersisted ==
  /\ caller = "persisting"
  /\ remember("last_execution_id", record.execution_id)
  /\ caller' = "idle" /\ UNCHANGED record

ProcessDies ==
  /\ caller # "idle"
  /\ caller' = "idle" /\ record' = NewRecord(NoExecution, 0)
  /\ UNCHANGED memories

ExecutionNext ==
  \/ \E e \in Execution: handle_event(e) \/ \E n \in 0..MaxActions: run(e, n)
  \/ _escalate \/ ActionStarts \/ ActionPasses \/ ActionFails \/ RunEnds
  \/ RecordPersisted \/ LastIdPersisted \/ ProcessDies

ExecutionSpec == ExecutionInit /\ [][ExecutionNext]_executionVars

----------------------------------------------------------------------------
\* The execution the memory calls the last one is one whose record can be recalled,
\* and that record tells of an end, through the death of the process between the
\* two commits and the reuse of an id.
LastIdRecorded ==
  LET e == recall("last_execution_id") IN e # NoExecution => recall(e) \in Ended

\* A checkpoint holds the result that had been validated last when it was taken,
\* whatever failed before it: its step if it was not taken in recovery, and an
\* earlier one if it was; and as many steps failed as there were retries, so that
\* no run goes on after one failure too many.
CheckpointsSound ==
  LET taken == record.checkpoints
      recovered == {i \in DOMAIN taken: taken[i].reason = "recovery"}
  IN /\ \A i \in DOMAIN taken:
          /\ taken[i].reason = "interval" => taken[i].result = taken[i].step
          /\ taken[i].reason = "recovery" => taken[i].result < taken[i].step
          /\ i > 1 => taken[i - 1].result <= taken[i].result
     /\ record.retries > MaxRetries <=> record.state = "FAILED"
     /\ \A i, j \in recovered: i # j => taken[i].step # taken[j].step

\* What is written down of an execution, in its checkpoints and in the memory, is
\* true: both parts, on states of the right type.
ExecutionsTold == ExecutionTypeOK /\ LastIdRecorded /\ CheckpointsSound

\* "self.assertEqual(result.state, ExecutionState.COMPLETED)" (test_bounded_success
\* _and_checkpoint): a run whose actions were all done ends COMPLETED.
DoneIsCompleted ==
  caller = "returned" /\ record.step = record.actions /\ record.retries = 0 => record.state = "COMPLETED"

=============================================================================
