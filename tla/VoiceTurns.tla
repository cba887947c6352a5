----------------------------- MODULE VoiceTurns -----------------------------
(* Runtime/sarembok_voice_orchestrator.py: NetworkedOrchestrationEngine and  *)
(* the commands of its WebSocket gateway. One asyncio event loop runs all    *)
(* the coroutines, so an action is what one of them does between two awaits. *)
(* Each START_ORCHESTRATION creates a loop, each loop one task at a time;    *)
(* a task is named by its loop. The set of connected sockets, the audio and  *)
(* active_speaker, a function of current_state, are left out.                *)
EXTENDS Naturals, Sequences

CONSTANTS Turn,         \* the turn ids of QUEUE_TURN; a client may reuse one
          GeminiTurn,   \* the turns whose voice_model is a Gemini voice
          CloudEngines, \* of {"grpc", "rest"}, the engines that are configured
          VoiceLoop,    \* orchestration loops alive at the same time
          NoTurn, NoLoop,
          MaxQueued,    \* bound on dialogue_queue, which has none
          MaxSegments,  \* sleeps of 50 ms in a playout
          MaxAccidents  \* bound on operations of the ledger that raise and on
                        \* restarts of the process

ASSUME VoiceAssumption ==
  /\ GeminiTurn \subseteq Turn
  /\ CloudEngines \subseteq {"grpc", "rest"}
  /\ NoTurn \notin Turn
  /\ NoLoop \notin VoiceLoop
  /\ MaxSegments \in Nat \ {0}
  /\ MaxAccidents \in Nat

VARIABLES
  multi_agent_ledger, \* turn -> [state, flag]: the SQLite table, "none" no row
  dialogue_queue,
  active_turn_id,
  current_state,
  current_task,       \* the loop whose task was created last
  loop,               \* loop -> where orchestration_loop stands
  task,               \* loop -> the task it created last
  overlapped,         \* history: two loops have been alive at once
  accidents           \* how often the ledger raised or the process restarted

voiceVars == <<multi_agent_ledger, dialogue_queue, active_turn_id, current_state,
               current_task, loop, task, overlapped, accidents>>

Speaking == {"SYNTHESIZING", "PLAYING"}
AgentState == Speaking \cup {"IDLE", "INTERRUPTED", "FAILED"}

\* How execute_turn ended: returned True, returned False, cancelled before its
\* first step, or left with an exception of the ledger.
Finished == {"spoken", "stopped", "dropped", "raised"}
Running == {"synthesizing", "playing"}
NoTask == [turn |-> NoTurn, phase |-> "dropped", left |-> 0, cancel |-> FALSE]

\* The engines synthesize() tries in turn, the simulation, which cannot fail,
\* being the last.
Engines(t) == 1 + (IF t \in GeminiTurn /\ "rest" \in CloudEngines THEN 1 ELSE 0)
                + (IF "grpc" \in CloudEngines THEN 1 ELSE 0)
                + (IF "rest" \in CloudEngines THEN 1 ELSE 0)

VoiceTypeOK ==
  /\ multi_agent_ledger \in [Turn -> [state: AgentState \cup {"none"}, flag: BOOLEAN]]
  /\ dialogue_queue \in Seq(Turn)
  /\ active_turn_id \in Turn \cup {NoTurn}
  /\ current_state \in AgentState
  /\ current_task \in VoiceLoop \cup {NoLoop}
  /\ loop \in [VoiceLoop -> {"idle", "started", "waiting", "dead"}]
  /\ task \in [VoiceLoop -> [turn: Turn \cup {NoTurn},
                             phase: Finished \cup Running \cup {"created"},
                             left: Nat, cancel: BOOLEAN]]
  /\ overlapped \in BOOLEAN
  /\ accidents \in 0..MaxAccidents

VoiceInit ==
  /\ multi_agent_ledger = [t \in Turn |-> [state |-> "none", flag |-> FALSE]]
  /\ dialogue_queue = <<>>
  /\ active_turn_id = NoTurn
  /\ current_state = "IDLE"
  /\ current_task = NoLoop
  /\ loop = [l \in VoiceLoop |-> "idle"]
  /\ task = [l \in VoiceLoop |-> NoTask]
  /\ overlapped = FALSE
  /\ accidents = 0

----------------------------------------------------------------------------
\* Mutant: the end of a turn does not reach the ledger.
UpdateStateWhileSpeaking(t, s) ==
  /\ current_state' = s
  /\ IF s \in Speaking THEN multi_agent_ledger' = [multi_agent_ledger EXCEPT ![t].state = s]
     ELSE UNCHANGED multi_agent_ledger
  /\ UNCHANGED accidents

\* update_state: the attribute is set first, then the row; a turn id that has
\* a row keeps its interrupt flag. If SQLite raises, the row stays as it was.
UpdateState(t, s) ==
  /\ current_state' = s
  /\ multi_agent_ledger' = [multi_agent_ledger EXCEPT ![t].state = s]
  /\ UNCHANGED accidents

UpdateRaises(s, n) ==
  /\ accidents + n <= MaxAccidents
  /\ accidents' = accidents + n
  /\ current_state' = s
  /\ UNCHANGED multi_agent_ledger

check_interrupt(t) == multi_agent_ledger[t].flag

Goes(l, phase) == task' = [task EXCEPT ![l].phase = phase, ![l].left = 0]

----------------------------------------------------------------------------
(* execute_turn                                                              *)
\* A task cancelled before its first step never enters execute_turn; the first
\* update_state is outside the try.
TaskBegins(l) ==
  /\ task[l].phase = "created"
  /\ LET t == task[l].turn IN
     \/ /\ task[l].cancel
        /\ Goes(l, "dropped")
        /\ UNCHANGED <<multi_agent_ledger, active_turn_id, current_state, accidents>>
     \/ /\ ~task[l].cancel
        /\ active_turn_id' = t
        /\ \/ /\ UpdateState(t, "SYNTHESIZING")
              /\ task' = [task EXCEPT ![l].phase = "synthesizing", ![l].left = Engines(t)]
           \/ UpdateRaises("SYNTHESIZING", 1) /\ Goes(l, "raised")
  /\ UNCHANGED <<dialogue_queue, current_task, loop, overlapped>>

Resumes(l, phase) == task[l].phase = phase /\ ~task[l].cancel

TaskKeeps == UNCHANGED <<dialogue_queue, active_turn_id, current_task, loop, overlapped>>

\* An engine that raises, times out or has no audio: the next one is tried.
EngineFails(l) ==
  /\ Resumes(l, "synthesizing")
  /\ task[l].left > 1
  /\ task' = [task EXCEPT ![l].left = @ - 1]
  /\ TaskKeeps /\ UNCHANGED <<multi_agent_ledger, current_state, accidents>>

\* The audio is there: the check after synthesis, then PLAYING and the first
\* check of the playout, between which nothing else runs.
AudioReady(l) ==
  /\ Resumes(l, "synthesizing")
  /\ LET t == task[l].turn IN
     \/ check_interrupt(t) /\ UpdateState(t, "INTERRUPTED") /\ Goes(l, "stopped")
     \/ /\ ~check_interrupt(t)
        /\ UpdateState(t, "PLAYING")
        /\ task' = [task EXCEPT ![l].phase = "playing", ![l].left = MaxSegments]
  /\ TaskKeeps

\* A sleep of the playout has ended. After the last one there is no check.
SegmentPlayed(l) ==
  /\ Resumes(l, "playing")
  /\ LET t == task[l].turn IN
     \/ task[l].left = 1 /\ UpdateState(t, "IDLE") /\ Goes(l, "spoken")
     \/ /\ task[l].left > 1
        /\ check_interrupt(t) /\ UpdateState(t, "INTERRUPTED") /\ Goes(l, "stopped")
     \/ /\ task[l].left > 1 /\ ~check_interrupt(t)
        /\ task' = [task EXCEPT ![l].left = @ - 1]
        /\ UNCHANGED <<multi_agent_ledger, current_state, accidents>>
  /\ TaskKeeps

\* except CancelledError.
TaskCancelled(l) ==
  /\ task[l].phase \in Running /\ task[l].cancel
  /\ \/ UpdateState(task[l].turn, "INTERRUPTED") /\ Goes(l, "stopped")
     \/ UpdateRaises("INTERRUPTED", 1) /\ Goes(l, "raised")
  /\ TaskKeeps

\* except Exception: only the ledger can raise here. The handler writes FAILED,
\* which may raise in its turn.
TaskFails(l) ==
  /\ \E p \in Running: Resumes(l, p)
  /\ accidents < MaxAccidents
  /\ \/ /\ accidents' = accidents + 1
        /\ current_state' = "FAILED"
        /\ multi_agent_ledger' = [multi_agent_ledger EXCEPT ![task[l].turn].state = "FAILED"]
        /\ Goes(l, "stopped")
     \/ UpdateRaises("FAILED", 2) /\ Goes(l, "raised")
  /\ TaskKeeps

----------------------------------------------------------------------------
(* orchestration_loop                                                        *)
LoopEnds(l) ==
  /\ loop' = [loop EXCEPT ![l] = "idle"]
  /\ task' = [task EXCEPT ![l] = NoTask]
  /\ active_turn_id' = NoTurn
  /\ current_state' = "IDLE"

\* The head of the while loop, reached without an await from a turn that was
\* spoken: end, or take the next turn and create its task.
LoopTop(l) ==
  \/ /\ dialogue_queue = <<>>
     /\ LoopEnds(l)
     /\ UNCHANGED <<dialogue_queue, current_task>>
  \/ /\ dialogue_queue # <<>>
     /\ dialogue_queue' = Tail(dialogue_queue)
     /\ task' = [task EXCEPT ![l] = [turn |-> Head(dialogue_queue), phase |-> "created",
                                     left |-> 0, cancel |-> FALSE]]
     /\ current_task' = l
     /\ loop' = [loop EXCEPT ![l] = "waiting"]
     /\ UNCHANGED <<active_turn_id, current_state>>

\* A turn that was not spoken empties the whole queue; an exception of the task
\* ends the loop where it is, queue and attributes untouched.
LoopRuns(l) ==
  /\ \/ loop[l] = "started" /\ LoopTop(l)
     \/ loop[l] = "waiting" /\ task[l].phase = "spoken" /\ LoopTop(l)
     \/ /\ loop[l] = "waiting" /\ task[l].phase \in {"stopped", "dropped"}
        /\ dialogue_queue' = <<>>
        /\ LoopEnds(l)
        /\ UNCHANGED current_task
     \/ /\ loop[l] = "waiting" /\ task[l].phase = "raised"
        /\ loop' = [loop EXCEPT ![l] = "dead"]
        /\ task' = [task EXCEPT ![l] = NoTask]
        /\ UNCHANGED <<dialogue_queue, active_turn_id, current_state, current_task>>
  /\ UNCHANGED <<multi_agent_ledger, overlapped, accidents>>

----------------------------------------------------------------------------
(* Commands of handle_network_traffic, and the interrupts of the engine      *)
QueueTurn(t) ==
  /\ Len(dialogue_queue) < MaxQueued
  /\ dialogue_queue' = Append(dialogue_queue, t)
  /\ UNCHANGED <<multi_agent_ledger, active_turn_id, current_state, current_task, loop,
                 task, overlapped, accidents>>

Alive(l) == loop[l] \in {"started", "waiting"}

StartOrchestration(l) ==
  /\ ~Alive(l)
  /\ loop' = [loop EXCEPT ![l] = "started"]
  /\ overlapped' = (overlapped \/ \E m \in VoiceLoop: Alive(m))
  /\ UNCHANGED <<multi_agent_ledger, dialogue_queue, active_turn_id, current_state,
                 current_task, task, accidents>>

Flagged(turns) == [t \in Turn |->
  IF t \in turns /\ multi_agent_ledger[t].state # "none"
    THEN [multi_agent_ledger[t] EXCEPT !.flag = TRUE] ELSE multi_agent_ledger[t]]

\* process_network_interrupt, alone or after trigger_global_interrupt(target):
\* the rows are flagged, the task that was created last is cancelled.
Interrupt(target) ==
  /\ multi_agent_ledger' = Flagged({target, active_turn_id})
  /\ task' = [l \in VoiceLoop |->
       IF l = current_task /\ task[l].phase \notin Finished
         THEN [task[l] EXCEPT !.cancel = TRUE] ELSE task[l]]
  /\ UNCHANGED <<dialogue_queue, active_turn_id, current_state, current_task, loop,
                 overlapped, accidents>>

\* The process restarts: the constructor clears the flags, and only those.
VoiceRestart ==
  /\ accidents < MaxAccidents
  /\ accidents' = accidents + 1
  /\ multi_agent_ledger' = [t \in Turn |-> [multi_agent_ledger[t] EXCEPT !.flag = FALSE]]
  /\ dialogue_queue' = <<>> /\ active_turn_id' = NoTurn /\ current_state' = "IDLE"
  /\ current_task' = NoLoop
  /\ loop' = [l \in VoiceLoop |-> "idle"] /\ task' = [l \in VoiceLoop |-> NoTask]
  /\ overlapped' = FALSE

TaskRuns(l) == \/ TaskBegins(l) \/ EngineFails(l) \/ AudioReady(l) \/ SegmentPlayed(l)
               \/ TaskCancelled(l) \/ TaskFails(l)

VoiceNext ==
  \/ \E t \in Turn: QueueTurn(t)
  \/ \E t \in Turn \cup {NoTurn}: Interrupt(t)
  \/ \E l \in VoiceLoop: StartOrchestration(l) \/ LoopRuns(l) \/ TaskRuns(l)
  \/ VoiceRestart

\* The event loop resumes every coroutine that is ready.
VoiceFairness == \A l \in VoiceLoop: WF_voiceVars(LoopRuns(l)) /\ WF_voiceVars(TaskRuns(l))
VoiceSpec == VoiceInit /\ [][VoiceNext]_voiceVars /\ VoiceFairness

----------------------------------------------------------------------------
\* As long as no two loops have been alive together, an interrupt can reach
\* whoever speaks: active_turn_id and current_task are those of the turn that
\* is being synthesized or played, and current_state says which.
InterruptReachesSpeaker ==
  ~overlapped => \A l \in VoiceLoop: task[l].phase \in Running =>
    /\ active_turn_id = task[l].turn
    /\ current_task = l
    /\ current_state = IF task[l].phase = "playing" THEN "PLAYING" ELSE "SYNTHESIZING"

\* With a ledger that never failed and a process that never restarted, a row
\* says that a turn is synthesized or played only while some task does it.
RowsTrue ==
  accidents = 0 => \A t \in Turn:
    multi_agent_ledger[t].state \in Speaking =>
      \E l \in VoiceLoop: task[l].turn = t /\ task[l].phase \in Running

\* An interrupt always has the one who speaks to go to, and the ledger tells the
\* truth of who does: both parts, on states of the right type.
SpeakerKnown == VoiceTypeOK /\ InterruptReachesSpeaker /\ RowsTrue

\* Every turn that got a task comes to an end, however often clients interrupt
\* and whatever other loops do.
VoiceTurnsEnd == \A l \in VoiceLoop:
  task[l].phase \notin Finished ~> task[l].phase \in Finished

=============================================================================
