----------------------------- MODULE MCServices ------------------------------
(* The services of src/Runtime that wait, time out and race, each on a small *)
(* instance. They share no state; a behaviour is one of one service, chosen  *)
(* at the start, and the others stay as they begin.                          *)
EXTENDS VoiceTurns, DualMemory, EventBus, MicroVM

VARIABLE subject

servicesVars == <<subject, voiceVars, memVars, busVars, vmVars>>

Pages == {<<"p", "x">>, <<"p", "y">>, <<"q", "x">>}

Voice == {"voice of one turn", "voice of one loop"}
Memory == {"pages", "contexts"}

\* A choice of a service at the start is made for the service that runs.
ServicesInit ==
  /\ subject \in Voice \cup Memory \cup {"bus", "vm"}
  /\ VoiceInit /\ MemInit /\ BusInit /\ VmInit
  /\ subject \notin Memory => connected
  /\ subject # "bus" => producer = "open"
  /\ subject # "vm" => installed = {}

OthersOfVoice == UNCHANGED <<subject, memVars, busVars, vmVars>>
OthersOfBus == UNCHANGED <<subject, voiceVars, memVars, vmVars>>

\* To keep the instance small, there are two loops and one turn or two turns and
\* one loop, and pages are in use or contexts.
VoiceRuns ==
  /\ subject \in Voice /\ VoiceNext /\ OthersOfVoice
  /\ subject = "voice of one turn" => ToSet(dialogue_queue') \subseteq {"t1"}
  /\ subject = "voice of one loop" => loop'["l2"] = "idle"
MemoryRuns ==
  /\ subject \in Memory /\ MemNext /\ UNCHANGED <<subject, voiceVars, busVars, vmVars>>
  /\ subject = "pages" => \A k \in ContextKey: written'[k] = 0
  /\ subject = "contexts" => active' = <<>>
BusRuns == subject = "bus" /\ BusNext /\ OthersOfBus
VmRuns == subject = "vm" /\ VmNext /\ UNCHANGED <<subject, voiceVars, memVars, busVars>>

\* The fairness of VoiceSpec and BusSpec.
ServicesSpec ==
  /\ ServicesInit
  /\ [][VoiceRuns \/ MemoryRuns \/ BusRuns \/ VmRuns]_servicesVars
  /\ \A l \in VoiceLoop:
       /\ WF_servicesVars(subject \in Voice /\ LoopRuns(l) /\ OthersOfVoice)
       /\ WF_servicesVars(subject \in Voice /\ TaskRuns(l) /\ OthersOfVoice)
  /\ WF_servicesVars(subject = "bus" /\ Dispatch /\ OthersOfBus)

\* What was taken in hand is brought to an end: the turns of VoiceTurnsEnd and the
\* events of AcceptedHandled.
AcceptedEnds == VoiceTurnsEnd /\ AcceptedHandled

=============================================================================
