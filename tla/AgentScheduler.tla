--------------------------- MODULE AgentScheduler ---------------------------
(* Runtime/aas_grpc_service.py: AutonomousAgentSchedulerService. No handler  *)
(* awaits while it holds the lock, so each is one step. Entropies are        *)
(* hundredths. An envelope is the number of the route_payload() call.        *)
EXTENDS Integers, SequencesExt, FiniteSetsExt

CONSTANTS SchedAgent,
          Quantum,       \* requested_slice_quantum_ms of a request
          MaxEnvelopes,  \* bound on the payloads routed
          MaxSlices      \* bound on the registrations

ASSUME SchedulerAssumption == Quantum \subseteq Int /\ {MaxEnvelopes, MaxSlices} \subseteq Nat

VARIABLES
  agents,          \* agent -> [status, slice, quantum]: the registration (slice 0
                   \* is none) and the quantum of the last grant
  payload_queues,  \* agent -> queue, which exists once the agent has registered
  delivered,       \* history: agent -> what its streams yielded
  routed           \* history: agent -> what was routed to it

schedulerVars == <<agents, payload_queues, delivered, routed>>

Envelopes == Cardinality(UNION {ToSet(routed[a]) : a \in SchedAgent})
Slices == Max({agents[a].slice : a \in SchedAgent})

SchedulerTypeOK ==
  /\ agents \in [SchedAgent -> [status: {"HALTED", "IDLE", "BUSY", "FROZEN"},
                                slice: 0..MaxSlices, quantum: 0..1000]]
  /\ payload_queues \in [SchedAgent -> Seq(1..MaxEnvelopes)]
  /\ delivered \in [SchedAgent -> Seq(1..MaxEnvelopes)]
  /\ routed \in [SchedAgent -> Seq(1..MaxEnvelopes)]

SchedulerInit ==
  /\ agents = [a \in SchedAgent |-> [status |-> "HALTED", slice |-> 0, quantum |-> 0]]
  /\ payload_queues = [a \in SchedAgent |-> <<>>]
  /\ delivered = payload_queues /\ routed = payload_queues

\* Mutant: the queue is replaced with the registration.
RegisterAnew(a) ==
  /\ Slices < MaxSlices
  /\ agents' = [agents EXCEPT ![a] = [status |-> "IDLE", slice |-> Slices + 1, quantum |-> 0]]
  /\ payload_queues' = [payload_queues EXCEPT ![a] = <<>>]
  /\ UNCHANGED <<delivered, routed>>

\* A registration replaces the one before, the queue stays.
register_agent(a) ==
  /\ Slices < MaxSlices
  /\ agents' = [agents EXCEPT ![a] = [status |-> "IDLE", slice |-> Slices + 1, quantum |-> 0]]
  /\ UNCHANGED <<payload_queues, delivered, routed>>

Clamp(q, low, high) == IF q < low THEN low ELSE IF q > high THEN high ELSE q

Granted(priority, q) == CASE priority = "REALTIME" -> Clamp(q, 5, 50)
                          [] priority = "STANDARD" -> Clamp(q, 20, 200)
                          [] priority = "BATCH" -> Clamp(q, 50, 1000)

\* An agent that is not registered is answered HALTED, and nothing changes.
schedule_slice(a, priority, q, entropy) ==
  /\ agents[a].slice # 0
  /\ \/ /\ entropy >= 88
        /\ agents' = [agents EXCEPT ![a].status = "FROZEN", ![a].quantum = 0]
     \/ /\ entropy < 88
        /\ agents' = [agents EXCEPT ![a].status = "BUSY", ![a].quantum = Granted(priority, q)]
  /\ UNCHANGED <<payload_queues, delivered, routed>>

\* Without a queue the payload is refused.
route_payload(a) ==
  /\ agents[a].slice # 0 /\ Envelopes < MaxEnvelopes
  /\ payload_queues' = [payload_queues EXCEPT ![a] = Append(@, Envelopes + 1)]
  /\ routed' = [routed EXCEPT ![a] = Append(@, Envelopes + 1)]
  /\ UNCHANGED <<agents, delivered>>

\* One of the agent's streams takes the next envelope and yields it.
stream_payloads_for_agent(a) ==
  /\ payload_queues[a] # <<>>
  /\ delivered' = [delivered EXCEPT ![a] = Append(@, Head(payload_queues[a]))]
  /\ payload_queues' = [payload_queues EXCEPT ![a] = Tail(@)]
  /\ UNCHANGED <<agents, routed>>

SchedulerNext == \E a \in SchedAgent:
  \/ register_agent(a) \/ route_payload(a) \/ stream_payloads_for_agent(a)
  \/ \E priority \in {"REALTIME", "STANDARD", "BATCH"}, q \in Quantum, entropy \in {25, 88}:
       schedule_slice(a, priority, q, entropy)

SchedulerSpec == SchedulerInit /\ [][SchedulerNext]_schedulerVars

----------------------------------------------------------------------------
\* Every payload that was accepted for an agent is yielded once and in order,
\* across new registrations and while the agent is frozen; and an agent that is BUSY
\* has a quantum between 5 ms and a second, whatever it asked for.
PayloadsInOrder == SchedulerTypeOK /\ \A a \in SchedAgent:
  /\ routed[a] = delivered[a] \o payload_queues[a]
  /\ agents[a].status = "BUSY" => agents[a].quantum \in 5..1000

=============================================================================
