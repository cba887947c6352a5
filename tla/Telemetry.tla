------------------------------- MODULE Telemetry -------------------------------
(* Runtime/sarembok_telemetry.py: the spans of agent turns and of the tools they *)
(* invoke. trace_agent_turn() and trace_tool_invocation() are context managers;  *)
(* the blocks under them nest, in each agent's own thread.                       *)
EXTENDS Naturals, Sequences, SequencesExt

CONSTANTS TracedAgent,
          MaxSpans,    \* bound on the spans made
          MaxDepth     \* bound on the blocks an agent is in

ASSUME TelemetryAssumption == {MaxSpans, MaxDepth} \subseteq Nat

VARIABLES
  spans,      \* the spans in the order they were made: [agent, trace_id, parent, status]
  blocks,     \* agent -> the spans of the blocks it is in, innermost last
  collector,  \* spans the collector received, in order
  left        \* history: span -> how its block was left

telemetryVars == <<spans, blocks, collector, left>>

Leaving == {"open", "returned", "exception", "cancelled"}

TelemetryTypeOK ==
  /\ spans \in Seq([agent: TracedAgent, trace_id: 1..MaxSpans, parent: 0..MaxSpans,
                    status: {"OK", "ERROR"}])
  /\ Len(spans) <= MaxSpans /\ collector \in Seq(DOMAIN spans)
  /\ blocks \in [TracedAgent -> Seq(DOMAIN spans)]
  /\ left \in [DOMAIN spans -> Leaving]

TelemetryInit == /\ spans = <<>> /\ collector = <<>> /\ left = <<>>
                 /\ blocks = [a \in TracedAgent |-> <<>>]

Opens(a, trace_id, parent) ==
  /\ Len(spans) < MaxSpans /\ Len(blocks[a]) < MaxDepth
  /\ spans' = Append(spans, [agent |-> a, trace_id |-> trace_id, parent |-> parent, status |-> "OK"])
  /\ blocks' = [blocks EXCEPT ![a] = Append(@, Len(spans) + 1)]
  /\ left' = Append(left, "open")
  /\ UNCHANGED collector

\* A turn may be part of a trace it is told of, of which it names no parent.
trace_agent_turn(a) ==
  Opens(a, Len(spans) + 1, 0) \/ \E s \in DOMAIN spans: Opens(a, spans[s].trace_id, 0)

\* Mutant: a tool begins a trace.
TraceToolAlone(a) ==
  /\ blocks[a] # <<>>
  /\ Opens(a, Len(spans) + 1, Last(blocks[a]))

trace_tool_invocation(a) ==
  /\ blocks[a] # <<>>
  /\ Opens(a, spans[Last(blocks[a])].trace_id, Last(blocks[a]))

\* finish(): the span goes to the collector, which may not be there; nothing is
\* tried again.
finish(s, status) ==
  /\ spans' = [spans EXCEPT ![s].status = status]
  /\ collector' \in {collector, Append(collector, s)}

\* An exception finishes its span and is raised again: the block around is left by
\* it too, unless the agent catches it there. What is no Exception, a cancellation
\* for one, finishes no span on its way out of all blocks.
BlockReturns(a) ==
  /\ blocks[a] # <<>>
  /\ finish(Last(blocks[a]), "OK")
  /\ left' = [left EXCEPT ![Last(blocks[a])] = "returned"]
  /\ blocks' = [blocks EXCEPT ![a] = Front(@)]

BlockRaises(a) ==
  /\ blocks[a] # <<>>
  /\ finish(Last(blocks[a]), "ERROR")
  /\ left' = [left EXCEPT ![Last(blocks[a])] = "exception"]
  /\ blocks' = [blocks EXCEPT ![a] = Front(@)]

BlocksCancelled(a) ==
  /\ blocks[a] # <<>>
  /\ left' = [s \in DOMAIN left |-> IF s \in ToSet(blocks[a]) THEN "cancelled" ELSE left[s]]
  /\ blocks' = [blocks EXCEPT ![a] = <<>>]
  /\ UNCHANGED <<spans, collector>>

TelemetryNext == \E a \in TracedAgent:
  \/ trace_agent_turn(a) \/ trace_tool_invocation(a)
  \/ BlockReturns(a) \/ BlockRaises(a) \/ BlocksCancelled(a)

TelemetrySpec == TelemetryInit /\ [][TelemetryNext]_telemetryVars

----------------------------------------------------------------------------
\* What the collector received tells of blocks that are over, once each, with the
\* status they were left by; a tool is of the trace of the agent's turn around it,
\* and its span arrives before that turn's, whatever other agents send meanwhile.
SpansTold ==
  /\ TelemetryTypeOK
  /\ \A i, j \in DOMAIN collector:
       /\ i # j => collector[i] # collector[j]
       /\ i < j => spans[collector[j]].parent # collector[i]
  /\ \A i \in DOMAIN collector: LET s == collector[i] parent == spans[s].parent IN
       /\ left[s] = IF spans[s].status = "OK" THEN "returned" ELSE "exception"
       /\ parent # 0 => spans[parent].trace_id = spans[s].trace_id
                        /\ spans[parent].agent = spans[s].agent

=============================================================================
