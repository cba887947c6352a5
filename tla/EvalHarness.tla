----------------------------- MODULE EvalHarness -----------------------------
(* Runtime/eval_harness.py: a harness that evaluates trajectories of tool    *)
(* calls one after the other, with one LoopDetector for all of them, and the *)
(* distributor that ranks tasks by the reports. A call is <<tool, args>>.    *)
EXTENDS Integers, Sequences, FiniteSets, SequencesExt

CONSTANTS Call,      \* the calls agents attempt
          Raising,   \* the calls whose tool raises
          Registry,  \* registered tool -> its descriptor [id, permissions, risk]
          Policy,    \* [allowed, permissions, high_risk, critical]
          MaxSteps,  \* 20 in the code
          MaxCalls,  \* bound on the calls of a trajectory
          Workload   \* tasks to rank: [role, complexity, steps, gpu, override]

ASSUME HarnessAssumption ==
  /\ MaxSteps \in 0..25 /\ MaxCalls \in Nat
  /\ \A t \in Workload: /\ {t.complexity, t.steps} \subseteq Nat
                        /\ t.override \in Int

VARIABLES
  history,   \* of the loop detector
  attempts,  \* [call, status]: the executed attempts of the trajectory
  harness,   \* where evaluate_trajectory stands
  report     \* what it returned: [loop, timed_out, tier, attempts]

evalVars == <<history, attempts, harness, report>>

Status == {"SUCCESS", "FAILED", "POLICY_DENIED", "LOOP_DETECTED", "TIMED_OUT", "UNREGISTERED"}
Tier == {"LOCAL_SANDBOX", "CLOUD_RTX4090_A100"}
NoEvaluation == [loop |-> FALSE, timed_out |-> FALSE, tier |-> "LOCAL_SANDBOX", attempts |-> <<>>]

EvalTypeOK ==
  /\ history \in Seq(Call)
  /\ attempts \in Seq([call: Call, status: Status])
  /\ harness \in {"idle", "next", "running", "leaving"}
  /\ report.tier \in Tier

EvalInit == /\ history = <<>> /\ attempts = <<>>
            /\ harness = "idle" /\ report = NoEvaluation

----------------------------------------------------------------------------
\* What the harness is made with when it is given nothing else.
Tool(id, permission, risk) == [id |-> id, permissions |-> {permission}, risk |-> risk]
DefaultTools == {Tool("kernel.observe_system", "system.read", "low"),
                 Tool("memory.semantic_search", "memory.read", "low"),
                 Tool("planner.decompose_task", "plan.create", "low"),
                 Tool("code.execute_sandbox", "sandbox.exec", "moderate"),
                 Tool("hardware.cloud_allocate", "hardware.high_cost", "high"),
                 Tool("audit.verify_signature", "audit.read", "low")}
DefaultRegistry == [id \in {d.id : d \in DefaultTools} |-> CHOOSE d \in DefaultTools: d.id = id]
DefaultPolicy ==
  [allowed |-> {d.id : d \in DefaultTools} \ {"hardware.cloud_allocate"},
   permissions |-> {"system.read", "memory.read", "plan.create", "sandbox.exec", "audit.read"},
   high_risk |-> FALSE, critical |-> FALSE]

\* CapabilityPolicy.permits() (sarembok_capabilities.py)
permits(d) ==
  /\ d.id \in Policy.allowed
  /\ d.permissions \subseteq Policy.permissions
  /\ d.risk = "high" => Policy.high_risk
  /\ d.risk = "critical" => Policy.critical

\* CapabilityRegistry.describe()
Unregistered(call) == call[1] \notin DOMAIN Registry
Denied(call) == ~Unregistered(call) /\ ~permits(Registry[call[1]])

(* LoopDetector.inspect_step, on the history with the new call in it         *)
Recent(h, n) == SubSeq(h, Len(h) - n + 1, Len(h))
Repeats(h) == Len(h) >= 3 /\ Cardinality(ToSet(Recent(h, 3))) = 1
Cycles(h, n) == Len(h) >= 2 * n /\ LET r == Recent(h, 2 * n) IN
  /\ \A i \in 1..n: r[i] = r[i + n]
  /\ Cardinality(ToSet(r)) = n

\* Entropy of the tool names below 0.4 with at most two names: the rarer name
\* occurs not at all, or once in thirteen calls or more (twice in 26, and so on,
\* is beyond the budget of steps).
Collapses(h) == Len(h) >= 6 /\ \E t \in {h[i][1] : i \in DOMAIN h}:
  LET others == {i \in DOMAIN h: h[i][1] # t} IN
  others = {} \/ (Len(h) >= 13 /\ Cardinality(others) = 1)

inspect_step(h) == Len(h) > MaxSteps \/ Repeats(h) \/ Cycles(h, 2) \/ Cycles(h, 3) \/ Collapses(h)

----------------------------------------------------------------------------
(* evaluate_trajectory                                                       *)
\* Mutant: the loop detector is not reset.
TrajectoryStartsOn ==
  /\ harness = "idle"
  /\ harness' = "next"
  /\ attempts' = <<>> /\ report' = NoEvaluation
  /\ UNCHANGED history

TrajectoryStarts ==
  /\ harness = "idle"
  /\ harness' = "next"
  /\ history' = <<>> /\ attempts' = <<>> /\ report' = NoEvaluation

Attempted(call, status) == attempts' = Append(attempts, [call |-> call, status |-> status])

\* evaluate_step up to the submission of the tool: the detector first, then the
\* registry, then the policy; only a loop ends the trajectory.
StepBegins(call) ==
  /\ harness = "next" /\ Len(attempts) < MaxCalls
  /\ history' = Append(history, call)
  /\ \/ inspect_step(history') /\ Attempted(call, "LOOP_DETECTED") /\ harness' = "leaving"
     \/ /\ ~inspect_step(history') /\ Unregistered(call)
        /\ Attempted(call, "UNREGISTERED") /\ UNCHANGED harness
     \/ /\ ~inspect_step(history') /\ Denied(call)
        /\ Attempted(call, "POLICY_DENIED") /\ UNCHANGED harness
     \/ /\ ~inspect_step(history') /\ ~Unregistered(call) /\ ~Denied(call)
        /\ harness' = "running" /\ UNCHANGED attempts
  /\ UNCHANGED report

ToolReturns ==
  /\ harness = "running"
  /\ Attempted(Last(history), IF Last(history) \in Raising THEN "FAILED" ELSE "SUCCESS")
  /\ harness' = "next"
  /\ UNCHANGED <<history, report>>

ToolTimesOut ==
  /\ harness = "running"
  /\ Attempted(Last(history), "TIMED_OUT")
  /\ harness' = "leaving"
  /\ UNCHANGED <<history, report>>

Count(status) == Cardinality({i \in DOMAIN attempts: attempts[i].status = status})

\* The score, 1 at first: times 0.1 for a loop, 0.3 for a time-out, less 0.3 for
\* every denial and 0.4 for every unknown tool, over all steps; at least 0.85.
Stable == LET n == Len(attempts) IN
  /\ Count("LOOP_DETECTED") = 0 /\ Count("TIMED_OUT") = 0
  /\ 30 * Count("POLICY_DENIED") + 40 * Count("UNREGISTERED") <= 15 * n

\* After the last call of the trajectory, or a break.
TrajectoryEnds ==
  /\ harness \in {"next", "leaving"}
  /\ report' = [loop |-> Count("LOOP_DETECTED") > 0, timed_out |-> Count("TIMED_OUT") > 0,
                tier |-> IF Stable THEN "CLOUD_RTX4090_A100" ELSE "LOCAL_SANDBOX",
                attempts |-> attempts]
  /\ harness' = "idle" /\ attempts' = <<>>
  /\ UNCHANGED history

EvalNext == \/ TrajectoryStarts \/ ToolReturns \/ ToolTimesOut \/ TrajectoryEnds
            \/ \E call \in Call: StepBegins(call)

EvalSpec == EvalInit /\ [][EvalNext]_evalVars

----------------------------------------------------------------------------
(* RuntimeTaskDistributor.rank_workloads: tasks of which one has the report, *)
(* scores in units of 1/10000                                                *)
RoleWeight(role, degraded) ==
  CASE role = "STRATEGIST" -> IF degraded THEN 160 ELSE 125
    [] role = "WORKER" -> IF degraded THEN 80 ELSE 100
    [] role = "AUDITOR" -> 110
    [] OTHER -> 100

Penalized(t, evaluated) == t = evaluated /\ (report.loop \/ report.timed_out)

Score(t, evaluated, degraded) ==
  LET steps == IF t.steps > 20 THEN 20 ELSE t.steps
      s == 45 * RoleWeight(t.role, degraded) + 35 * t.complexity - 50 * steps + t.override
  IN IF Penalized(t, evaluated) THEN s \div 2 ELSE s

HardwareTier(t, evaluated, degraded) ==
  IF t.gpu /\ ~Penalized(t, evaluated) /\ Score(t, evaluated, degraded) >= 6500
    THEN "CLOUD_RTX4090_A100" ELSE "LOCAL_SANDBOX"

----------------------------------------------------------------------------
\* There is a loop in calls: three equal calls in a row, two or three calls in turn
\* twice over, six calls of one tool at the beginning, thirteen there of which all
\* but one are, or too many calls.
Loops(calls) ==
  \/ Len(calls) > MaxSteps
  \/ \E i \in 1..Len(calls) - 2: calls[i] = calls[i + 1] /\ calls[i] = calls[i + 2]
  \/ \E i \in 1..Len(calls), n \in 2..3: i + 2 * n - 1 <= Len(calls) /\
       \A j, k \in 0..2 * n - 1: calls[i + j] = calls[i + k] <=> j % n = k % n
  \/ Len(calls) >= 6 /\ \A i \in 1..6: calls[i][1] = calls[1][1]
  \/ Len(calls) >= 13 /\ \E k \in 1..13: Cardinality({i \in 1..13: calls[i][1] # calls[k][1]}) = 1

\* What a report says of loops is true of its own calls, wherever in them the
\* loop lies and whatever was evaluated before; and cloud hardware is for
\* trajectories of which at least half was permitted.
LoopsTold ==
  LET n == Len(report.attempts)
      refused == {i \in 1..n: report.attempts[i].status \in {"POLICY_DENIED", "UNREGISTERED"}}
  IN /\ report.loop <=> Loops([i \in 1..n |-> report.attempts[i].call])
     /\ report.tier = "CLOUD_RTX4090_A100" => ~report.loop /\ ~report.timed_out
                                               /\ 2 * Cardinality(refused) <= n

\* A task whose agent looped or timed out is never ranked above a task that is as
\* important in every respect and has no such report, nor given cloud hardware,
\* be the retrieval degraded or not; an override that takes scores below zero, where
\* to halve one is to raise it, is left out.
LoopingNotAhead == \A t, u \in Workload, degraded \in BOOLEAN:
  /\ Penalized(t, t) => HardwareTier(t, t, degraded) = "LOCAL_SANDBOX"
  /\ Penalized(t, t) /\ t # u /\ t.role = u.role /\ t.complexity <= u.complexity
     /\ t.steps >= u.steps /\ t.override <= u.override /\ Score(u, t, degraded) >= 0
       => Score(t, t, degraded) <= Score(u, t, degraded)

\* A report is true and costs its task what it should (evaluate_trajectory and
\* rank_workloads): both parts, on states of the right type.
ReportTrue == EvalTypeOK /\ LoopsTold /\ LoopingNotAhead

=============================================================================
