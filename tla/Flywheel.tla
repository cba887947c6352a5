------------------------------ MODULE Flywheel ------------------------------
(***************************************************************************)
(* The flywheel of the Node kernel (fabric/src/runtime/fabric_kernel.js):  *)
(* concurrent calls of executeFlywheelTurn over the strategist, the        *)
(* workers, the auditor, the token budget guard, the loop mitigation and   *)
(* the transaction log.                                                    *)
(*                                                                         *)
(* JavaScript runs a turn without interruption from one await to the next. *)
(* A turn waits for its worker ("working": the executor runs and the timer *)
(* is armed) and then, "answered", for the microtasks that resume          *)
(* delegateToWorker and executeFlywheelTurn, which no timer comes between. *)
(* The two are one step: what the first does, nobody reads.                *)
(*                                                                         *)
(* An executor is the caller's function: it returns an output, throws, or  *)
(* never ends, and need not heed the abort signal.  What it returns is     *)
(* known by whether two outputs are similar and whether an audit passes;   *)
(* an output that is undefined is left out.                                *)
(***************************************************************************)
EXTENDS WalStore, Totals

CONSTANTS
  Session,   \* the identifiers of sessions
  Worker,    \* the registered workers
  MaxTurns,  \* bound: calls of executeFlywheelTurn, numbered as they begin
  Output,    \* classes of similar outputs
  Unsafe,    \* those an audit refuses
  HardCap,   \* the hard_cap that each session was created with
  Estimate,  \* estimatedTokens of a turn (150 by default)
  MaxReplaced  \* bound: rows that another record of the same millisecond replaces

ASSUME FlywheelAssumption ==
  /\ Unsafe \subseteq Output
  /\ "strategist" \notin Worker /\ "auditor" \notin Worker
  /\ MaxTurns \in Nat /\ HardCap \in [Session -> Nat]
  /\ Estimate \in Nat /\ MaxReplaced \in Nat

VARIABLES
  session,     \* session_state: global_status and token_burned
  agent,       \* agent_nodes: the status of each agent
  log,         \* transaction_log
  appends,     \* the rows ever appended, the rowid of the last
  removed,     \* history: the rows that INSERT OR REPLACE deleted, by rowid
  directives,  \* the sessions with a pending directive for the strategist
  turn,        \* where each call is
  overlapped   \* history: sessions and workers with two turns at a time

vars == <<session, agent, log, appends, removed, directives, turn, overlapped>>

Turn     == 1..MaxTurns
Agent    == Worker \union {"strategist", "auditor"}
Stopped  == {"FROZEN", "HALTED"}
Failed   == {"ERROR", "REJECTED"}   \* replies of a worker that carry no transaction
None     == "none"
Nobody   == "nobody"                \* a workerId without a handler
NoTx     == <<None, 0>>             \* the txId of a reply that carries none

\* The kinds of records whose identifiers are made of Date.now() alone.
Stamped == {"delegate", "yield"}

Idle == [phase |-> "new", session |-> None, worker |-> None, reply |-> None,
         output |-> None, tx |-> NoTx, outcome |-> None,
         executing |-> FALSE]

Init ==
  /\ session = [s \in Session |-> [status |-> "AWAITING_WORKLOAD", burned |-> 0]]
  /\ agent = [a \in Agent |-> "IDLE"]
  /\ log = <<>> /\ appends = 0 /\ removed = <<>>
  /\ directives = {}
  /\ turn = [t \in Turn |-> Idle]
  /\ overlapped = {}

-----------------------------------------------------------------------------
(* Records and their stamps.                                               *)

\* The tokens commitMicroStep burns for each kind of record.
Cost(kind) == CASE kind = "delegate" -> 10 [] kind = "exec" -> 15
                [] kind = "audit" -> 5 [] OTHER -> 0

\* The time in the identifier of the last row of a kind, if there is one.
LastStamp(kind) ==
  LET rows == {i \in DOMAIN log : log[i].kind = kind}
  IN IF rows = {} THEN {} ELSE {log[Max(rows)].id[2]}

\* What Date.now() gives for a record: a new time, which is known by the rowid it is
\* first used for, or that of the last record of the kind.
Stamps(kind) ==
  {appends + 1} \union {time \in LastStamp(kind) : Cardinality(DOMAIN removed) < MaxReplaced}

\* A mutation: an execution is known by the time of its subtask.
TaskIdByTime(kind, time) ==
  <<kind, IF kind = "exec" THEN Max(LastStamp("delegate") \union {0}) ELSE time>>

\* The identifiers of the other kinds have a random part, and are known by the rowid.
TaskId(kind, time) == <<kind, time>>

Row(kind, time, s, sender, output, passed) ==
  [id |-> TaskId(kind, time), session |-> s, sender |-> sender, kind |-> kind,
   output |-> output, passed |-> passed, committed |-> TRUE,
   prev |-> Genesis, step |-> 0]   \* which commitMicroStep fills in

\* appendTransaction: the row, and the tokens it burns beyond `spent'.
Record(row, spent, status) ==
  /\ log' = CommitMicroStep(log, appends + 1, row)
  /\ appends' = appends + 1
  /\ removed' = [i \in DOMAIN removed \union Replaced(log, row.id) |->
                   IF i \in DOMAIN removed THEN removed[i] ELSE log[i]]
  /\ session' = [session EXCEPT ![row.session].status = status,
                                ![row.session].burned = @ + spent + Cost(row.kind)]

SetAgent(a, status) == agent' = [agent EXCEPT ![a] = status]

-----------------------------------------------------------------------------
(* Workers.                                                                *)

\* registerWorker for an identifier in use: the row of the agent becomes IDLE.
RegisterWorker(w) ==
  /\ SetAgent(w, "IDLE")
  /\ UNCHANGED <<session, log, appends, removed, directives, turn, overlapped>>

-----------------------------------------------------------------------------
(* executeFlywheelTurn up to its first await.                              *)

End(t, s, w, outcome) ==
  turn' = [turn EXCEPT ![t] = [Idle EXCEPT !.phase = "done", !.session = s,
                                           !.worker = w, !.outcome = outcome]]

\* The policy verifier refuses the action, or the session cannot run.
Refuse(t, s, w) ==
  /\ \/ End(t, s, w, "FORMAL_POLICY_REJECTED")
     \/ session[s].status = "HALTED" /\ End(t, s, w, "THROWN")
  /\ UNCHANGED <<session, agent, log, appends, removed, directives, overlapped>>

OverCap(s) == session[s].burned + Estimate >= HardCap[s]

\* recordAndVerify reaches the cap: triggerSafeHalt, and the turn throws.
SafeHalt(t, s, w) ==
  /\ session[s].status # "HALTED" /\ OverCap(s)
  /\ Record(Row("halt", appends + 1, s, "KERNEL_GUARDRAIL", None, FALSE), Estimate, "HALTED")
  /\ agent' = [a \in Agent |-> "HALTED"]
  /\ End(t, s, w, "THROWN")
  /\ UNCHANGED <<directives, overlapped>>

\* The worker's part of the delegation: executeTaskWithGuardrails to its await.
Delegated(t, s, w) ==
  IF w = Nobody
    THEN SetAgent("strategist", "BUSY") /\ End(t, s, w, "THROWN")
    ELSE LET refused == agent[w] \in Stopped
         IN /\ agent' = [a \in Agent |-> IF a = "strategist" \/ (a = w /\ ~refused)
                                            THEN "BUSY" ELSE agent[a]]
            /\ turn' = [turn EXCEPT ![t] =
                 [Idle EXCEPT !.session = s, !.worker = w,
                              !.phase = IF refused THEN "answered" ELSE "working",
                              !.reply = IF refused THEN "REJECTED" ELSE None,
                              !.executing = ~refused]]

At(t, s, w) == turn[t].session = s /\ turn[t].worker = w

Busy(t) == turn[t].executing \/ turn[t].phase = "answered"

\* The turn is admitted: the estimate is burned, the delegation recorded and sent.
Delegate(t, s, w) ==
  /\ session[s].status # "HALTED" /\ ~OverCap(s)
  /\ \E time \in Stamps("delegate") :
       Record(Row("delegate", time, s, "strategist", None, FALSE), Estimate, "RUNNING")
  /\ directives' = directives \ {s}
  /\ Delegated(t, s, w)
  /\ overlapped' = overlapped \union {p \in {<<s, w>>} : \E u \in Turn : At(u, s, w) /\ Busy(u)}

Begin(t, s, w) ==
  /\ turn[t].phase = "new" /\ \A u \in 1..(t - 1) : turn[u].phase # "new"
  /\ Refuse(t, s, w) \/ SafeHalt(t, s, w) \/ Delegate(t, s, w)

-----------------------------------------------------------------------------
(* The worker.                                                             *)

\* What the race hears of an executor that ends: nothing once the timer won.
Reply(t, reply, output, tx) ==
  turn' = [turn EXCEPT ![t] =
    IF @.phase = "working"
      THEN [@ EXCEPT !.phase = "answered", !.reply = reply, !.output = output,
                     !.tx = tx, !.executing = FALSE]
      ELSE [@ EXCEPT !.executing = FALSE]]

\* The executor returns: its step is recorded whether or not anybody waits.
ExecutorReturns(t, output) ==
  LET w == turn[t].worker
      s == turn[t].session
  IN /\ turn[t].executing
     /\ Record(Row("exec", appends + 1, s, w, output, FALSE), 0, session[s].status)
     /\ SetAgent(w, "IDLE")
     /\ Reply(t, "SUCCESS", output, TaskId("exec", appends + 1))
     /\ UNCHANGED <<directives, overlapped>>

ExecutorThrows(t) ==
  /\ turn[t].executing
  /\ SetAgent(turn[t].worker, "IDLE")
  /\ Reply(t, "ERROR", None, NoTx)
  /\ UNCHANGED <<session, log, appends, removed, directives, overlapped>>

MicrotasksPending == \E t \in Turn : turn[t].phase = "answered"

\* A mutation: the worker has one timer, and a new task takes it over.
TimerArmedOnce(t) == turn[t].phase = "working" /\ \A u \in (t + 1)..MaxTurns : turn[u].phase = "new"

\* The timer is the task's own.
TimerArmed(t) == turn[t].phase = "working"

\* The timer: the worker yields to the operator while its executor runs on.
Timeout(t) ==
  LET w == turn[t].worker
      s == turn[t].session
  IN /\ TimerArmed(t) /\ ~MicrotasksPending
     /\ \E time \in Stamps("yield") :
          Record(Row("yield", time, s, w, None, FALSE), 0, session[s].status)
     /\ SetAgent(w, "IDLE")
     /\ turn' = [turn EXCEPT ![t].phase = "answered", ![t].reply = "YIELDED"]
     /\ UNCHANGED <<directives, overlapped>>

-----------------------------------------------------------------------------
(* executeFlywheelTurn after the delegation.                               *)

Window == 5
Successive == 3

\* evaluateTurns: among the last of these steps, outputs similar over three
\* successive ones.
LoopAmong(steps) ==
  LET recent == RecentTransactions(steps, Window)
  IN \E i, k \in recent :
       LET run == {j \in recent : i <= j /\ j <= k}
       IN /\ Cardinality(run) = Successive
          /\ \A j \in run : log[j].kind = "exec" /\ log[j].output = log[i].output

LoopDetected(s, w) == LoopAmong(StepsOf(log, s, w))

\* mitigateLoop: the step of the turn, or else the session's last if the worker's.
Offending(t) ==
  LET latest == LatestTransaction(log, turn[t].session)
  IN IF turn[t].tx # NoTx THEN {turn[t].tx}
     ELSE {log[i].id : i \in {j \in latest : log[j].sender = turn[t].worker}}

\* delegateToWorker ends, and then an agent is given a status.
Resumed(a, status) == agent' = [agent EXCEPT !["strategist"] = "IDLE", ![a] = status]

Finish(t, outcome) ==
  turn' = [turn EXCEPT ![t].phase = "done", ![t].outcome = outcome]

Mitigate(t) ==
  /\ LoopDetected(turn[t].session, turn[t].worker)
  /\ Resumed(turn[t].worker, "FROZEN")
  /\ log' = RollbackStep(log, Offending(t))
  /\ directives' = directives \union {turn[t].session}
  /\ Finish(t, "LOOP_INTERCEPTED")
  /\ UNCHANGED <<session, appends, removed, overlapped>>

\* The auditor throws on the missing output of a failed reply, and stays BUSY.
AuditThrows(t) ==
  /\ turn[t].reply \in Failed
  /\ Resumed("auditor", "BUSY")
  /\ Finish(t, "THROWN")
  /\ UNCHANGED <<session, log, appends, removed, directives, overlapped>>

\* auditTaskExecution and assertVerificationSignature.
Audit(t) ==
  LET s      == turn[t].session
      output == turn[t].output
      passed == output \notin Unsafe
  IN /\ turn[t].reply \notin Failed
     /\ Record(Row("audit", appends + 1, s, "auditor", output, passed), 0, session[s].status)
     /\ Resumed("auditor", "IDLE")
     /\ Finish(t, IF passed THEN "SUCCESS" ELSE "THROWN")
     /\ UNCHANGED <<directives, overlapped>>

Yield(t) ==
  /\ turn[t].reply = "YIELDED"
  /\ Resumed("strategist", "IDLE")
  /\ Finish(t, "YIELDED")
  /\ UNCHANGED <<session, log, appends, removed, directives, overlapped>>

Conclude(t) ==
  /\ turn[t].phase = "answered"
  /\ \/ Yield(t)
     \/ turn[t].reply # "YIELDED" /\ Mitigate(t)
     \/ /\ turn[t].reply # "YIELDED" /\ ~LoopDetected(turn[t].session, turn[t].worker)
        /\ AuditThrows(t) \/ Audit(t)

-----------------------------------------------------------------------------

Next ==
  \/ \E w \in Worker : RegisterWorker(w)
  \/ \E t \in Turn :
       \/ \E s \in Session, w \in Worker \union {Nobody} : Begin(t, s, w)
       \/ \E output \in Output : ExecutorReturns(t, output)
       \/ ExecutorThrows(t)
       \/ Timeout(t)
       \/ Conclude(t)

\* Some timer fires and some microtask runs while any can (turns being finitely many,
\* then each does); an executor owes nobody an end.
Fairness == WF_vars(\E t \in Turn : Timeout(t)) /\ WF_vars(\E t \in Turn : Conclude(t))

Spec == Init /\ [][Next]_vars /\ Fairness

-----------------------------------------------------------------------------
(* Properties.                                                             *)

\* Every variable has the shape of the table or field it stands for.
TypeOK ==
  /\ session \in [Session -> [status : {"AWAITING_WORKLOAD", "RUNNING", "HALTED"},
                              burned : Nat]]
  /\ agent \in [Agent -> {"IDLE", "BUSY"} \union Stopped]
  /\ appends \in Nat
  /\ \A i \in DOMAIN log :
       /\ i \in 1..appends /\ log[i].step \in 1..appends
       /\ log[i].session \in Session
       /\ log[i].sender \in Agent \union {"KERNEL_GUARDRAIL"}
  /\ directives \subseteq Session
  /\ \A t \in Turn :
       /\ turn[t].phase \in {"new", "working", "answered", "done"}
       /\ turn[t].phase = "working" => turn[t].executing
       /\ turn[t].phase = "done" <=> turn[t].outcome # None
       /\ turn[t].reply \in {None, "SUCCESS", "YIELDED"} \union Failed
       /\ turn[t].outcome \in {None, "SUCCESS", "YIELDED", "LOOP_INTERCEPTED", "THROWN",
                               "FORMAL_POLICY_REJECTED"}

\* However turns, late answers, halts and rollbacks of several sessions mix,
\* verifyIntegrity finds the hash chain of a session whole of which no row was taken
\* out: a row is only by another turn whose identifier has the same millisecond, and
\* of no other session does the chain break by it (wal_store.js verifyIntegrity
\* against commitMicroStep and rollbackStep).
LedgerVerifies ==
  \A s \in Session : RowsOf(removed, s) = {} => VerifyIntegrity(log, s)

\* What was spent on a record, the estimate of an admitted or halting turn included.
Spent(kind) == Cost(kind) + IF kind \in {"delegate", "halt"} THEN Estimate ELSE 0

\* What the row of this rowid cost the session, if it is among these and the session's.
Expense(rows, s, i) ==
  IF i \in DOMAIN rows /\ rows[i].session = s THEN Spent(rows[i].kind) ELSE 0

\* token_burned of a session is what all its records, those that were replaced
\* included, and the estimates of its turns add up to: no step is free, charged twice
\* or charged elsewhere (burnTokens in commitMicroStep and in recordAndVerify).
TokensAccounted ==
  \A s \in Session :
    session[s].burned =
      Total([i \in 1..appends |-> Expense(log, s, i) + Expense(removed, s, i)], appends)

\* A turn that answers SUCCESS left in its own session the step that made its
\* safe output and, after it, an audit of that very output that passed,
\* whatever other turns recorded in between (executeFlywheelTurn, requestAudit).
SuccessRecorded ==
  \A t \in Turn : turn[t].outcome = "SUCCESS" =>
    \E i, j \in DOMAIN log :
      /\ i < j
      /\ log[i].id = turn[t].tx /\ log[i].output = turn[t].output
      /\ log[j].kind = "audit" /\ log[j].passed /\ log[j].output = turn[t].output
      /\ {log[i].session, log[j].session} = {turn[t].session}
      /\ turn[t].output \notin Unsafe

\* Mitigating a loop takes back no step of a turn that answered SUCCESS, in a
\* session where every worker's reply carried its transaction
\* (mitigateLoop with uncommittedTxId).
SuccessKept ==
  \A t \in Turn :
    /\ turn[t].outcome = "SUCCESS"
    /\ \A u \in Turn : turn[u].session = turn[t].session => turn[u].reply \notin Failed
    => \E i \in DOMAIN log : log[i].id = turn[t].tx /\ log[i].committed

\* When a worker has had the turns of a session one at a time and answered each in
\* time, no loop is left among its steps once nothing waits to be judged
\* (evaluateTurns and mitigateLoop).
LoopsBroken ==
  \A s \in Session, w \in Worker :
    /\ <<s, w>> \notin overlapped
    /\ \A t \in Turn : At(t, s, w) => turn[t].phase # "answered" /\ turn[t].reply # "YIELDED"
    => ~LoopDetected(s, w)

\* SUCCESS is backed by the records and no loop is left: the three parts above, on
\* states of the right type.
TurnsBacked == TypeOK /\ SuccessRecorded /\ SuccessKept /\ LoopsBroken

\* A turn that has begun ends, even if its executor never does: the race with the
\* timer answers it (executeTaskWithGuardrails). Calls being finitely many, there
\* comes a time from which none waits.
TurnsEnd == <>[](\A t \in Turn : turn[t].phase \in {"new", "done"})

=============================================================================
