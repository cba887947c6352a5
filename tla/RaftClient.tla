----------------------------- MODULE RaftClient -----------------------------
(***************************************************************************)
(* The callers of RaftNode.propose() over the engine of module Raft.       *)
(*                                                                         *)
(* propose() returns a promise that waits for the node's 'entryCommitted'  *)
(* event with the INDEX it appended at, or for a five-second timer.  A     *)
(* promise is a record of the node, the index and the entry it is about;   *)
(* "pending" holds the listeners still registered, "settled" every promise *)
(* that was resolved or rejected, with what the caller was told.           *)
(***************************************************************************)
EXTENDS Raft

VARIABLES pending, settled

clientVars == <<pending, settled>>

Committed == "COMMITTED"
TimedOut  == "TIMEOUT"

Settle(p, status, entry) == [promise |-> p, status |-> status, entry |-> entry]

\* The indexes for which this step emits 'entryCommitted' at node i: those
\* applyLogs() has gone through, but for one whose callback threw.
Emitted(i) ==
  {k \in (lastApplied[i] + 1)..lastApplied'[i] : log'[i][k].cmd \notin Poison}

\* Mutant: the listener waits for the position in the array, not the index.
ResolvesOffByOne(p) == p.index + 1 \in Emitted(p.node)

Resolves(p) == p.index \in Emitted(p.node)

\* onCommit of every listener, in the turn that emits; the listeners and their
\* timers are removed.
NotifyListeners(waiting) ==
  LET done == {p \in waiting : Resolves(p)}
  IN  /\ pending' = waiting \ done
      /\ settled' = settled \cup {Settle(p, Committed, log'[p.node][p.index]) : p \in done}

\* propose() and the promise it returns.  Alone in its cluster a node commits
\* and applies before it answers; a callback that throws rejects the promise
\* (left out: the caller then knows nothing of the entry).
ClientPropose(i, v) ==
  LET p == [node |-> i, index |-> Len(log[i]) + 1, entry |-> [term |-> currentTerm[i], cmd |-> v]]
  IN  /\ Propose(i, v)
      /\ NotifyListeners(pending \cup {p})

\* The five seconds are over: the listener goes, the entry stays in the log.
Timeout(p) ==
  /\ p \in pending
  /\ pending' = pending \ {p}
  /\ settled' = settled \cup {Settle(p, TimedOut, p.entry)}
  /\ UNCHANGED vars

\* Any other turn of the engine.
EngineTurn ==
  /\ \/ \E i \in Node : StartElection(i)
     \/ \E i \in Node : Heartbeat(i)
     \/ \E m \in messages : Deliver(m)
  /\ NotifyListeners(pending)

ClientInit == Init /\ pending = {} /\ settled = {}

ClientNext ==
  \/ \E i \in Node, v \in Value : ClientPropose(i, v)
  \/ \E p \in pending : Timeout(p)
  \/ EngineTurn

ClientSpec == ClientInit /\ [][ClientNext]_<<vars, clientVars>>

-----------------------------------------------------------------------------
(* Properties *)

\* A promise waits for an entry its node has not yet applied, or it could never
\* be resolved: propose() registers the listener after replicating, in the same
\* turn, before any reply can be handled.  The exception is an entry whose
\* callback threw: applyLogs() skips it, and its promise is left to time out.
PendingNotYetApplied ==
  \A p \in pending : p.index <= lastApplied[p.node] => log[p.node][p.index].cmd \in Poison

\* Whoever was told COMMITTED was handed the entry its node has applied at that
\* index, and it stays applied there: a later leader never takes it back.
ResolvedStaysApplied ==
  \A s \in settled : s.status = Committed =>
    LET i == s.promise.node
    IN  /\ s.promise.index <= lastApplied[i]
        /\ log[i][s.promise.index] = s.entry

\* Two callers told COMMITTED for one index, at whatever nodes, were handed one
\* entry: the acknowledgements of the cluster describe a single history.
AnswersAgree ==
  \A s1, s2 \in settled :
    s1.status = Committed /\ s2.status = Committed /\ s1.promise.index = s2.promise.index
      => s1.entry = s2.entry

\* The promises of propose() are kept: those that wait can be resolved, those that
\* were resolved stay true and agree (the three parts above).
PromisesTrue == PendingNotYetApplied /\ ResolvedStaysApplied /\ AnswersAgree

-----------------------------------------------------------------------------
(* What the clients see of the cluster *)

\* The entries that some node has committed, read at the node that has committed most.
CommittedLog ==
  LET top == CHOOSE i \in Node : \A j \in Node : commitIndex[j] <= commitIndex[i]
  IN  SubSeq(log[top], 1, commitIndex[top])

Resolved == {s.promise : s \in {t \in settled : t.status = Committed}}

\* The cluster is one log that only grows: what is committed is never cut or replaced,
\* every node applies a prefix of it, and who is told COMMITTED finds there, at the
\* index of the promise, the command proposed (onCommit compares only the index).
Clients == INSTANCE ReplicatedLog
             WITH Server <- Node, history <- CommittedLog, applied <- lastApplied, answers <- Resolved

OneLog == Clients!LSpec

=============================================================================
