----------------------------- MODULE WalWriter ------------------------------
(***************************************************************************)
(* The single-writer queue of Runtime/wal_memory_manager.py: callers put   *)
(* operations on an unbounded queue, and a writer thread takes them in     *)
(* batches, each written in one transaction, and answers the futures that  *)
(* wait for them.  start() and stop() are called by one controlling thread,*)
(* the constructor's start() before anything else.                         *)
(*                                                                         *)
(* An operation is the n-th write to a key (step_id or key), so that a row *)
(* is the number of the write it holds.  "bad" operations are refused by   *)
(* SQLite (a value of a type it has no column for); "odd" ones raise       *)
(* something that is not a sqlite3.Error (an integer too large for SQLite).*)
(* The event loop of the callers runs throughout.                          *)
(***************************************************************************)
EXTENDS Integers, SequencesExt

CONSTANTS
  Key,         \* the primary keys written to
  Kind,        \* the kinds of operation that callers submit
  SlowWriter,  \* whether join(timeout=3.0) may give up on a busy writer
  MaxBatch,    \* operations in one transaction (100 in the code)
  MaxWrites,   \* bound: writes to one key
  MaxStarts,   \* bound: writer threads started
  MaxStops     \* bound: calls of stop()

ASSUME WriterAssumption ==
  /\ Kind \subseteq {"good", "bad", "odd"}
  /\ SlowWriter \in BOOLEAN
  /\ MaxBatch \in Nat \ {0} /\ MaxStarts \in Nat \ {0}
  /\ MaxWrites \in Nat /\ MaxStops \in Nat

VARIABLES
  queue,        \* _write_queue
  writes,       \* how many writes to each key were submitted
  table,        \* the write each row holds, or 0
  pending,      \* the operations whose future is not done
  answered,     \* the operations whose future is done, and whether with a result
  raised,       \* whether a batch was dropped by an unexpected exception
  writer,       \* where each thread is
  batch,        \* the batch each thread has taken
  starts,       \* threads started; the last one is _writer_thread
  stopEvent,    \* _stop_event
  initialized,  \* _initialized
  caller,       \* where the controlling thread is
  stops         \* calls of stop() so far

callers == <<writes, pending, answered>>
threads == <<writer, batch>>
control == <<starts, stopEvent, initialized, caller, stops>>
vars    == <<queue, table, raised, callers, threads, control>>

Thread == 1..MaxStarts
Operation == [key : Key, number : 1..MaxWrites, kind : Kind]
Shutdown  == [kind |-> "SHUTDOWN"]
Alive(t)  == writer[t] \notin {"unborn", "exited"}

Init ==
  /\ queue = <<>>
  /\ writes = [k \in Key |-> 0]
  /\ table = [k \in Key |-> 0]
  /\ pending = {} /\ answered = {} /\ raised = FALSE
  /\ writer = [t \in Thread |-> IF t = 1 THEN "looping" ELSE "unborn"]
  /\ batch = [t \in Thread |-> <<>>]
  /\ starts = 1 /\ stopEvent = FALSE /\ initialized = TRUE
  /\ caller = "idle" /\ stops = 0

-----------------------------------------------------------------------------
(* Callers *)

\* record_step_nowait, set_system_state_nowait (no future), record_step_async
\* with wait_flush (a future).
Submit(k, kind, waits) ==
  LET op == [key |-> k, number |-> writes[k] + 1, kind |-> kind]
  IN  /\ writes[k] < MaxWrites
      /\ writes' = [writes EXCEPT ![k] = @ + 1]
      /\ queue' = Append(queue, op)
      /\ pending' = IF waits THEN pending \cup {op} ELSE pending
      /\ UNCHANGED <<table, answered, raised, threads, control>>

\* Mutant: a manager that runs is started again.
MayStartAlways == TRUE

MayStart == ~initialized

\* start(), under its lock.
Start ==
  /\ caller = "idle"
  /\ MayStart
  /\ starts < MaxStarts
  /\ starts' = starts + 1
  /\ stopEvent' = FALSE
  /\ initialized' = TRUE
  /\ writer' = [writer EXCEPT ![starts + 1] = "looping"]
  /\ UNCHANGED <<queue, table, raised, callers, batch, caller, stops>>

\* stop(), first the event.
Stop ==
  /\ caller = "idle"
  /\ stops < MaxStops
  /\ stops' = stops + 1
  /\ stopEvent' = TRUE
  /\ caller' = "stopping"
  /\ UNCHANGED <<queue, table, raised, callers, threads, starts, initialized>>

\* Then, when the thread is still alive, the SHUTDOWN operation behind all others.
StopQueue ==
  /\ caller = "stopping"
  /\ IF Alive(starts)
       THEN queue' = Append(queue, Shutdown) /\ caller' = "joining" /\ UNCHANGED initialized
       ELSE caller' = "idle" /\ initialized' = FALSE /\ UNCHANGED queue
  /\ UNCHANGED <<table, raised, callers, threads, starts, stopEvent, stops>>

\* Then the join, which returns when the thread has ended or the time is over.
StopJoin ==
  /\ caller = "joining"
  /\ Alive(starts) => SlowWriter
  /\ caller' = "idle"
  /\ initialized' = FALSE
  /\ UNCHANGED <<queue, table, raised, callers, threads, starts, stopEvent, stops>>

-----------------------------------------------------------------------------
(* A writer thread: _writer_loop *)

Goto(t, place) == writer' = [writer EXCEPT ![t] = place]

Ends(op) == op = Shutdown

\* while not self._stop_event.is_set()
Loop(t) ==
  /\ writer[t] = "looping"
  /\ Goto(t, IF stopEvent THEN "exited" ELSE "waiting")
  /\ UNCHANGED <<queue, table, raised, callers, batch, control>>

\* get(timeout=0.05), which comes back empty-handed from an empty queue.
TakeFirst(t) ==
  /\ writer[t] = "waiting"
  /\ queue # <<>>
  /\ queue' = Tail(queue)
  /\ IF Ends(Head(queue))
       THEN Goto(t, "exited") /\ UNCHANGED batch
       ELSE Goto(t, "draining") /\ batch' = [batch EXCEPT ![t] = <<Head(queue)>>]
  /\ UNCHANGED <<table, raised, callers, control>>

TakeNothing(t) ==
  /\ writer[t] = "waiting"
  /\ queue = <<>>
  /\ Goto(t, "looping")
  /\ UNCHANGED <<queue, table, raised, callers, batch, control>>

\* get_nowait(), until the batch is full or the queue empty; SHUTDOWN is dropped.
Drain(t) ==
  /\ writer[t] = "draining"
  /\ IF Len(batch[t]) < MaxBatch /\ queue # <<>>
       THEN /\ queue' = Tail(queue)
            /\ IF Ends(Head(queue))
                 THEN Goto(t, "writing") /\ UNCHANGED batch
                 ELSE batch' = [batch EXCEPT ![t] = Append(@, Head(queue))] /\ UNCHANGED writer
       ELSE Goto(t, "writing") /\ UNCHANGED <<queue, batch>>
  /\ UNCHANGED <<table, raised, callers, control>>

\* The rows after the operations, in order; later writes replace earlier ones.
Written(ops) ==
  [k \in Key |->
     LET own == {i \in DOMAIN ops : ops[i].key = k}
     IN  IF own = {} THEN table[k] ELSE ops[Max(own)].number]

Faults(ops) == {i \in DOMAIN ops : ops[i].kind # "good"}

\* The transaction commits.
Commit(t) ==
  /\ writer[t] = "writing"
  /\ Faults(batch[t]) = {}
  /\ table' = Written(batch[t])
  /\ Goto(t, "resolving")
  /\ UNCHANGED <<queue, raised, callers, batch, control>>

\* Mutant: what was executed before the fault stays.
WithoutRollback(ops) == Written(SubSeq(ops, 1, Min(Faults(ops) \cup {Len(ops)}) - 1))

RolledBack(ops) == table

\* A sqlite3.Error, of the operation or of the database: nothing is written.
Refuse(t) ==
  /\ writer[t] = "writing"
  /\ Faults(batch[t]) # {} => batch[t][Min(Faults(batch[t]))].kind = "bad"
  /\ table' = RolledBack(batch[t])
  /\ Goto(t, "rejecting")
  /\ UNCHANGED <<queue, raised, callers, batch, control>>

\* Any other exception goes to the outer handler, which answers nobody.
Raise(t) ==
  /\ writer[t] = "writing"
  /\ Faults(batch[t]) # {}
  /\ batch[t][Min(Faults(batch[t]))].kind = "odd"
  /\ raised' = TRUE
  /\ Goto(t, "looping")
  /\ batch' = [batch EXCEPT ![t] = <<>>]
  /\ UNCHANGED <<queue, table, callers, control>>

\* Mutant: the answer goes to the first operation of the batch only.
AnsweredFirst(ops) == {Head(ops)}

AnsweredBy(ops) == ToSet(ops)

\* The futures of the batch get their result or their exception.
Answer(t) ==
  LET done == AnsweredBy(batch[t]) \cap pending
      ok   == writer[t] = "resolving"
  IN  /\ writer[t] \in {"resolving", "rejecting"}
      /\ pending' = pending \ done
      /\ answered' = answered \cup {[op |-> op, ok |-> ok] : op \in done}
      /\ Goto(t, "looping")
      /\ batch' = [batch EXCEPT ![t] = <<>>]
      /\ UNCHANGED <<queue, writes, table, raised, control>>

WriterStep(t) ==
  \/ Loop(t)
  \/ TakeFirst(t)
  \/ TakeNothing(t)
  \/ Drain(t)
  \/ Commit(t)
  \/ Refuse(t)
  \/ Raise(t)
  \/ Answer(t)

Next ==
  \/ \E k \in Key, kind \in Kind, waits \in BOOLEAN : Submit(k, kind, waits)
  \/ Start \/ Stop \/ StopQueue \/ StopJoin
  \/ \E t \in Thread : WriterStep(t)

\* A thread that can run is scheduled in the end; nobody has to submit, start or
\* stop anything.
Spec == Init /\ [][Next]_vars /\ \A t \in Thread : WF_vars(WriterStep(t))

-----------------------------------------------------------------------------
(* Properties *)

TypeOK ==
  /\ queue \in Seq(Operation \cup {Shutdown})
  /\ writes \in [Key -> 0..MaxWrites]
  /\ table \in [Key -> 0..MaxWrites]
  /\ pending \subseteq Operation
  /\ answered \subseteq [op : Operation, ok : BOOLEAN]
  /\ writer \in [Thread -> {"unborn", "looping", "waiting", "draining", "writing",
                            "resolving", "rejecting", "exited"}]
  /\ batch \in [Thread -> Seq(Operation)]
  /\ starts \in Thread /\ stops \in 0..MaxStops
  /\ stopEvent \in BOOLEAN /\ initialized \in BOOLEAN /\ raised \in BOOLEAN
  /\ caller \in {"idle", "stopping", "joining"}

\* One thread writes at a time ("Single dedicated writer thread"), through every
\* stop() and start(): on it the order of the rows depends.
OneWriter == \A t, u \in Thread : Alive(t) /\ Alive(u) => t = u

\* A row never falls back to an earlier write of its key, across batches, failed
\* transactions and restarts of the writer.
RowsNeverGoBack == [][\A k \in Key : table'[k] >= table[k]]_vars

\* Whoever was told that the write is flushed finds it in the table, or a later
\* one; whoever was told of an error does not find it.
AnswersTrue ==
  \A a \in answered : IF a.ok THEN table[a.op.key] >= a.op.number
                              ELSE table[a.op.key] # a.op.number

\* One thread writes, and what it answers is true: both parts, on states of the
\* right type.
WriterSound == TypeOK /\ OneWriter /\ AnswersTrue

\* As long as nobody calls stop() and no batch is dropped by an unexpected
\* exception, every caller that waits for its write is answered.
WaitersAnswered ==
  \A k \in Key, n \in 1..MaxWrites, kind \in Kind :
    LET op == [key |-> k, number |-> n, kind |-> kind]
    IN  op \in pending ~> op \notin pending \/ stops > 0 \/ raised

=============================================================================
