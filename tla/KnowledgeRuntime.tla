-------------------------- MODULE KnowledgeRuntime --------------------------
(***************************************************************************)
(* The persistent knowledge runtime of Runtime/: PersistentKnowledgeRuntime*)
(* (sarembok_knowledge_runtime.py) behind KnowledgeRuntimeAPI, with its    *)
(* event log, reducer, snapshots, recovery and SQLite backend.             *)
(*                                                                         *)
(* Processes share one database file and keep, each in memory, the log it  *)
(* hydrated (of which only the length matters: it is a prefix of the table)*)
(* and the state its reducer holds.  One action is what a process does     *)
(* between two statements of the database; a crash falls between any two.  *)
(*                                                                         *)
(* Abstractions: event ids are fresh uuids, so that their UNIQUE index     *)
(* never bites; a digest is whether the stored snapshot is intact; titles, *)
(* reasons and the in-process bus, which only repeats an event that was    *)
(* already applied, are left out.                                          *)
(***************************************************************************)
EXTENDS Integers, FiniteSets, FiniteSetsExt, Functions, KnowledgeLifecycle

CONSTANTS
  Process,       \* the processes that open the database
  Checkpointer,  \* those among them that write checkpoints
  Knowledge,     \* the identifiers of pieces of knowledge
  Initial,       \* the initial states they are created in
  Absent,        \* no entity, no reducer entry
  MaxEvents,     \* bound: rows of knowledge_events
  MaxCrashes     \* bound: crashes of all processes together

ASSUME KnowledgeAssumption ==
  /\ Absent \notin LifecycleState
  /\ Checkpointer \subseteq Process
  /\ Initial \subseteq LifecycleState
  /\ MaxEvents \in Nat
  /\ MaxCrashes \in Nat

VARIABLES
  entities,    \* table knowledge_entities: the initial state, or Absent
  events,      \* table knowledge_events, a function of the sequence number
  snapshots,   \* table knowledge_snapshots, a function of last_sequence
  status,      \* where each process is
  logged,      \* len(event_log._entries) of each process
  reduced,     \* reducer._state of each process
  held,        \* the checkpoint or sequence number a process has read
  crashes

database == <<entities, events, snapshots>>
memory   == <<status, logged, reduced, held>>
vars     == <<database, memory, crashes>>

\* Down; the log hydrated; recover() under way in the constructor or later;
\* checkpoint() under way; between two calls.
Status == {"down", "hydrated", "booting", "recovering", "checkpointing", "ready"}

NoEntry == [state |-> Absent, sequence |-> 0]
Nothing == [k \in Knowledge |-> NoEntry]
Fresh   == [sequence |-> 0, states |-> Nothing]

Event(k, from, to) == [knowledge |-> k, from |-> from, to |-> to]

Sequences   == DOMAIN events
LastEvent   == IF Sequences = {} THEN 0 ELSE Max(Sequences)
HasNoGap(S) == S = 1..Cardinality(S)

-----------------------------------------------------------------------------
(* The reducer.  Applying the events of sequence numbers first..last, in   *)
(* order, to states: it succeeds when every event finds the state it leaves*)
(* or no state at all, and ends with the last event of every identifier.   *)

Touching(k, first, last) == {n \in first..last : events[n].knowledge = k}

StateBefore(states, first, n) ==
  LET k       == events[n].knowledge
      earlier == Touching(k, first, n - 1)
  IN  IF earlier = {} THEN states[k].state ELSE events[Max(earlier)].to

Applies(states, first, last) ==
  \A n \in first..last :
    /\ events[n].from # events[n].to
    /\ StateBefore(states, first, n) \in {Absent, events[n].from}
    /\ n > states[events[n].knowledge].sequence

Reduce(states, first, last) ==
  [k \in Knowledge |->
     LET own == Touching(k, first, last)
     IN  IF own = {} THEN states[k]
                     ELSE [state |-> events[Max(own)].to, sequence |-> Max(own)]]

\* Mutant: an entity without events is taken for newly discovered.
CurrentStateByDefault(p, k) ==
  IF reduced[p][k].state = Absent THEN "discovered" ELSE reduced[p][k].state

\* get_state() of a process, or the initial state of the entity.
CurrentState(p, k) ==
  IF reduced[p][k].state = Absent THEN entities[k] ELSE reduced[p][k].state

-----------------------------------------------------------------------------
Init ==
  /\ entities = [k \in Knowledge |-> Absent]
  /\ events = [n \in {} |-> Event(Absent, Absent, Absent)]
  /\ snapshots = [n \in {} |-> [states |-> Nothing, intact |-> TRUE]]
  /\ status = [p \in Process |-> "down"]
  /\ logged = [p \in Process |-> 0]
  /\ reduced = [p \in Process |-> Nothing]
  /\ held = [p \in Process |-> Fresh]
  /\ crashes = 0

\* Mutant: the loop's counter is taken, which is one ahead of the entries.
HydratedOneMore == Cardinality(Sequences) + 1

HydratedLength == Cardinality(Sequences)

\* The constructor reads the whole event table; a gap is an exception, and the
\* process does not come up.
Hydrate(p) ==
  /\ status[p] = "down"
  /\ HasNoGap(Sequences)
  /\ status' = [status EXCEPT ![p] = "hydrated"]
  /\ logged' = [logged EXCEPT ![p] = HydratedLength]
  /\ UNCHANGED <<database, reduced, held, crashes>>

Valid == {n \in DOMAIN snapshots : snapshots[n].intact}

\* Of the snapshots whose digest is right, the latest; without one, recovery
\* replays from the beginning.
BestCheckpoint ==
  IF Valid = {} THEN Fresh
                ELSE [sequence |-> Max(Valid), states |-> snapshots[Max(Valid)].states]

\* recover(), first statement: the checkpoint to start from.
LoadCheckpoint(p) ==
  /\ status[p] \in {"hydrated", "ready"}
  /\ status' = [status EXCEPT ![p] = IF @ = "hydrated" THEN "booting" ELSE "recovering"]
  /\ held' = [held EXCEPT ![p] = BestCheckpoint]
  /\ UNCHANGED <<database, logged, reduced, crashes>>

\* Mutant: the event the checkpoint ends with is replayed once more.
DeltaWithOverlap(sequence) == {n \in Sequences : n >= sequence /\ n > 0}

Delta(sequence) == {n \in Sequences : n > sequence}

\* Whether a process that holds this checkpoint can replay what follows it.
CanReplay(checkpoint) ==
  LET first == checkpoint.sequence + 1
      delta == Delta(checkpoint.sequence)
  IN  /\ delta = first..(checkpoint.sequence + Cardinality(delta))
      /\ Applies(checkpoint.states, first, LastEvent)

\* recover(), second statement: the events after the checkpoint are replayed.
ReplayEvents(p) ==
  /\ status[p] \in {"booting", "recovering"}
  /\ CanReplay(held[p])
  /\ status' = [status EXCEPT ![p] = "ready"]
  /\ reduced' = [reduced EXCEPT ![p] =
       Reduce(held[p].states, held[p].sequence + 1, LastEvent)]
  /\ held' = [held EXCEPT ![p] = Fresh]
  /\ UNCHANGED <<database, logged, crashes>>

\* Mutant: the reducer is emptied before the replay, as rebuild() does.
ReducerEmptied(p) == Nothing

ReducerAfterFailure(p) == reduced[p]

\* The replay raises: a constructor fails, a later recover() leaves the old
\* reducer in place.
ReplayFails(p) ==
  /\ status[p] \in {"booting", "recovering"}
  /\ ~CanReplay(held[p])
  /\ status' = [status EXCEPT ![p] = IF @ = "booting" THEN "down" ELSE "ready"]
  /\ logged' = [logged EXCEPT ![p] = IF status[p] = "booting" THEN 0 ELSE @]
  /\ reduced' = [reduced EXCEPT ![p] = ReducerAfterFailure(p)]
  /\ held' = [held EXCEPT ![p] = Fresh]
  /\ UNCHANGED <<database, crashes>>

CreateKnowledge(p, k, state) ==
  /\ status[p] = "ready"
  /\ entities[k] = Absent
  /\ entities' = [entities EXCEPT ![k] = state]
  /\ UNCHANGED <<events, snapshots, memory, crashes>>

\* Mutant: the reducer keeps the state an event leaves, not the one it enters.
EntryBefore(event, n) == [state |-> event.from, sequence |-> n]

EntryOf(event, n) == [state |-> event.to, sequence |-> n]

\* publish(): the event is appended to the log in memory and inserted under the
\* next sequence number of that log.  The reducer follows; if it refuses the
\* event, the row stays.
PublishStored(p, event) ==
  LET n       == logged[p] + 1
      entry   == reduced[p][event.knowledge]
      accepts == /\ event.from # event.to
                 /\ entry.state \in {Absent, event.from}
                 /\ n > entry.sequence
  IN  /\ n \notin Sequences
      /\ n <= MaxEvents
      /\ events' = [i \in Sequences \cup {n} |-> IF i = n THEN event ELSE events[i]]
      /\ logged' = [logged EXCEPT ![p] = n]
      /\ reduced' = [reduced EXCEPT ![p][event.knowledge] =
           IF accepts THEN EntryOf(event, n) ELSE @]

\* publish() when another process has used the number: the insert fails, the
\* append is undone, the caller gets the exception.
PublishConflict(p) ==
  /\ logged[p] + 1 \in Sequences
  /\ UNCHANGED <<events, logged, reduced>>

Publish(p, event) ==
  /\ status[p] = "ready"
  /\ PublishStored(p, event) \/ PublishConflict(p)
  /\ UNCHANGED <<entities, snapshots, status, held, crashes>>

\* transition_knowledge() of the API, which builds the event from the state it sees.
TransitionKnowledge(p, k, target) ==
  /\ entities[k] # Absent
  /\ target \in Allowed(CurrentState(p, k))
  /\ Publish(p, Event(k, CurrentState(p, k), target))

\* checkpoint(), first statement: the last sequence number of the table.
BeginCheckpoint(p) ==
  /\ p \in Checkpointer
  /\ status[p] = "ready"
  /\ status' = [status EXCEPT ![p] = "checkpointing"]
  /\ held' = [held EXCEPT ![p] = [Fresh EXCEPT !.sequence = LastEvent]]
  /\ UNCHANGED <<database, logged, reduced, crashes>>

FiledUnder(sequence) == sequence

\* checkpoint(), second statement: the state of this process is stored under it.
SaveCheckpoint(p) ==
  LET n == FiledUnder(held[p].sequence)
  IN  /\ status[p] = "checkpointing"
      /\ status' = [status EXCEPT ![p] = "ready"]
      /\ snapshots' = [i \in DOMAIN snapshots \cup {n} |->
           IF i = n THEN [states |-> reduced[p], intact |-> TRUE] ELSE snapshots[i]]
      /\ held' = [held EXCEPT ![p] = Fresh]
      /\ UNCHANGED <<entities, events, logged, reduced, crashes>>

\* A process dies, at any point: its memory is gone.
Crash(p) ==
  /\ status[p] # "down"
  /\ crashes < MaxCrashes
  /\ crashes' = crashes + 1
  /\ status' = [status EXCEPT ![p] = "down"]
  /\ logged' = [logged EXCEPT ![p] = 0]
  /\ reduced' = [reduced EXCEPT ![p] = Nothing]
  /\ held' = [held EXCEPT ![p] = Fresh]
  /\ UNCHANGED database

\* A stored snapshot is damaged: it can still be read, but no longer matches its
\* digest.
Corrupt(n) ==
  /\ n \in DOMAIN snapshots
  /\ snapshots[n].intact
  /\ snapshots' = [snapshots EXCEPT ![n] = [states |-> Nothing, intact |-> FALSE]]
  /\ UNCHANGED <<entities, events, memory, crashes>>

Run(p) ==
  \/ Hydrate(p)
  \/ LoadCheckpoint(p)
  \/ ReplayEvents(p)
  \/ ReplayFails(p)
  \/ \E k \in Knowledge, state \in Initial : CreateKnowledge(p, k, state)
  \/ \E k \in Knowledge, target \in LifecycleState : TransitionKnowledge(p, k, target)
  \/ BeginCheckpoint(p)
  \/ SaveCheckpoint(p)

Next ==
  \/ \E p \in Process : Run(p) \/ Crash(p)
  \/ \E n \in DOMAIN snapshots : Corrupt(n)

Spec == Init /\ [][Next]_vars

\* publish() is public: a caller may pass it any event.
PublishDirectly(p) ==
  \E k \in Knowledge, from, to \in LifecycleState : Publish(p, Event(k, from, to))

DirectSpec == Init /\ [][Next \/ \E p \in Process : PublishDirectly(p)]_vars

-----------------------------------------------------------------------------
(* Properties *)

StoredState == [state : LifecycleState \cup {Absent}, sequence : 0..MaxEvents]

\* The tables and the memories hold what their columns and fields say.
TypeOK ==
  /\ entities \in [Knowledge -> LifecycleState \cup {Absent}]
  /\ Sequences \subseteq 1..MaxEvents
  /\ \A n \in Sequences : events[n] \in
       [knowledge : Knowledge, from : LifecycleState, to : LifecycleState]
  /\ DOMAIN snapshots \subseteq 0..MaxEvents
  /\ \A n \in DOMAIN snapshots :
       snapshots[n] \in [states : [Knowledge -> StoredState], intact : BOOLEAN]
  /\ status \in [Process -> Status]
  /\ logged \in [Process -> 0..MaxEvents]
  /\ reduced \in [Process -> [Knowledge -> StoredState]]
  /\ held \in [Process -> [sequence : 0..MaxEvents, states : [Knowledge -> StoredState]]]
  /\ crashes \in 0..MaxCrashes

\* The sequence numbers of the table are 1, 2, 3 ... with none left out, however
\* many processes append: _hydrate_event_log() refuses a log with a gap, and no
\* process could start again.
NoGaps == HasNoGap(Sequences)

\* A process that started now would come up: the best checkpoint and the events
\* after it can be replayed (recover() in the constructor does not raise).
Recoverable == NoGaps /\ CanReplay(BestCheckpoint)

\* An intact checkpoint filed under n is the state after the first n events, so
\* that recovery from it and a full replay agree ("restores deterministic state
\* snapshots and replays only later events").
CheckpointTrue ==
  \A n \in Valid : n <= LastEvent /\ snapshots[n].states = Reduce(Nothing, 1, n)

\* A process that answers queries, alone on its database, answers with what is
\* durable: after a crash, a checkpoint or a recovery it shows every event that
\* was ever acknowledged, and no other.
ViewCurrent ==
  \A p \in Process : status[p] = "ready" => reduced[p] = Reduce(Nothing, 1, LastEvent)

\* A process alone on its database can always come back, from true checkpoints,
\* and shows what is durable: the parts above, on states of the right type.
AloneSound == TypeOK /\ Recoverable /\ CheckpointTrue /\ ViewCurrent

\* What a process shows of a piece of knowledge was its state at some point of
\* the durable history, though another process may have moved on since.
ViewWasTrue ==
  \A p \in Process : \A k \in Knowledge :
    LET entry == reduced[p][k]
    IN  entry.sequence > 0 => /\ entry.sequence \in Sequences
                              /\ events[entry.sequence].knowledge = k
                              /\ events[entry.sequence].to = entry.state

\* Where no process writes checkpoints: while it is up, a process never shows an
\* older state of a piece of knowledge than it has shown before, recoveries included.
ViewNeverBack ==
  [][\A p \in Process : status'[p] # "down" =>
       \A k \in Knowledge : reduced'[p][k].sequence >= reduced[p][k].sequence]_vars

\* The table of events is one history of legal transitions that only grows.
History == INSTANCE KnowledgeHistory WITH history <- events

OneHistory == History!HSpec

=============================================================================
