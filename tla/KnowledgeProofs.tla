-------------------------- MODULE KnowledgeProofs ---------------------------
(* Theorems about the knowledge runtime, for any number of processes, of     *)
(* pieces of knowledge and of events.  Those about the log and the views hold*)
(* even when publish() is called with arbitrary events (DirectSpec).         *)
EXTENDS KnowledgeRuntime, ProofLemmas

\* The table is 1..n, and no process has logged more than it holds.
LogShape(n) ==
  /\ n \in 0..MaxEvents
  /\ Sequences = 1..n
  /\ \A p \in Process : logged[p] <= n

\* The entries of a reducer are the last events it has seen of their identifiers,
\* in this table.
StatesTrue(table, states) ==
  \A k \in Knowledge :
    LET n == states[k].sequence
    IN  n > 0 => n \in DOMAIN table /\ table[n].knowledge = k /\ table[n].to = states[k].state

\* The inductive invariant: what ViewWasTrue says of the reducers also holds of
\* the states a process is about to restore and of those in the table.
Views ==
  /\ \A p \in Process : StatesTrue(events, reduced[p]) /\ StatesTrue(events, held[p].states)
  /\ \A i \in DOMAIN snapshots : StatesTrue(events, snapshots[i].states)

LogInv == TypeOK /\ (\E n \in Nat : LogShape(n)) /\ Views

DirectNext == Next \/ \E p \in Process : PublishDirectly(p)

-----------------------------------------------------------------------------
(* The operators of the log and of the reducer *)

LEMMA MaxOfInterval ==
  ASSUME NEW n \in Nat \ {0}
  PROVE  Max(1..n) = n
<1>1. 1..n \in SUBSET Nat /\ 1..n # {} /\ \A y \in 1..n : y <= n
  OBVIOUS
<1>2. Max(1..n) \in 1..n /\ \A y \in 1..n : y <= Max(1..n)
  BY <1>1, MaxOfBoundedNaturals
<1> QED
  BY <1>2

LEMMA Lengths ==
  ASSUME NEW n, LogShape(n)
  PROVE  /\ n \in Nat
         /\ Cardinality(Sequences) = n
         /\ LastEvent = n
         /\ HasNoGap(Sequences)
<1>1. n \in Nat /\ Sequences = 1..n
  BY KnowledgeAssumption DEF LogShape
<1>2. Cardinality(Sequences) = n
  BY <1>1, FS_Interval
<1>3. LastEvent = n
  <2>1. CASE n = 0
    BY <1>1, <2>1 DEF LastEvent
  <2>2. CASE n # 0
    BY <1>1, <2>2, MaxOfInterval DEF LastEvent
  <2> QED
    BY <2>1, <2>2
<1> QED
  BY <1>1, <1>2, <1>3 DEF HasNoGap

\* The reducer after some events: typed, and true if the states it began with are.
LEMMA Reduced ==
  ASSUME NEW n, LogShape(n), TypeOK, NEW first \in Nat \ {0},
         NEW states \in [Knowledge -> StoredState]
  PROVE  /\ Reduce(states, first, n) \in [Knowledge -> StoredState]
         /\ StatesTrue(events, states) => StatesTrue(events, Reduce(states, first, n))
<1> DEFINE own(k) == Touching(k, first, n)
<1>1. n \in Nat /\ n <= MaxEvents /\ MaxEvents \in Nat /\ Sequences = 1..n
  BY KnowledgeAssumption DEF LogShape
<1>2. ASSUME NEW k \in Knowledge, own(k) # {}
      PROVE  /\ Max(own(k)) \in 1..n
             /\ events[Max(own(k))].knowledge = k
             /\ events[Max(own(k))].to \in LifecycleState
  <2>1. own(k) \in SUBSET Nat /\ \A y \in own(k) : y <= n
    BY <1>1 DEF Touching
  <2>2. Max(own(k)) \in own(k)
    BY <1>1, <1>2, <2>1, MaxOfBoundedNaturals
  <2>3. Max(own(k)) \in 1..n /\ events[Max(own(k))].knowledge = k
    BY <1>1, <2>2 DEF Touching
  <2> QED
    BY <1>1, <2>3 DEF TypeOK
<1>3. ASSUME NEW k \in Knowledge
      PROVE  /\ Reduce(states, first, n)[k] \in StoredState
             /\ StatesTrue(events, states) => LET e == Reduce(states, first, n)[k]
                IN  e.sequence > 0 => /\ e.sequence \in Sequences
                                      /\ events[e.sequence].knowledge = k
                                      /\ events[e.sequence].to = e.state
  <2>1. CASE own(k) = {}
    BY <2>1 DEF Reduce, StatesTrue, Sequences
  <2>2. CASE own(k) # {}
    <3>1. Reduce(states, first, n)[k] =
            [state |-> events[Max(own(k))].to, sequence |-> Max(own(k))]
      BY <2>2 DEF Reduce
    <3> QED
      BY <1>1, <1>2, <2>2, <3>1 DEF StoredState
  <2> QED
    BY <2>1, <2>2
<1>4. Reduce(states, first, n) = [k \in Knowledge |-> Reduce(states, first, n)[k]]
  BY DEF Reduce
<1> QED
  BY <1>3, <1>4 DEF StatesTrue, Sequences

\* A table that keeps its rows keeps an entry true.
LEMMA StaysTrue ==
  ASSUME NEW table, NEW longer, NEW states, StatesTrue(table, states),
         DOMAIN table \subseteq DOMAIN longer,
         \A i \in DOMAIN table : longer[i] = table[i]
  PROVE  StatesTrue(longer, states)
  BY DEF StatesTrue

-----------------------------------------------------------------------------
(* The invariant *)

LEMMA FreshTyped ==
  /\ Nothing \in [Knowledge -> StoredState]
  /\ Fresh \in [sequence : 0..MaxEvents, states : [Knowledge -> StoredState]]
  /\ \A table : StatesTrue(table, Nothing) /\ StatesTrue(table, Fresh.states)
  BY KnowledgeAssumption DEF Nothing, NoEntry, StoredState, Fresh, StatesTrue

LEMMA LogInvInitially ==
  ASSUME Init
  PROVE  LogInv
<1>1. Sequences = 1..0 /\ DOMAIN snapshots = {}
  BY DEF Init, Sequences
<1>2. TypeOK
  BY <1>1, FreshTyped, KnowledgeAssumption DEF Init, TypeOK, Status
<1>3. LogShape(0)
  BY <1>1, KnowledgeAssumption DEF Init, LogShape
<1>4. Views
  BY <1>1, FreshTyped DEF Init, Views
<1> QED
  BY <1>2, <1>3, <1>4 DEF LogInv

\* Steps that leave the table and the lengths of the logs alone.
LEMMA SameLog ==
  ASSUME \E n \in Nat : LogShape(n), events' = events,
         \A p \in Process : logged'[p] = logged[p]
  PROVE  (\E n \in Nat : LogShape(n))'
  BY DEF LogShape, Sequences

\* The best checkpoint is a stored one, or the beginning.
LEMMA BestIsTrue ==
  ASSUME LogInv
  PROVE  /\ BestCheckpoint \in [sequence : 0..MaxEvents, states : [Knowledge -> StoredState]]
         /\ StatesTrue(events, BestCheckpoint.states)
<1>1. CASE Valid = {}
  BY <1>1, FreshTyped DEF BestCheckpoint
<1>2. CASE Valid # {}
  <2>1. Valid \in SUBSET Nat /\ \A y \in Valid : y <= MaxEvents
    BY KnowledgeAssumption DEF LogInv, TypeOK, Valid
  <2>2. Max(Valid) \in Valid
    BY <1>2, <2>1, KnowledgeAssumption, MaxOfBoundedNaturals
  <2>3. Max(Valid) \in DOMAIN snapshots
    BY <2>2 DEF Valid
  <2> QED
    BY <1>2, <2>3 DEF LogInv, TypeOK, Views, BestCheckpoint
<1> QED
  BY <1>1, <1>2

LEMMA HydrateStep ==
  ASSUME LogInv, NEW p \in Process, Hydrate(p)
  PROVE  LogInv'
<1> USE DEF LogInv
<1>1. PICK n \in Nat : LogShape(n)
  OBVIOUS
<1>2. HydratedLength = n /\ n \in 0..MaxEvents
  BY <1>1, Lengths DEF HydratedLength, LogShape
<1>3. TypeOK'
  BY <1>2 DEF Hydrate, TypeOK, database, Status, Sequences
<1>4. LogShape(n)'
  BY <1>1, <1>2 DEF Hydrate, LogShape, TypeOK, database, Sequences
<1>5. Views'
  BY DEF Hydrate, Views, database
<1> QED
  BY <1>3, <1>4, <1>5

LEMMA LoadStep ==
  ASSUME LogInv, NEW p \in Process, LoadCheckpoint(p)
  PROVE  LogInv'
<1>1. (\E n \in Nat : LogShape(n))'
  BY SameLog DEF LogInv, LoadCheckpoint, database
<1>2. TypeOK'
  BY BestIsTrue DEF LogInv, LoadCheckpoint, TypeOK, database, Status, Sequences
<1>3. Views'
  BY BestIsTrue DEF LogInv, LoadCheckpoint, Views, TypeOK, database
<1> QED
  BY <1>1, <1>2, <1>3 DEF LogInv

LEMMA ReplayStep ==
  ASSUME LogInv, NEW p \in Process, ReplayEvents(p) \/ ReplayFails(p)
  PROVE  LogInv'
<1> DEFINE states == Reduce(held[p].states, held[p].sequence + 1, LastEvent)
<1>1. PICK n \in Nat : LogShape(n)
  BY DEF LogInv
<1>2. states \in [Knowledge -> StoredState] /\ StatesTrue(events, states)
  <2>1. /\ held[p].states \in [Knowledge -> StoredState]
        /\ held[p].sequence + 1 \in Nat \ {0}
        /\ StatesTrue(events, held[p].states)
    BY KnowledgeAssumption DEF LogInv, TypeOK, Views
  <2> QED
    BY <1>1, <2>1, Lengths, Reduced DEF LogInv
<1> HIDE DEF states
<1>3. CASE ReplayEvents(p)
  <2>1. reduced' = [reduced EXCEPT ![p] = states]
    BY <1>3 DEF ReplayEvents, states
  <2>2. (\E m \in Nat : LogShape(m))'
    BY <1>3, SameLog DEF LogInv, ReplayEvents, database
  <2>3. TypeOK'
    BY <1>2, <1>3, <2>1, FreshTyped DEF LogInv, ReplayEvents, TypeOK, database, Status, Sequences
  <2>4. Views'
    BY <1>2, <1>3, <2>1, FreshTyped DEF LogInv, ReplayEvents, Views, TypeOK, database
  <2> QED
    BY <2>2, <2>3, <2>4 DEF LogInv
<1>4. CASE ReplayFails(p)
  <2>1. LogShape(n)'
    BY <1>1, <1>4 DEF LogInv, LogShape, ReplayFails, TypeOK, database, Sequences
  <2>2. TypeOK'
    BY <1>4, FreshTyped, KnowledgeAssumption
       DEF LogInv, ReplayFails, ReducerAfterFailure, TypeOK, database, Status, Sequences
  <2>3. Views'
    BY <1>4, FreshTyped DEF LogInv, ReplayFails, ReducerAfterFailure, Views, TypeOK, database
  <2> QED
    BY <2>1, <2>2, <2>3 DEF LogInv
<1> QED
  BY <1>3, <1>4

LEMMA CreateStep ==
  ASSUME LogInv, NEW p \in Process, NEW k \in Knowledge, NEW state \in Initial,
         CreateKnowledge(p, k, state)
  PROVE  LogInv'
<1>1. (\E n \in Nat : LogShape(n))'
  BY SameLog DEF LogInv, CreateKnowledge, memory
<1>2. TypeOK'
  BY KnowledgeAssumption DEF LogInv, CreateKnowledge, TypeOK, memory, Sequences
<1>3. Views'
  BY DEF LogInv, CreateKnowledge, Views, memory
<1> QED
  BY <1>1, <1>2, <1>3 DEF LogInv

LEMMA BeginStep ==
  ASSUME LogInv, NEW p \in Process, BeginCheckpoint(p)
  PROVE  LogInv'
<1>1. PICK n \in Nat : LogShape(n)
  BY DEF LogInv
<1>2. LastEvent \in 0..MaxEvents
  BY <1>1, Lengths DEF LogShape
<1>3. (\E m \in Nat : LogShape(m))'
  BY SameLog DEF LogInv, BeginCheckpoint, database
<1>4. [Fresh EXCEPT !.sequence = LastEvent]
        \in [sequence : 0..MaxEvents, states : [Knowledge -> StoredState]]
      /\ [Fresh EXCEPT !.sequence = LastEvent].states = Fresh.states
  BY <1>2, FreshTyped DEF Fresh
<1>5. TypeOK'
  BY <1>4 DEF LogInv, BeginCheckpoint, TypeOK, database, Status, Sequences
<1>6. Views'
  BY <1>4, FreshTyped DEF LogInv, BeginCheckpoint, Views, TypeOK, database
<1> QED
  BY <1>3, <1>5, <1>6 DEF LogInv

LEMMA SaveStep ==
  ASSUME LogInv, NEW p \in Process, SaveCheckpoint(p)
  PROVE  LogInv'
<1> DEFINE n == held[p].sequence
<1>1. (\E m \in Nat : LogShape(m))'
  BY SameLog DEF LogInv, SaveCheckpoint
<1>2. /\ n \in 0..MaxEvents
      /\ DOMAIN snapshots' = DOMAIN snapshots \cup {n}
      /\ \A i \in DOMAIN snapshots' : snapshots'[i] =
           IF i = n THEN [states |-> reduced[p], intact |-> TRUE] ELSE snapshots[i]
  BY DEF LogInv, TypeOK, SaveCheckpoint, FiledUnder
<1> HIDE DEF n
<1>3. TypeOK'
  <2>1. \A i \in DOMAIN snapshots' :
          snapshots'[i] \in [states : [Knowledge -> StoredState], intact : BOOLEAN]
    <3>1. reduced[p] \in [Knowledge -> StoredState]
      BY DEF LogInv, TypeOK
    <3>2. \A i \in DOMAIN snapshots :
            snapshots[i] \in [states : [Knowledge -> StoredState], intact : BOOLEAN]
      BY DEF LogInv, TypeOK
    <3> SUFFICES ASSUME NEW i, i \in DOMAIN snapshots'
                 PROVE  snapshots'[i] \in
                          [states : [Knowledge -> StoredState], intact : BOOLEAN]
      OBVIOUS
    <3>3. CASE i = n
      <4>1. snapshots'[i] = [states |-> reduced[p], intact |-> TRUE]
        BY <1>2, <3>3
      <4> QED
        BY <3>1, <4>1
    <3>4. CASE i # n
      <4>1. snapshots'[i] = snapshots[i] /\ i \in DOMAIN snapshots
        BY <1>2, <3>4
      <4> QED
        BY <3>2, <4>1
    <3> QED
      BY <3>3, <3>4
  <2> QED
    BY <1>2, <2>1, FreshTyped DEF LogInv, SaveCheckpoint, TypeOK, Status, Sequences
<1>4. Views'
  <2>1. \A i \in DOMAIN snapshots' : StatesTrue(events, snapshots'[i].states)
    BY <1>2 DEF LogInv, Views
  <2> QED
    BY <2>1, FreshTyped DEF LogInv, SaveCheckpoint, Views, TypeOK
<1> QED
  BY <1>1, <1>3, <1>4 DEF LogInv

LEMMA CrashStep ==
  ASSUME LogInv, NEW p \in Process, Crash(p)
  PROVE  LogInv'
<1>1. PICK n \in Nat : LogShape(n)
  BY DEF LogInv
<1>2. LogShape(n)'
  BY <1>1 DEF LogInv, LogShape, Crash, TypeOK, database, Sequences
<1>3. TypeOK'
  BY FreshTyped, KnowledgeAssumption DEF LogInv, Crash, TypeOK, database, Status, Sequences
<1>4. Views'
  BY FreshTyped DEF LogInv, Crash, Views, TypeOK, database
<1> QED
  BY <1>2, <1>3, <1>4 DEF LogInv

LEMMA CorruptStep ==
  ASSUME LogInv, NEW i, Corrupt(i)
  PROVE  LogInv'
<1>1. (\E n \in Nat : LogShape(n))'
  BY SameLog DEF LogInv, Corrupt, memory
<1>2. /\ DOMAIN snapshots' = DOMAIN snapshots
      /\ \A j \in DOMAIN snapshots : snapshots'[j] =
           IF j = i THEN [states |-> Nothing, intact |-> FALSE] ELSE snapshots[j]
  BY DEF Corrupt
<1>3. TypeOK'
  <2>1. \A j \in DOMAIN snapshots' :
          snapshots'[j] \in [states : [Knowledge -> StoredState], intact : BOOLEAN]
    <3>1. \A j \in DOMAIN snapshots :
            snapshots[j] \in [states : [Knowledge -> StoredState], intact : BOOLEAN]
      BY DEF LogInv, TypeOK
    <3> SUFFICES ASSUME NEW j, j \in DOMAIN snapshots'
                 PROVE  snapshots'[j] \in
                          [states : [Knowledge -> StoredState], intact : BOOLEAN]
      OBVIOUS
    <3>2. CASE j = i
      <4>1. snapshots'[j] = [states |-> Nothing, intact |-> FALSE]
        BY <1>2, <3>2
      <4> QED
        BY <4>1, FreshTyped
    <3>3. CASE j # i
      BY <1>2, <3>1, <3>3
    <3> QED
      BY <3>2, <3>3
  <2> QED
    BY <1>2, <2>1 DEF LogInv, Corrupt, TypeOK, memory, Sequences
<1>4. Views'
  BY <1>2, FreshTyped DEF LogInv, Corrupt, Views, memory
<1> QED
  BY <1>1, <1>3, <1>4 DEF LogInv

\* The only step that writes the table: the new row is the next one.
LEMMA PublishStep ==
  ASSUME LogInv, NEW p \in Process, NEW k \in Knowledge,
         NEW from \in LifecycleState, NEW to \in LifecycleState,
         Publish(p, Event(k, from, to))
  PROVE  LogInv'
<1> DEFINE event == Event(k, from, to)
           n     == logged[p] + 1
<1>1. PICK length \in Nat : LogShape(length)
  BY DEF LogInv
<1>2. CASE PublishStored(p, event)
  <2>1. /\ n = length + 1 /\ n \in 1..MaxEvents
        /\ logged' = [logged EXCEPT ![p] = n]
        /\ n \notin Sequences
    BY <1>1, <1>2, KnowledgeAssumption DEF PublishStored, LogInv, TypeOK, LogShape
  <2>2. /\ Sequences' = Sequences \cup {n}
        /\ \A i \in Sequences : events'[i] = events[i]
        /\ events'[n] = event
    BY <1>2, <2>1 DEF PublishStored, Sequences
  <2>3. /\ event.knowledge = k /\ event.from = from /\ event.to = to
        /\ event \in [knowledge : Knowledge, from : LifecycleState, to : LifecycleState]
    BY DEF Event
  <2>4. /\ reduced' \in [Process -> [Knowledge -> StoredState]]
        /\ \A q \in Process, j \in Knowledge :
             \/ reduced'[q][j] = reduced[q][j]
             \/ j = k /\ reduced'[q][j] = [state |-> to, sequence |-> n]
    <3>1. [state |-> to, sequence |-> n] \in StoredState
      BY <2>1 DEF StoredState
    <3>2. reduced' = [reduced EXCEPT ![p][k] = [state |-> to, sequence |-> n]]
          \/ reduced' = [reduced EXCEPT ![p][k] = reduced[p][k]]
      BY <1>2, <2>3 DEF PublishStored, EntryOf
    <3>3. reduced \in [Process -> [Knowledge -> StoredState]]
      BY DEF LogInv, TypeOK
    <3> QED
      BY <3>1, <3>2, <3>3
  <2> HIDE DEF n, event
  <2>5. LogShape(length + 1)'
    <3>1. Sequences' = 1..n
      BY <1>1, <2>1, <2>2 DEF LogShape
    <3>2. \A q \in Process : logged'[q] <= n
      BY <1>1, <2>1, KnowledgeAssumption DEF LogShape, LogInv, TypeOK
    <3> QED
      BY <2>1, <3>1, <3>2 DEF LogShape
  <2>6. TypeOK'
    <3>1. \A i \in Sequences' : events'[i] \in
            [knowledge : Knowledge, from : LifecycleState, to : LifecycleState]
      BY <2>2, <2>3 DEF LogInv, TypeOK
    <3>2. Sequences' \subseteq 1..MaxEvents
      BY <2>1, <2>2 DEF LogInv, TypeOK
    <3>3. logged' \in [Process -> 0..MaxEvents]
      BY <2>1 DEF LogInv, TypeOK
    <3> QED
      BY <2>4, <3>1, <3>2, <3>3 DEF LogInv, TypeOK, Publish
  <2>7. Views'
    <3>1. ASSUME NEW states, StatesTrue(events, states)
          PROVE  StatesTrue(events', states)
      BY <2>2, <3>1, StaysTrue DEF Sequences
    <3>2. ASSUME NEW q \in Process
          PROVE  StatesTrue(events', reduced'[q])
      <4>1. StatesTrue(events', reduced[q])
        BY <3>1 DEF LogInv, Views
      <4> QED
        BY <2>1, <2>2, <2>3, <2>4, <4>1 DEF StatesTrue, Sequences
    <3>3. held' = held /\ snapshots' = snapshots
      BY DEF Publish
    <3> QED
      BY <3>1, <3>2, <3>3 DEF LogInv, Views
  <2> QED
    <3>1. length + 1 \in Nat
      OBVIOUS
    <3> QED
      BY <3>1, <2>5, <2>6, <2>7 DEF LogInv
<1>3. CASE PublishConflict(p)
  <2>1. UNCHANGED events /\ UNCHANGED reduced
    BY <1>3 DEF PublishConflict
  <2>2. logged' = logged
    BY <1>3 DEF PublishConflict, LogInv, TypeOK
  <2>3. (\E m \in Nat : LogShape(m))'
    BY <2>1, <2>2, SameLog DEF LogInv
  <2> QED
    BY <2>1, <2>2, <2>3 DEF LogInv, TypeOK, Views, Publish, Sequences
<1> QED
  BY <1>2, <1>3 DEF Publish

LEMMA LogInvStep ==
  ASSUME LogInv, [DirectNext]_vars
  PROVE  LogInv'
<1>1. ASSUME NEW p \in Process, Run(p)
      PROVE  LogInv'
  <2>1. ASSUME NEW k \in Knowledge, NEW target \in LifecycleState,
               TransitionKnowledge(p, k, target)
        PROVE  LogInv'
    <3>1. CurrentState(p, k) \in LifecycleState
      BY <2>1, KnowledgeAssumption DEF LogInv, TypeOK, TransitionKnowledge, CurrentState, StoredState
    <3> QED
      BY <2>1, <3>1, PublishStep DEF TransitionKnowledge
  <2> QED
    BY <1>1, <2>1, HydrateStep, LoadStep, ReplayStep, CreateStep, BeginStep, SaveStep DEF Run
<1>2. ASSUME NEW p \in Process, PublishDirectly(p)
      PROVE  LogInv'
  BY <1>2, PublishStep DEF PublishDirectly
<1>3. CASE UNCHANGED vars
  BY <1>3, SameLog DEF vars, database, memory, LogInv, TypeOK, Views, Sequences
<1> QED
  BY <1>1, <1>2, <1>3, CrashStep, CorruptStep DEF DirectNext, Next

-----------------------------------------------------------------------------
(* The theorems *)

LEMMA LogInvAlways == DirectSpec => []LogInv
<1>1. Init => LogInv
  BY LogInvInitially
<1>2. LogInv /\ [DirectNext]_vars => LogInv'
  BY LogInvStep
<1> QED
  BY <1>1, <1>2, PTL DEF DirectSpec, DirectNext

\* The tables and memories keep their types, whatever callers publish.
THEOREM RuntimeTypes == DirectSpec => []TypeOK
<1>1. LogInv => TypeOK
  BY DEF LogInv
<1> QED
  BY <1>1, LogInvAlways, PTL

\* The log has no gap, however many processes append to it, and however they
\* crash: _hydrate_event_log() never refuses the table.
THEOREM LogWithoutGaps == DirectSpec => []NoGaps
<1>1. LogInv => NoGaps
  BY Lengths DEF LogInv, NoGaps
<1> QED
  BY <1>1, LogInvAlways, PTL

\* What any process shows was durable and was true, recoveries from checkpoints
\* that lag behind and from damaged ones included.
THEOREM ViewsWereTrue == DirectSpec => []ViewWasTrue
<1>1. LogInv => ViewWasTrue
  <2> SUFFICES ASSUME LogInv, NEW p \in Process, NEW k \in Knowledge,
                      reduced[p][k].sequence > 0
               PROVE  /\ reduced[p][k].sequence \in Sequences
                      /\ events[reduced[p][k].sequence].knowledge = k
                      /\ events[reduced[p][k].sequence].to = reduced[p][k].state
    BY DEF ViewWasTrue
  <2> QED
    BY DEF LogInv, Views, StatesTrue, Sequences
<1> QED
  BY <1>1, LogInvAlways, PTL

-----------------------------------------------------------------------------
(* Without checkpoints, any number of processes writes one history           *)

\* A reducer that is in use has seen at least what its process has logged.
ViewsReplayed ==
  \A p \in Process : status[p] \in {"ready", "recovering"} =>
    \E m \in Nat : /\ logged[p] <= m /\ m <= LastEvent
                   /\ reduced[p] = Reduce(Nothing, 1, m)

\* No checkpoint was ever written or begun: every recovery replays the table.
NoCheckpoint ==
  /\ DOMAIN snapshots = {}
  /\ \A p \in Process : status[p] # "checkpointing" /\ held[p] = Fresh

\* The table is a function, hence, without gaps, a sequence.
TableIsLog == events = [i \in Sequences |-> events[i]]

HistoryInv ==
  /\ LogInv
  /\ ViewsReplayed
  /\ NoCheckpoint
  /\ TableIsLog

\* A table that keeps its rows reduces to the same states.
LEMMA ReduceKept ==
  ASSUME NEW m \in Nat, 1..m \subseteq Sequences, \A i \in 1..m : events'[i] = events[i]
  PROVE  Reduce(Nothing, 1, m)' = Reduce(Nothing, 1, m)
<1>1. \A k : Touching(k, 1, m)' = Touching(k, 1, m)
  BY DEF Touching
<1>2. \A k \in Knowledge : Touching(k, 1, m) # {} =>
        events'[Max(Touching(k, 1, m))] = events[Max(Touching(k, 1, m))]
  <2> SUFFICES ASSUME NEW k \in Knowledge, Touching(k, 1, m) # {}
               PROVE  events'[Max(Touching(k, 1, m))] = events[Max(Touching(k, 1, m))]
    OBVIOUS
  <2>1. Touching(k, 1, m) \in SUBSET Nat /\ \A y \in Touching(k, 1, m) : y <= m
    BY DEF Touching
  <2>2. Max(Touching(k, 1, m)) \in Touching(k, 1, m)
    BY <2>1, MaxOfBoundedNaturals
  <2> QED
    BY <2>2 DEF Touching
<1> QED
  BY <1>1, <1>2 DEF Reduce

\* The reducer of an up-to-date process shows the state the history is in.
LEMMA CurrentIsHistory ==
  ASSUME LogInv, NEW p \in Process, NEW k \in Knowledge,
         reduced[p] = Reduce(Nothing, 1, LastEvent)
  PROVE  CurrentState(p, k) = History!StateOf(k)
<1>1. PICK n \in Nat : LogShape(n)
  BY DEF LogInv
<1>2. LastEvent = n /\ Sequences = 1..n
  BY <1>1, Lengths DEF LogShape
<1>3. Touching(k, 1, LastEvent) = History!Own(k)
  BY <1>2 DEF Touching, History!Own, Sequences
<1>4. CASE History!Own(k) = {}
  BY <1>3, <1>4 DEF CurrentState, Reduce, Nothing, NoEntry, History!StateOf
<1>5. CASE History!Own(k) # {}
  <2>1. /\ History!Own(k) \in SUBSET Nat /\ \A y \in History!Own(k) : y <= n
    BY <1>2 DEF History!Own, Sequences
  <2>2. Max(History!Own(k)) \in Sequences
    BY <1>5, <2>1, MaxOfBoundedNaturals DEF History!Own, Sequences
  <2>3. events[Max(History!Own(k))].to \in LifecycleState
    BY <2>2 DEF LogInv, TypeOK
  <2>4. reduced[p][k].state = events[Max(History!Own(k))].to
    BY <1>3, <1>5 DEF Reduce
  <2> QED
    <3>1. CurrentState(p, k) = reduced[p][k].state
      BY <2>3, <2>4, KnowledgeAssumption DEF CurrentState
    <3>2. History!StateOf(k) = events[Max(History!Own(k))].to
      <4>1. History!Max(History!Own(k)) = Max(History!Own(k))
        BY DEF Max, History!Max
      <4> QED
        BY <1>5, <4>1 DEF History!StateOf
    <3> QED
      BY <2>4, <3>1, <3>2
<1> QED
  BY <1>4, <1>5

LEMMA AllowedMoves ==
  ASSUME NEW s \in LifecycleState
  PROVE  s \notin Allowed(s)
  BY DEF LifecycleState, Allowed

LEMMA HistoryInvInitially ==
  ASSUME Init
  PROVE  HistoryInv /\ History!HInit
<1>1. LogInv
  BY LogInvInitially
<1>2. ViewsReplayed /\ NoCheckpoint
  BY DEF Init, ViewsReplayed, NoCheckpoint
<1>3. TableIsLog
  BY DEF Init, Sequences, TableIsLog
<1>4. events = <<>>
  BY DEF Init
<1> QED
  BY <1>1, <1>2, <1>3, <1>4 DEF HistoryInv, Init, History!HInit

\* A step of one process that writes neither the table nor a checkpoint.
LEMMA QuietStep ==
  ASSUME HistoryInv, LogInv', NEW p \in Process,
         events' = events, snapshots' = snapshots,
         \A q \in Process \ {p} : /\ status'[q] = status[q] /\ logged'[q] = logged[q]
                                  /\ reduced'[q] = reduced[q] /\ held'[q] = held[q],
         status'[p] # "checkpointing", held'[p] = Fresh,
         status'[p] \in {"ready", "recovering"} =>
           \E m \in Nat : /\ logged'[p] <= m /\ m <= LastEvent
                          /\ reduced'[p] = Reduce(Nothing, 1, m)
  PROVE  HistoryInv'
<1>1. PICK n \in Nat : LogShape(n)
  BY DEF HistoryInv, LogInv
<1>2. LastEvent = n /\ LastEvent' = n /\ Sequences = 1..n
  BY <1>1, Lengths DEF LogShape, LastEvent, Sequences
<1>3. \A m \in Nat : m <= n => Reduce(Nothing, 1, m)' = Reduce(Nothing, 1, m)
  BY <1>2, ReduceKept
<1>4. ViewsReplayed'
  <2> SUFFICES ASSUME NEW q \in Process, status'[q] \in {"ready", "recovering"}
               PROVE  \E m \in Nat : /\ logged'[q] <= m /\ m <= LastEvent'
                                     /\ reduced'[q] = Reduce(Nothing, 1, m)'
    BY DEF ViewsReplayed
  <2>1. PICK m \in Nat : /\ logged'[q] <= m /\ m <= LastEvent
                         /\ reduced'[q] = Reduce(Nothing, 1, m)
    BY DEF HistoryInv, ViewsReplayed
  <2> QED
    BY <1>2, <1>3, <2>1
<1>5. NoCheckpoint'
  BY DEF HistoryInv, NoCheckpoint
<1> QED
  BY <1>4, <1>5 DEF HistoryInv, TableIsLog, Sequences

\* The steps of a process that only concern its memory.
LEMMA MemoryStep ==
  ASSUME Checkpointer = {}, HistoryInv, LogInv', NEW p \in Process,
         \/ Hydrate(p) \/ LoadCheckpoint(p) \/ ReplayEvents(p) \/ ReplayFails(p) \/ Crash(p)
  PROVE  HistoryInv' /\ UNCHANGED <<entities, events>>
<1> USE DEF HistoryInv, TableIsLog, database
<1>1. PICK n \in Nat : LogShape(n)
  BY DEF LogInv
<1>2. LastEvent = n /\ \A q \in Process : logged[q] <= n
  BY <1>1, Lengths DEF LogShape
<1>3. TypeOK
  BY DEF LogInv
<1>4. held[p] = Fresh /\ status[p] # "checkpointing"
  BY DEF NoCheckpoint
<1>5. CASE Hydrate(p)
  <2>1. status'[p] = "hydrated" /\ held'[p] = Fresh
    BY <1>3, <1>4, <1>5 DEF Hydrate, TypeOK
  <2> QED
    BY <1>3, <1>5, <2>1, QuietStep DEF Hydrate, TypeOK
<1>6. CASE LoadCheckpoint(p)
  <2>1. BestCheckpoint = Fresh
    BY DEF NoCheckpoint, BestCheckpoint, Valid
  <2>2. /\ status'[p] = IF status[p] = "hydrated" THEN "booting" ELSE "recovering"
        /\ held'[p] = Fresh /\ logged'[p] = logged[p] /\ reduced'[p] = reduced[p]
    BY <1>3, <1>6, <2>1 DEF LoadCheckpoint, TypeOK
  <2>3. status'[p] = "recovering" => status[p] = "ready"
    BY <1>6, <2>2 DEF LoadCheckpoint
  <2>4. status'[p] \in {"ready", "recovering"} =>
          \E m \in Nat : /\ logged'[p] <= m /\ m <= LastEvent
                         /\ reduced'[p] = Reduce(Nothing, 1, m)
    BY <2>2, <2>3 DEF ViewsReplayed
  <2> QED
    BY <1>3, <1>6, <2>2, <2>4, QuietStep DEF LoadCheckpoint, TypeOK
<1>7. CASE ReplayEvents(p)
  <2>1. /\ status'[p] = "ready" /\ held'[p] = Fresh /\ logged'[p] = logged[p]
        /\ reduced'[p] = Reduce(Nothing, 1, n)
    BY <1>2, <1>3, <1>4, <1>7 DEF ReplayEvents, TypeOK, Fresh
  <2>2. logged'[p] <= n /\ n <= LastEvent
    BY <1>2, <2>1
  <2> QED
    BY <1>3, <1>7, <2>1, <2>2, QuietStep DEF ReplayEvents, TypeOK
<1>8. CASE ReplayFails(p)
  <2>1. /\ status'[p] = IF status[p] = "booting" THEN "down" ELSE "ready"
        /\ held'[p] = Fresh /\ reduced'[p] = reduced[p]
        /\ status[p] # "booting" => logged'[p] = logged[p]
        /\ status[p] \in {"booting", "recovering"}
    BY <1>3, <1>8 DEF ReplayFails, ReducerAfterFailure, TypeOK
  <2>2. status'[p] \in {"ready", "recovering"} =>
          \E m \in Nat : /\ logged'[p] <= m /\ m <= LastEvent
                         /\ reduced'[p] = Reduce(Nothing, 1, m)
    BY <2>1 DEF ViewsReplayed
  <2> QED
    BY <1>3, <1>8, <2>1, <2>2, QuietStep DEF ReplayFails, TypeOK
<1>9. CASE Crash(p)
  <2>1. status'[p] = "down" /\ held'[p] = Fresh
    BY <1>3, <1>9 DEF Crash, TypeOK
  <2> QED
    BY <1>3, <1>9, <2>1, QuietStep DEF Crash, TypeOK
<1> QED
  BY <1>5, <1>6, <1>7, <1>8, <1>9

\* A row is stored only by a process that has logged the whole table.
LEMMA StoredAtEnd ==
  ASSUME TypeOK, NEW n \in Nat, LogShape(n), NEW p \in Process, NEW event, PublishStored(p, event)
  PROVE  /\ logged[p] = n
         /\ Sequences' = 1..(n + 1)
         /\ events' = [i \in 1..(n + 1) |-> IF i = n + 1 THEN event ELSE events[i]]
         /\ logged' = [logged EXCEPT ![p] = n + 1]
<1>1. n \in Nat /\ Sequences = 1..n /\ \A q \in Process : logged[q] <= n
  BY KnowledgeAssumption DEF LogShape
<1>2. logged[p] \in Nat /\ logged[p] + 1 \notin 1..n /\ logged[p] <= n
  BY <1>1, KnowledgeAssumption DEF PublishStored, TypeOK
<1>3. logged[p] = n
  BY <1>1, <1>2
<1>4. 1..n \cup {n + 1} = 1..(n + 1)
  BY <1>1
<1> QED
  BY <1>1, <1>3, <1>4 DEF PublishStored, Sequences

\* A transition stored by a process whose view is current goes on from the state
\* in the table, and leaves the view current.
LEMMA StoredRow ==
  ASSUME LogInv, NEW n \in Nat, LogShape(n), NEW p \in Process, NEW k \in Knowledge,
         NEW target \in LifecycleState,
         entities[k] # Absent, target \in Allowed(CurrentState(p, k)),
         PublishStored(p, Event(k, CurrentState(p, k), target)),
         reduced[p] = Reduce(Nothing, 1, n)
  PROVE  /\ CurrentState(p, k) \in LifecycleState /\ CurrentState(p, k) # target
         /\ reduced' = [reduced EXCEPT ![p][k] = [state |-> target, sequence |-> n + 1]]
         /\ LastEvent' = n + 1
         /\ \A m \in Nat : m <= n => Reduce(Nothing, 1, m)' = Reduce(Nothing, 1, m)
         /\ reduced'[p] = Reduce(Nothing, 1, n + 1)'
<1> DEFINE from  == CurrentState(p, k)
           event == Event(k, from, target)
<1>1. LastEvent = n /\ n \in Nat /\ Sequences = 1..n
  BY Lengths DEF LogShape
<1>2. TypeOK
  BY DEF LogInv
<1>3. /\ logged[p] = n
      /\ Sequences' = 1..(n + 1)
      /\ events' = [i \in 1..(n + 1) |-> IF i = n + 1 THEN event ELSE events[i]]
  BY <1>2, StoredAtEnd
<1>4. reduced[p] = Reduce(Nothing, 1, n)
  OBVIOUS
<1>5. from \in LifecycleState /\ from # target
  <2>1. from \in LifecycleState
    BY <1>2, KnowledgeAssumption DEF TypeOK, CurrentState, StoredState
  <2> QED
    BY <2>1, AllowedMoves
<1>6. reduced' = [reduced EXCEPT ![p][k] = [state |-> target, sequence |-> n + 1]]
  <2>1. reduced[p][k].state \in {Absent, from}
    BY DEF CurrentState
  <2>2. reduced[p][k].sequence <= n
    <3>1. reduced[p][k].sequence \in Nat
      BY <1>2, KnowledgeAssumption DEF TypeOK, StoredState
    <3>2. reduced[p][k].sequence > 0 => reduced[p][k].sequence \in Sequences
      BY DEF LogInv, Views, StatesTrue, Sequences
    <3> QED
      BY <1>1, <3>1, <3>2
  <2>3. n + 1 > reduced[p][k].sequence
    BY <1>2, <2>2, KnowledgeAssumption DEF TypeOK, StoredState
  <2> QED
    BY <1>3, <1>5, <2>1, <2>3 DEF PublishStored, Event, EntryOf
<1> HIDE DEF from, event
<1>7. LastEvent' = n + 1
  <2>1. Sequences' # {} /\ Max(Sequences') = n + 1
    <3>1. n + 1 \in Nat \ {0} /\ n + 1 \in 1..(n + 1)
      OBVIOUS
    <3> QED
      BY <1>3, <3>1, MaxOfInterval
  <2> QED
    BY <2>1 DEF LastEvent
<1>8. \A m \in Nat : m <= n => Reduce(Nothing, 1, m)' = Reduce(Nothing, 1, m)
  BY <1>1, <1>3, ReduceKept
<1>9. reduced'[p] = Reduce(Nothing, 1, n + 1)'
  <2>1. \A j \in Knowledge \ {k} : Touching(j, 1, n + 1)' = Touching(j, 1, n)
    BY <1>1, <1>3 DEF Touching, Event, event
  <2>2. n + 1 \in Touching(k, 1, n + 1)'
    BY <1>3 DEF Touching, Event, event
  <2>3. Max(Touching(k, 1, n + 1)') = n + 1
    <3>1. /\ Touching(k, 1, n + 1)' \in SUBSET Nat
          /\ \A y \in Touching(k, 1, n + 1)' : y <= n + 1
      BY DEF Touching
    <3>2. /\ Max(Touching(k, 1, n + 1)') \in Touching(k, 1, n + 1)'
          /\ \A y \in Touching(k, 1, n + 1)' : y <= Max(Touching(k, 1, n + 1)')
      BY <2>2, <3>1, MaxOfBoundedNaturals
    <3> QED
      BY <2>2, <3>1, <3>2
  <2>4. \A j \in Knowledge \ {k} :
          Reduce(Nothing, 1, n + 1)'[j] = Reduce(Nothing, 1, n)[j]
    <3> SUFFICES ASSUME NEW j \in Knowledge \ {k}
                 PROVE  Reduce(Nothing, 1, n + 1)'[j] = Reduce(Nothing, 1, n)[j]
      OBVIOUS
    <3>1. CASE Touching(j, 1, n) = {}
      BY <2>1, <3>1 DEF Reduce
    <3>2. CASE Touching(j, 1, n) # {}
      <4>1. Touching(j, 1, n) \in SUBSET Nat /\ \A y \in Touching(j, 1, n) : y <= n
        BY DEF Touching
      <4>2. Max(Touching(j, 1, n)) \in 1..n
        BY <3>2, <4>1, MaxOfBoundedNaturals DEF Touching
      <4>3. events'[Max(Touching(j, 1, n))] = events[Max(Touching(j, 1, n))]
        BY <1>3, <4>2
      <4> QED
        BY <2>1, <3>2, <4>3 DEF Reduce
    <3> QED
      BY <3>1, <3>2
  <2>5. Reduce(Nothing, 1, n + 1)'[k] = [state |-> target, sequence |-> n + 1]
    BY <1>3, <2>2, <2>3 DEF Reduce, Event, event
  <2>6. \A j \in Knowledge : reduced'[p][j] = Reduce(Nothing, 1, n + 1)'[j]
    BY <1>2, <1>4, <1>6, <2>4, <2>5 DEF TypeOK
  <2>7. reduced'[p] = [j \in Knowledge |-> reduced'[p][j]]
    BY <1>2, <1>6 DEF TypeOK
  <2>8. Reduce(Nothing, 1, n + 1)' = [j \in Knowledge |-> Reduce(Nothing, 1, n + 1)'[j]]
    BY DEF Reduce
  <2> QED
    BY <2>6, <2>7, <2>8
<1> QED
  BY <1>5, <1>6, <1>7, <1>8, <1>9 DEF from

\* The row of a transition, stored by a process whose view is current, goes on from
\* the state of the history.
LEMMA StoredExtends ==
  ASSUME LogInv, TableIsLog, NEW n \in Nat, LogShape(n), NEW p \in Process, NEW k \in Knowledge,
         NEW target \in LifecycleState,
         entities[k] # Absent, target \in Allowed(CurrentState(p, k)),
         PublishStored(p, Event(k, CurrentState(p, k), target)), UNCHANGED entities,
         reduced[p] = Reduce(Nothing, 1, n)
  PROVE  TableIsLog' /\ History!HTransition(k, target)
<1> DEFINE from  == CurrentState(p, k)
           event == Event(k, from, target)
           Row   == [knowledge : Knowledge, from : LifecycleState, to : LifecycleState]
<1>1. LastEvent = n /\ Sequences = 1..n
  BY Lengths DEF LogShape
<1>2. TypeOK
  BY DEF LogInv
<1>3. /\ Sequences' = 1..(n + 1)
      /\ events' = [i \in 1..(n + 1) |-> IF i = n + 1 THEN event ELSE events[i]]
  BY <1>2, StoredAtEnd
<1>4. from = History!StateOf(k)
  BY <1>1, CurrentIsHistory
<1>5. from \in LifecycleState
  BY StoredRow
<1> HIDE DEF from
<1>6. event = History!Transition(k, History!StateOf(k), target) /\ event \in Row
  BY <1>4, <1>5 DEF Event, History!Transition
<1>7. target \in History!Allowed(History!StateOf(k))
  BY <1>4 DEF from, Allowed, History!Allowed
<1> HIDE DEF event, Row
<1>8. events \in Seq(Row) /\ Len(events) = n
  <2>1. \A i \in 1..n : events[i] \in Row
    BY <1>1, <1>2 DEF TypeOK, Row
  <2>2. events = [i \in 1..n |-> events[i]]
    BY <1>1 DEF TableIsLog
  <2>3. events \in [1..n -> Row]
    BY <2>1, <2>2
  <2>4. events \in Seq(Row)
    BY <2>3, SeqDef
  <2> QED
    BY <2>3, <2>4, LenProperties
<1>9. events' = Append(events, event)
  BY <1>3, <1>6, <1>8, AppendAsFunction
<1>10. TableIsLog'
  BY <1>3 DEF TableIsLog
<1> QED
  BY <1>6, <1>7, <1>9, <1>10 DEF History!HTransition

\* A transition whose row is stored: the process was up to date, so that the row
\* goes on from the state of the history.
LEMMA StoredStep ==
  ASSUME HistoryInv, LogInv', NEW p \in Process, NEW k \in Knowledge,
         NEW target \in LifecycleState, status[p] = "ready",
         entities[k] # Absent, target \in Allowed(CurrentState(p, k)),
         PublishStored(p, Event(k, CurrentState(p, k), target)),
         UNCHANGED <<entities, snapshots, status, held, crashes>>
  PROVE  HistoryInv' /\ History!HTransition(k, target)
<1> DEFINE from  == CurrentState(p, k)
           event == Event(k, from, target)
<1>1. PICK n \in Nat : LogShape(n)
  BY DEF HistoryInv, LogInv
<1>2. LastEvent = n /\ Sequences = 1..n /\ \A q \in Process : logged[q] <= n
  BY <1>1, Lengths DEF LogShape
<1>3. TypeOK
  BY DEF HistoryInv, LogInv
<1>4. /\ logged[p] = n
      /\ Sequences' = 1..(n + 1)
      /\ events' = [i \in 1..(n + 1) |-> IF i = n + 1 THEN event ELSE events[i]]
      /\ logged' = [logged EXCEPT ![p] = n + 1]
  BY <1>1, <1>3, StoredAtEnd
<1>5. reduced[p] = Reduce(Nothing, 1, n)
  <2>1. PICK m \in Nat : /\ logged[p] <= m /\ m <= LastEvent
                         /\ reduced[p] = Reduce(Nothing, 1, m)
    BY DEF HistoryInv, ViewsReplayed
  <2> QED
    BY <1>2, <1>4, <2>1
<1>7. /\ from \in LifecycleState /\ from # target
      /\ reduced' = [reduced EXCEPT ![p][k] = [state |-> target, sequence |-> n + 1]]
      /\ LastEvent' = n + 1
      /\ \A m \in Nat : m <= n => Reduce(Nothing, 1, m)' = Reduce(Nothing, 1, m)
      /\ reduced'[p] = Reduce(Nothing, 1, n + 1)'
  BY <1>1, <1>5, StoredRow DEF HistoryInv
<1>8. TableIsLog' /\ History!HTransition(k, target)
  BY <1>1, <1>5, StoredExtends DEF HistoryInv
<1> HIDE DEF from, event
<1>9. ViewsReplayed'
  <2> SUFFICES ASSUME NEW q \in Process, status'[q] \in {"ready", "recovering"}
               PROVE  \E m \in Nat : /\ logged'[q] <= m /\ m <= LastEvent'
                                     /\ reduced'[q] = Reduce(Nothing, 1, m)'
    BY DEF ViewsReplayed
  <2>1. CASE q = p
    <3>1. logged'[q] = n + 1
      BY <1>3, <1>4, <2>1 DEF TypeOK
    <3> QED
      BY <1>7, <2>1, <3>1
  <2>2. CASE q # p
    <3>1. logged'[q] = logged[q] /\ reduced'[q] = reduced[q] /\ status'[q] = status[q]
      BY <1>3, <1>4, <1>7, <2>2 DEF TypeOK
    <3>2. PICK m \in Nat : /\ logged[q] <= m /\ m <= LastEvent
                           /\ reduced[q] = Reduce(Nothing, 1, m)
      BY <3>1 DEF HistoryInv, ViewsReplayed
    <3> QED
      BY <1>2, <1>7, <3>1, <3>2
  <2> QED
    BY <2>1, <2>2
<1>10. NoCheckpoint'
  BY DEF HistoryInv, NoCheckpoint
<1> QED
  BY <1>8, <1>9, <1>10 DEF HistoryInv

LEMMA HistoryStep ==
  ASSUME Checkpointer = {}, HistoryInv, [Next]_vars
  PROVE  HistoryInv' /\ [History!HNext]_<<entities, events>>
<1>1. LogInv'
  BY LogInvStep DEF HistoryInv, DirectNext
<1>2. ASSUME NEW p \in Process, NEW k \in Knowledge, NEW target \in LifecycleState,
             TransitionKnowledge(p, k, target)
      PROVE  HistoryInv' /\ [History!HNext]_<<entities, events>>
  <2>1. CASE PublishStored(p, Event(k, CurrentState(p, k), target))
    <3>1. HistoryInv' /\ History!HTransition(k, target)
      BY <1>1, <1>2, <2>1, StoredStep DEF TransitionKnowledge, Publish
    <3>2. target \in History!LifecycleState
      BY DEF LifecycleState, History!LifecycleState
    <3> QED
      BY <3>1, <3>2 DEF History!HNext
  <2>2. CASE PublishConflict(p)
    <3>1. /\ UNCHANGED <<events, reduced, entities, snapshots, status, held>>
          /\ logged' = logged
      BY <1>2, <2>2 DEF TransitionKnowledge, Publish, PublishConflict,
                        HistoryInv, LogInv, TypeOK
    <3> QED
      BY <1>1, <3>1, QuietStep DEF HistoryInv, ViewsReplayed, NoCheckpoint
  <2> QED
    BY <1>2, <2>1, <2>2 DEF TransitionKnowledge, Publish
<1>3. ASSUME NEW p \in Process, NEW k \in Knowledge, NEW state \in Initial,
             CreateKnowledge(p, k, state)
      PROVE  HistoryInv' /\ [History!HNext]_<<entities, events>>
  <2>1. UNCHANGED <<events, snapshots, status, logged, reduced, held>>
    BY <1>3 DEF CreateKnowledge, memory
  <2>2. HistoryInv'
    BY <1>1, <2>1, QuietStep DEF HistoryInv, ViewsReplayed, NoCheckpoint
  <2>3. History!HCreate(k, state) /\ state \in History!LifecycleState
    BY <1>3, KnowledgeAssumption
       DEF CreateKnowledge, History!HCreate, LifecycleState, History!LifecycleState
  <2> QED
    BY <2>2, <2>3 DEF History!HNext
<1>4. ASSUME NEW p \in Process, BeginCheckpoint(p) \/ SaveCheckpoint(p)
      PROVE  FALSE
  BY <1>4 DEF HistoryInv, NoCheckpoint, BeginCheckpoint, SaveCheckpoint
<1>5. ASSUME NEW i \in DOMAIN snapshots
      PROVE  FALSE
  BY <1>5 DEF HistoryInv, NoCheckpoint
<1>6. CASE UNCHANGED vars
  <2>1. UNCHANGED <<entities, events, snapshots, status, logged, reduced, held>>
    BY <1>6 DEF vars, database, memory
  <2>2. Sequences' = Sequences /\ LastEvent' = LastEvent
    BY <2>1 DEF Sequences, LastEvent
  <2>3. ASSUME NEW m \in Nat
        PROVE  Reduce(Nothing, 1, m)' = Reduce(Nothing, 1, m)
    BY <2>1 DEF Reduce, Touching
  <2> QED
    BY <1>1, <2>1, <2>2, <2>3 DEF HistoryInv, TableIsLog, ViewsReplayed, NoCheckpoint
<1>7. ASSUME NEW p \in Process, Run(p)
      PROVE  HistoryInv' /\ [History!HNext]_<<entities, events>>
  BY <1>1, <1>2, <1>3, <1>4, <1>7, MemoryStep DEF Run
<1> QED
  BY <1>1, <1>5, <1>6, <1>7, MemoryStep DEF Next

\* Where no checkpoints are written, the table of events is one history of legal
\* transitions, in which each goes on from the state its predecessors left: any
\* number of processes may write to it, crash and come back.
THEOREM OneHistoryWithoutCheckpoints ==
  ASSUME Checkpointer = {}
  PROVE  Spec => OneHistory
<1>1. Init => HistoryInv /\ History!HInit
  BY HistoryInvInitially
<1>2. HistoryInv /\ [Next]_vars => HistoryInv' /\ [History!HNext]_<<entities, events>>
  BY HistoryStep
<1> QED
  BY <1>1, <1>2, PTL DEF Spec, OneHistory, History!HSpec

-----------------------------------------------------------------------------
(* A process alone on its database, with checkpoints                          *)

\* What a full replay of the first n events gives.
Replayed(n) == Reduce(Nothing, 1, n)

\* A checkpoint from which a recovery gets what a full replay would give.
RestorePoint(checkpoint) ==
  /\ checkpoint.sequence <= LastEvent
  /\ checkpoint.states = Replayed(checkpoint.sequence)

\* The reducer is current while it is in use; what is about to be restored, or
\* filed, belongs to the number it is held with.
UpToDate(p) ==
  /\ status[p] \in {"ready", "recovering", "checkpointing"} => reduced[p] = Replayed(LastEvent)
  /\ status[p] \in {"booting", "recovering"} => RestorePoint(held[p])
  /\ status[p] = "checkpointing" => held[p].sequence = LastEvent

AloneInv ==
  /\ LogInv
  /\ Applies(Nothing, 1, LastEvent)
  /\ CheckpointTrue
  /\ \A p \in Process : UpToDate(p)

\* The events up to q are those up to c and those after it, which come later.
LEMMA TouchingSplit ==
  ASSUME NEW k, NEW c \in Nat, NEW q \in Nat, c <= q
  PROVE  /\ Touching(k, c + 1, q) = {} => Touching(k, 1, q) = Touching(k, 1, c)
         /\ Touching(k, c + 1, q) # {} =>
              /\ Touching(k, 1, q) # {}
              /\ Max(Touching(k, 1, q)) = Max(Touching(k, c + 1, q))
<1> DEFINE all   == Touching(k, 1, q)
           later == Touching(k, c + 1, q)
<1>1. all = Touching(k, 1, c) \cup later
  BY DEF Touching
<1>2. ASSUME later # {}
      PROVE  all # {} /\ Max(all) = Max(later)
  <2>1. /\ later \in SUBSET Nat /\ all \in SUBSET Nat /\ later \subseteq all
        /\ \A y \in all : y <= q
        /\ \A y \in all : y \in later \/ y <= c
        /\ \A y \in later : y > c
    BY DEF Touching
  <2> HIDE DEF all, later
  <2>2. Max(later) \in later /\ \A y \in later : y <= Max(later)
    BY <1>2, <2>1, MaxOfBoundedNaturals
  <2>3. Max(all) \in all /\ \A y \in all : y <= Max(all)
    BY <1>2, <2>1, MaxOfBoundedNaturals
  <2>4. Max(later) <= Max(all)
    BY <2>1, <2>2, <2>3
  <2>5. Max(all) \in Nat /\ Max(later) \in Nat /\ Max(later) > c
    BY <2>1, <2>2, <2>3
  <2>6. ~(Max(all) <= c)
    BY <2>4, <2>5
  <2>7. Max(all) \in later
    BY <2>1, <2>3, <2>6
  <2>8. Max(all) <= Max(later)
    BY <2>2, <2>7
  <2>9. Max(all) = Max(later)
    BY <2>4, <2>5, <2>8
  <2> QED
    BY <2>3, <2>9
<1> QED
  BY <1>1, <1>2

\* An entry of a full replay does not come from beyond it.
LEMMA ReplayedBound ==
  ASSUME NEW c \in Nat, NEW k \in Knowledge
  PROVE  Replayed(c)[k].sequence \in 0..c
<1>1. CASE Touching(k, 1, c) = {}
  BY <1>1 DEF Replayed, Reduce, Nothing, NoEntry
<1>2. CASE Touching(k, 1, c) # {}
  <2>1. Touching(k, 1, c) \in SUBSET Nat /\ \A y \in Touching(k, 1, c) : y <= c
    BY DEF Touching
  <2>2. Max(Touching(k, 1, c)) \in Touching(k, 1, c)
    BY <1>2, <2>1, MaxOfBoundedNaturals
  <2>3. Max(Touching(k, 1, c)) \in 1..c
    BY <2>2 DEF Touching
  <2> QED
    BY <1>2, <2>3 DEF Replayed, Reduce
<1> QED
  BY <1>1, <1>2

\* What a full replay of the events before n says of a piece of knowledge.
LEMMA StateOfReplay ==
  ASSUME NEW c \in Nat, NEW m, m = c + 1, events[m].knowledge \in Knowledge
  PROVE  StateBefore(Nothing, 1, m) = Replayed(c)[events[m].knowledge].state
<1>1. Touching(events[m].knowledge, 1, m - 1) = Touching(events[m].knowledge, 1, c)
  BY DEF Touching
<1> QED
  BY <1>1 DEF StateBefore, Replayed, Reduce, Nothing, NoEntry

\* Replaying from a checkpoint, or from the beginning, is the same.
LEMMA ReplayFrom ==
  ASSUME NEW n \in Nat, NEW c \in Nat, c <= n
  PROVE  Reduce(Replayed(c), c + 1, n) = Replayed(n)
<1>1. ASSUME NEW k \in Knowledge
      PROVE  Reduce(Replayed(c), c + 1, n)[k] = Replayed(n)[k]
  <2>1. CASE Touching(k, c + 1, n) = {}
    <3>1. Touching(k, 1, n) = Touching(k, 1, c)
      BY <2>1, TouchingSplit
    <3> QED
      BY <2>1, <3>1 DEF Replayed, Reduce
  <2>2. CASE Touching(k, c + 1, n) # {}
    <3>1. Touching(k, 1, n) # {} /\ Max(Touching(k, 1, n)) = Max(Touching(k, c + 1, n))
      BY <2>2, TouchingSplit
    <3> QED
      BY <2>2, <3>1 DEF Replayed, Reduce
  <2> QED
    BY <2>1, <2>2
<1> QED
  BY <1>1 DEF Replayed, Reduce

LEMMA BeforeFrom ==
  ASSUME NEW n \in Nat, NEW c \in Nat, c < n, events[n].knowledge \in Knowledge
  PROVE  StateBefore(Replayed(c), c + 1, n) = StateBefore(Nothing, 1, n)
<1> DEFINE k == events[n].knowledge
<1>1. n - 1 \in Nat /\ c <= n - 1
  OBVIOUS
<1>2. CASE Touching(k, c + 1, n - 1) = {}
  <2>1. Touching(k, 1, n - 1) = Touching(k, 1, c)
    BY <1>1, <1>2, TouchingSplit
  <2> QED
    BY <1>2, <2>1 DEF StateBefore, Replayed, Reduce, Nothing, NoEntry
<1>3. CASE Touching(k, c + 1, n - 1) # {}
  <2>1. /\ Touching(k, 1, n - 1) # {}
        /\ Max(Touching(k, 1, n - 1)) = Max(Touching(k, c + 1, n - 1))
    BY <1>1, <1>3, TouchingSplit
  <2> QED
    BY <1>3, <2>1 DEF StateBefore
<1> QED
  BY <1>2, <1>3

LEMMA RestorePointReplays ==
  ASSUME LogInv, Applies(Nothing, 1, LastEvent),
         NEW checkpoint, checkpoint.sequence \in Nat, RestorePoint(checkpoint)
  PROVE  /\ CanReplay(checkpoint)
         /\ Reduce(checkpoint.states, checkpoint.sequence + 1, LastEvent) = Replayed(LastEvent)
<1>1. PICK n \in Nat : LogShape(n)
  BY DEF LogInv
<1> DEFINE c == checkpoint.sequence
<1>2. LastEvent = n /\ Sequences = 1..n /\ c \in Nat /\ c <= n
      /\ checkpoint.states = Replayed(c)
  BY <1>1, Lengths DEF LogShape, RestorePoint
<1>3. Delta(c) = (c + 1)..n
  BY <1>2 DEF Delta
<1>4. Cardinality((c + 1)..n) = n - c
  <2> HIDE DEF c
  <2>1. c + 1 \in Int /\ n \in Int
    BY <1>2
  <2>2. Cardinality((c + 1)..n) = IF c + 1 > n THEN 0 ELSE n - (c + 1) + 1
    BY <2>1, FS_Interval
  <2> QED
    BY <1>2, <2>2
<1>5. Applies(Replayed(c), c + 1, n)
  <2> SUFFICES ASSUME NEW m \in (c + 1)..n
               PROVE  /\ events[m].from # events[m].to
                      /\ StateBefore(Replayed(c), c + 1, m) \in {Absent, events[m].from}
                      /\ m > Replayed(c)[events[m].knowledge].sequence
    BY DEF Applies
  <2>1. m \in 1..n /\ m \in Nat /\ c < m
    BY <1>2
  <2>2. events[m].knowledge \in Knowledge
    BY <1>2, <2>1 DEF LogInv, TypeOK
  <2>3. /\ events[m].from # events[m].to
        /\ StateBefore(Nothing, 1, m) \in {Absent, events[m].from}
    BY <1>2, <2>1 DEF Applies
  <2>4. StateBefore(Replayed(c), c + 1, m) = StateBefore(Nothing, 1, m)
    BY <1>2, <2>1, <2>2, BeforeFrom
  <2>5. Replayed(c)[events[m].knowledge].sequence \in 0..c
    BY <1>2, <2>2, ReplayedBound
  <2> QED
    BY <1>2, <2>1, <2>3, <2>4, <2>5
<1>6. CanReplay(checkpoint)
  <2>1. c + (n - c) = n
    BY <1>2
  <2> QED
    BY <1>2, <1>3, <1>4, <1>5, <2>1 DEF CanReplay
<1> QED
  BY <1>2, <1>6, ReplayFrom

LEMMA FreshRestores ==
  ASSUME LogInv
  PROVE  RestorePoint(Fresh) /\ Fresh.sequence = 0
<1>1. LastEvent \in Nat
  BY Lengths DEF LogInv
<1>2. \A k : Touching(k, 1, 0) = {}
  BY DEF Touching
<1>3. Replayed(0) = Nothing
  BY <1>2 DEF Replayed, Reduce, Nothing
<1> QED
  BY <1>1, <1>3 DEF RestorePoint, Fresh

LEMMA BestRestores ==
  ASSUME LogInv, CheckpointTrue
  PROVE  RestorePoint(BestCheckpoint) /\ BestCheckpoint.sequence \in Nat
<1>1. CASE Valid = {}
  BY <1>1, FreshRestores DEF BestCheckpoint
<1>2. CASE Valid # {}
  <2>1. Valid \in SUBSET Nat /\ \A y \in Valid : y <= MaxEvents
    BY KnowledgeAssumption DEF LogInv, TypeOK, Valid
  <2>2. Max(Valid) \in Valid
    BY <1>2, <2>1, KnowledgeAssumption, MaxOfBoundedNaturals
  <2> QED
    BY <1>2, <2>1, <2>2 DEF BestCheckpoint, CheckpointTrue, RestorePoint, Replayed
<1> QED
  BY <1>1, <1>2

\* A step that leaves the table leaves every replay of it.
LEMMA SameTable ==
  ASSUME events' = events
  PROVE  /\ LastEvent' = LastEvent
         /\ \A m : Replayed(m)' = Replayed(m)
         /\ Applies(Nothing, 1, LastEvent)' = Applies(Nothing, 1, LastEvent)
<1>1. Sequences' = Sequences /\ LastEvent' = LastEvent
  BY DEF Sequences, LastEvent
<1>2. \A k, first, last : Touching(k, first, last)' = Touching(k, first, last)
  BY DEF Touching
<1>3. \A m : Replayed(m)' = Replayed(m)
  BY <1>2 DEF Replayed, Reduce
<1>4. \A m : StateBefore(Nothing, 1, m)' = StateBefore(Nothing, 1, m)
  BY <1>2 DEF StateBefore
<1> QED
  BY <1>1, <1>3, <1>4 DEF Applies

\* Steps of the one process that leave the table and the checkpoints.
LEMMA AloneQuiet ==
  ASSUME AloneInv, LogInv', events' = events,
         \A i \in Valid' : i \in Valid /\ snapshots'[i] = snapshots[i],
         \A q \in Process :
           /\ status'[q] \in {"ready", "recovering", "checkpointing"} =>
                reduced'[q] = Replayed(LastEvent)
           /\ status'[q] \in {"booting", "recovering"} => RestorePoint(held'[q])
           /\ status'[q] = "checkpointing" => held'[q].sequence = LastEvent
  PROVE  AloneInv'
<1>1. CheckpointTrue'
  BY SameTable DEF AloneInv, CheckpointTrue, Replayed
<1>2. \A q \in Process : UpToDate(q)'
  BY SameTable DEF UpToDate, RestorePoint
<1> QED
  BY <1>1, <1>2, SameTable DEF AloneInv

LEMMA AloneMemory ==
  ASSUME AloneInv, LogInv', NEW p \in Process, \A q \in Process : q = p,
         \/ Hydrate(p) \/ LoadCheckpoint(p) \/ ReplayEvents(p) \/ ReplayFails(p)
         \/ BeginCheckpoint(p) \/ Crash(p)
  PROVE  AloneInv'
<1> USE DEF database
<1>1. events' = events /\ snapshots' = snapshots
  BY DEF Hydrate, LoadCheckpoint, ReplayEvents, ReplayFails, BeginCheckpoint, Crash
<1>2. \A i \in Valid' : i \in Valid /\ snapshots'[i] = snapshots[i]
  BY <1>1 DEF Valid
<1>3. LogInv /\ TypeOK /\ UpToDate(p) /\ CheckpointTrue /\ Applies(Nothing, 1, LastEvent)
  BY DEF AloneInv, LogInv
<1> SUFFICES
      /\ status'[p] \in {"ready", "recovering", "checkpointing"} =>
           reduced'[p] = Replayed(LastEvent)
      /\ status'[p] \in {"booting", "recovering"} => RestorePoint(held'[p])
      /\ status'[p] = "checkpointing" => held'[p].sequence = LastEvent
  BY <1>1, <1>2, AloneQuiet
<1>4. CASE Hydrate(p)
  BY <1>3, <1>4 DEF Hydrate, TypeOK
<1>5. CASE LoadCheckpoint(p)
  <2>1. /\ status'[p] = IF status[p] = "hydrated" THEN "booting" ELSE "recovering"
        /\ held'[p] = BestCheckpoint /\ reduced'[p] = reduced[p]
        /\ status[p] \in {"hydrated", "ready"}
    BY <1>3, <1>5 DEF LoadCheckpoint, TypeOK
  <2> QED
    BY <1>3, <2>1, BestRestores DEF UpToDate
<1>6. status[p] \in {"booting", "recovering"} =>
        /\ CanReplay(held[p])
        /\ Reduce(held[p].states, held[p].sequence + 1, LastEvent) = Replayed(LastEvent)
  <2>1. held[p].sequence \in Nat
    BY <1>3, KnowledgeAssumption DEF TypeOK
  <2> QED
    BY <1>3, <2>1, RestorePointReplays DEF UpToDate
<1>7. CASE ReplayEvents(p)
  BY <1>3, <1>6, <1>7 DEF ReplayEvents, TypeOK
<1>8. CASE ReplayFails(p)
  BY <1>6, <1>8 DEF ReplayFails
<1>9. CASE BeginCheckpoint(p)
  <2>1. /\ status'[p] = "checkpointing" /\ status[p] = "ready" /\ reduced'[p] = reduced[p]
        /\ held'[p] = [Fresh EXCEPT !.sequence = LastEvent]
    BY <1>3, <1>9 DEF BeginCheckpoint, TypeOK
  <2> QED
    BY <1>3, <2>1 DEF UpToDate, Fresh
<1>10. CASE Crash(p)
  BY <1>3, <1>10 DEF Crash, TypeOK
<1> QED
  BY <1>4, <1>5, <1>7, <1>8, <1>9, <1>10

LEMMA AloneSave ==
  ASSUME AloneInv, LogInv', NEW p \in Process, \A q \in Process : q = p, SaveCheckpoint(p)
  PROVE  AloneInv'
<1>1. TypeOK /\ UpToDate(p) /\ status[p] = "checkpointing"
  BY DEF AloneInv, LogInv, SaveCheckpoint
<1>2. held[p].sequence = LastEvent /\ reduced[p] = Replayed(LastEvent)
  BY <1>1 DEF UpToDate
<1>3. /\ events' = events /\ status'[p] = "ready" /\ reduced' = reduced
      /\ DOMAIN snapshots' = DOMAIN snapshots \cup {LastEvent}
      /\ \A i \in DOMAIN snapshots' : snapshots'[i] =
           IF i = LastEvent THEN [states |-> reduced[p], intact |-> TRUE] ELSE snapshots[i]
  BY <1>1, <1>2 DEF SaveCheckpoint, FiledUnder, TypeOK
<1>4. CheckpointTrue'
  <2> SUFFICES ASSUME NEW i, i \in Valid'
               PROVE  i <= LastEvent' /\ snapshots'[i].states = Reduce(Nothing, 1, i)'
    BY DEF CheckpointTrue
  <2>1. i \in DOMAIN snapshots' /\ snapshots'[i].intact
    BY DEF Valid
  <2>2. Reduce(Nothing, 1, i)' = Replayed(i)
    BY <1>3, SameTable DEF Replayed
  <2>3. LastEvent' = LastEvent /\ LastEvent \in Nat
    BY <1>3, SameTable, Lengths DEF AloneInv, LogInv
  <2>4. CASE i = LastEvent
    <3>1. snapshots'[i].states = reduced[p]
      BY <1>3, <2>1, <2>4
    <3> QED
      BY <1>2, <2>2, <2>3, <2>4, <3>1
  <2>5. CASE i # LastEvent
    <3>1. i \in Valid /\ snapshots'[i] = snapshots[i]
      BY <1>3, <2>1, <2>5 DEF Valid
    <3> QED
      BY <2>2, <2>3, <3>1 DEF AloneInv, CheckpointTrue, Replayed
  <2> QED
    BY <2>4, <2>5
<1>5. UpToDate(p)'
  BY <1>2, <1>3, SameTable DEF UpToDate
<1> QED
  BY <1>3, <1>4, <1>5, SameTable DEF AloneInv

\* The step that extends the history: the new event applies to what came before,
\* the checkpoints stay true of their numbers, and the view follows.
LEMMA AloneStored ==
  ASSUME AloneInv, LogInv', NEW p \in Process, \A q \in Process : q = p, NEW k \in Knowledge,
         NEW target \in LifecycleState, status[p] = "ready",
         entities[k] # Absent, target \in Allowed(CurrentState(p, k)),
         PublishStored(p, Event(k, CurrentState(p, k), target)),
         UNCHANGED <<entities, snapshots, status, held, crashes>>
  PROVE  AloneInv'
<1> DEFINE from  == CurrentState(p, k)
           event == Event(k, from, target)
<1>1. PICK n \in Nat : LogShape(n)
  BY DEF AloneInv, LogInv
<1>2. LastEvent = n /\ Sequences = 1..n
  BY <1>1, Lengths DEF LogShape
<1>3. TypeOK /\ LogInv
  BY DEF AloneInv, LogInv
<1>4. reduced[p] = Reduce(Nothing, 1, n)
  BY <1>2 DEF AloneInv, UpToDate, Replayed
<1>5. /\ from \in LifecycleState /\ from # target
      /\ LastEvent' = n + 1
      /\ \A m \in Nat : m <= n => Reduce(Nothing, 1, m)' = Reduce(Nothing, 1, m)
      /\ reduced'[p] = Reduce(Nothing, 1, n + 1)'
  BY <1>1, <1>3, <1>4, StoredRow
<1>6. events' = [i \in 1..(n + 1) |-> IF i = n + 1 THEN event ELSE events[i]]
  BY <1>1, <1>3, StoredAtEnd
<1>7. /\ event.knowledge = k /\ event.from = from /\ event.to = target
      /\ from \in {entities[k], reduced[p][k].state}
      /\ reduced[p][k].state \in {Absent, from}
  BY DEF Event, CurrentState
<1> HIDE DEF from, event
<1>8. Applies(Nothing, 1, n + 1)'
  <2> SUFFICES ASSUME NEW m \in 1..(n + 1)
               PROVE  /\ events'[m].from # events'[m].to
                      /\ StateBefore(Nothing, 1, m)' \in {Absent, events'[m].from}
                      /\ m > Nothing[events'[m].knowledge].sequence
    BY DEF Applies
  <2>1. PICK c \in Nat : m = c + 1 /\ c <= n
    <3>1. m - 1 \in Nat /\ m = (m - 1) + 1 /\ m - 1 <= n
      OBVIOUS
    <3> QED
      BY <3>1
  <2>2. Sequences' = 1..(n + 1)
    BY <1>6 DEF Sequences
  <2>3. events'[m].knowledge \in Knowledge
    BY <2>2 DEF LogInv, TypeOK
  <2>4. StateBefore(Nothing, 1, m)' = Reduce(Nothing, 1, c)'[events'[m].knowledge].state
    <3>1. Touching(events[m].knowledge, 1, m - 1)' = Touching(events[m].knowledge, 1, c)'
      BY <2>1 DEF Touching
    <3> QED
      BY <2>3, <3>1 DEF StateBefore, Reduce, Nothing, NoEntry
  <2>5. Reduce(Nothing, 1, c)' = Replayed(c)
    BY <1>5, <2>1 DEF Replayed
  <2>6. m > Nothing[events'[m].knowledge].sequence
    BY <2>3 DEF Nothing, NoEntry
  <2>7. CASE m = n + 1
    <3>1. events'[m] = event
      BY <1>6, <2>7
    <3>2. c = n
      BY <2>1, <2>7
    <3>3. StateBefore(Nothing, 1, m)' = reduced[p][k].state
      BY <1>4, <1>7, <2>4, <2>5, <3>1, <3>2 DEF Replayed
    <3> QED
      BY <1>5, <1>7, <2>6, <3>1, <3>3
  <2>8. CASE m # n + 1
    <3>1. m \in 1..n
      BY <2>8
    <3>2. events'[m] = events[m]
      BY <1>6, <2>8
    <3>3. StateBefore(Nothing, 1, m) = Replayed(c)[events[m].knowledge].state
      BY <2>1, <2>3, <3>2, StateOfReplay
    <3>4. /\ events[m].from # events[m].to
          /\ StateBefore(Nothing, 1, m) \in {Absent, events[m].from}
      BY <1>2, <3>1 DEF AloneInv, Applies
    <3> QED
      BY <2>4, <2>5, <2>6, <3>2, <3>3, <3>4
  <2> QED
    BY <2>7, <2>8
<1>9. CheckpointTrue'
  <2> SUFFICES ASSUME NEW i \in Valid
               PROVE  i <= n + 1 /\ snapshots[i].states = Reduce(Nothing, 1, i)'
    BY <1>5 DEF CheckpointTrue, Valid
  <2>1. i \in Nat
    BY <1>3, KnowledgeAssumption DEF TypeOK, Valid
  <2>2. i <= n /\ snapshots[i].states = Reduce(Nothing, 1, i)
    BY <1>2 DEF AloneInv, CheckpointTrue
  <2> QED
    BY <1>5, <2>1, <2>2
<1>10. UpToDate(p)'
  BY <1>5 DEF UpToDate, Replayed
<1> QED
  BY <1>5, <1>8, <1>9, <1>10 DEF AloneInv

LEMMA AloneStep ==
  ASSUME \A p, q \in Process : p = q, AloneInv, [Next]_vars
  PROVE  AloneInv'
<1>1. LogInv'
  BY LogInvStep DEF AloneInv, DirectNext
<1>2. ASSUME NEW p \in Process, NEW k \in Knowledge, NEW target \in LifecycleState,
             TransitionKnowledge(p, k, target)
      PROVE  AloneInv'
  <2>1. CASE PublishStored(p, Event(k, CurrentState(p, k), target))
    BY <1>1, <1>2, <2>1, AloneStored DEF TransitionKnowledge, Publish
  <2>2. CASE PublishConflict(p)
    <3>1. UNCHANGED <<events, reduced, snapshots, status, held>>
      BY <1>2, <2>2 DEF TransitionKnowledge, Publish, PublishConflict
    <3> QED
      BY <1>1, <3>1, AloneQuiet DEF AloneInv, UpToDate, Valid
  <2> QED
    BY <1>2, <2>1, <2>2 DEF TransitionKnowledge, Publish
<1>3. ASSUME NEW p \in Process, NEW k \in Knowledge, NEW state \in Initial,
             CreateKnowledge(p, k, state)
      PROVE  AloneInv'
  BY <1>1, <1>3, AloneQuiet DEF CreateKnowledge, memory, AloneInv, UpToDate, Valid
<1>4. ASSUME NEW i, Corrupt(i)
      PROVE  AloneInv'
  <2>1. UNCHANGED <<events, status, reduced, held>>
    BY <1>4 DEF Corrupt, memory
  <2>2. /\ DOMAIN snapshots' = DOMAIN snapshots
        /\ \A j \in DOMAIN snapshots : snapshots'[j] =
             IF j = i THEN [states |-> Nothing, intact |-> FALSE] ELSE snapshots[j]
    BY <1>4 DEF Corrupt
  <2>3. \A j \in Valid' : j \in Valid /\ snapshots'[j] = snapshots[j]
    BY <2>2 DEF Valid
  <2> QED
    BY <1>1, <2>1, <2>3, AloneQuiet DEF AloneInv, UpToDate
<1>5. CASE UNCHANGED vars
  BY <1>1, <1>5, AloneQuiet DEF vars, database, memory, AloneInv, UpToDate, Valid
<1>6. ASSUME NEW p \in Process, Run(p) \/ Crash(p)
      PROVE  AloneInv'
  BY <1>1, <1>2, <1>3, <1>6, AloneMemory, AloneSave DEF Run
<1> QED
  BY <1>4, <1>5, <1>6 DEF Next

LEMMA AloneAlways ==
  ASSUME \A p, q \in Process : p = q
  PROVE  Spec => []AloneInv
<1>1. Init => AloneInv
  <2> SUFFICES ASSUME Init PROVE AloneInv
    OBVIOUS
  <2>1. LogInv /\ LastEvent = 0
    BY LogInvInitially DEF Init, LastEvent, Sequences
  <2>2. Applies(Nothing, 1, LastEvent)
    BY <2>1 DEF Applies
  <2>3. CheckpointTrue /\ \A p \in Process : UpToDate(p)
    BY DEF Init, CheckpointTrue, Valid, UpToDate
  <2> QED
    BY <2>1, <2>2, <2>3 DEF AloneInv
<1>2. AloneInv /\ [Next]_vars => AloneInv'
  BY AloneStep
<1> QED
  BY <1>1, <1>2, PTL DEF Spec

\* A process that is alone on its database can always be started again, and
\* answers with exactly what is durable: whatever it was doing when it crashed,
\* from whatever checkpoint it recovers, however many checkpoints were damaged.
THEOREM AloneIsSound ==
  ASSUME \A p, q \in Process : p = q
  PROVE  Spec => []AloneSound
<1>1. AloneInv => AloneSound
  <2> SUFFICES ASSUME AloneInv PROVE AloneSound
    OBVIOUS
  <2>1. CanReplay(BestCheckpoint)
    BY BestRestores, RestorePointReplays DEF AloneInv
  <2>2. NoGaps /\ TypeOK
    BY Lengths DEF AloneInv, LogInv, NoGaps
  <2> QED
    BY <2>1, <2>2 DEF AloneInv, UpToDate, Replayed, AloneSound, Recoverable, ViewCurrent
<1> QED
  BY <1>1, AloneAlways, PTL

\* The steps of one process on the tables: a creation, a legal move, or neither.
LEMMA AloneHistoryStep ==
  ASSUME AloneInv, TableIsLog, [Next]_vars
  PROVE  TableIsLog' /\ [History!HNext]_<<entities, events>>
<1>1. ASSUME UNCHANGED <<entities, events>>
      PROVE  TableIsLog' /\ [History!HNext]_<<entities, events>>
  BY <1>1 DEF TableIsLog, Sequences
<1>2. ASSUME NEW p \in Process, NEW k \in Knowledge, NEW target \in LifecycleState,
             TransitionKnowledge(p, k, target)
      PROVE  TableIsLog' /\ [History!HNext]_<<entities, events>>
  <2>1. CASE PublishStored(p, Event(k, CurrentState(p, k), target))
    <3>1. PICK n \in Nat : LogShape(n)
      BY DEF AloneInv, LogInv
    <3>2. LastEvent = n /\ status[p] = "ready" /\ LogInv
      BY <1>2, <3>1, Lengths DEF LogShape, TransitionKnowledge, Publish, AloneInv
    <3>3. reduced[p] = Reduce(Nothing, 1, n)
      BY <3>2 DEF AloneInv, UpToDate, Replayed
    <3>4. TableIsLog' /\ History!HTransition(k, target)
      BY <1>2, <2>1, <3>1, <3>2, <3>3, StoredExtends DEF TransitionKnowledge, Publish
    <3>5. target \in History!LifecycleState
      BY DEF LifecycleState, History!LifecycleState
    <3> QED
      BY <3>4, <3>5 DEF History!HNext
  <2>2. CASE PublishConflict(p)
    BY <1>1, <1>2, <2>2 DEF TransitionKnowledge, Publish, PublishConflict
  <2> QED
    BY <1>2, <2>1, <2>2 DEF TransitionKnowledge, Publish
<1>3. ASSUME NEW p \in Process, NEW k \in Knowledge, NEW state \in Initial,
             CreateKnowledge(p, k, state)
      PROVE  TableIsLog' /\ [History!HNext]_<<entities, events>>
  <2>1. UNCHANGED events
    BY <1>3 DEF CreateKnowledge
  <2>2. History!HCreate(k, state) /\ state \in History!LifecycleState
    BY <1>3, KnowledgeAssumption
       DEF CreateKnowledge, History!HCreate, LifecycleState, History!LifecycleState
  <2> QED
    BY <2>1, <2>2 DEF History!HNext, TableIsLog, Sequences
<1>4. ASSUME NEW p \in Process, Run(p) \/ Crash(p)
      PROVE  TableIsLog' /\ [History!HNext]_<<entities, events>>
  <2>1. \/ Hydrate(p) \/ LoadCheckpoint(p) \/ ReplayEvents(p) \/ ReplayFails(p)
        \/ BeginCheckpoint(p) \/ SaveCheckpoint(p) \/ Crash(p)
        => UNCHANGED <<entities, events>>
    BY DEF Hydrate, LoadCheckpoint, ReplayEvents, ReplayFails, BeginCheckpoint,
           SaveCheckpoint, Crash, database
  <2> QED
    BY <1>1, <1>2, <1>3, <1>4, <2>1 DEF Run
<1>5. ASSUME NEW i, Corrupt(i)
      PROVE  UNCHANGED <<entities, events>>
  BY <1>5 DEF Corrupt
<1>6. CASE UNCHANGED vars
  BY <1>1, <1>6 DEF vars, database
<1> QED
  BY <1>1, <1>4, <1>5, <1>6 DEF Next

\* The table of a process alone on its database is one history of legal transitions
\* too, with checkpoints, crashes at any point and damaged snapshots: what it recovers
\* is always the state that the next transition must leave.
THEOREM OneHistoryAlone ==
  ASSUME \A p, q \in Process : p = q
  PROVE  Spec => OneHistory
<1>1. Init => TableIsLog /\ History!HInit
  BY HistoryInvInitially DEF HistoryInv
<1>2. AloneInv /\ TableIsLog /\ [Next]_vars
        => TableIsLog' /\ [History!HNext]_<<entities, events>>
  BY AloneHistoryStep
<1> QED
  BY <1>1, <1>2, AloneAlways, PTL DEF Spec, OneHistory, History!HSpec

-----------------------------------------------------------------------------
(* Views do not go back                                                       *)

LEMMA NoCheckpointStep ==
  ASSUME Checkpointer = {}, LogInv, NoCheckpoint, [DirectNext]_vars
  PROVE  NoCheckpoint'
<1>1. TypeOK /\ BestCheckpoint = Fresh
  BY DEF LogInv, NoCheckpoint, BestCheckpoint, Valid
<1>2. ASSUME NEW p \in Process,
             \/ Hydrate(p) \/ LoadCheckpoint(p) \/ ReplayEvents(p) \/ ReplayFails(p) \/ Crash(p)
      PROVE  NoCheckpoint'
  <2>1. snapshots' = snapshots
    BY <1>2 DEF Hydrate, LoadCheckpoint, ReplayEvents, ReplayFails, Crash, database
  <2>2. \A q \in Process : status'[q] # "checkpointing"
    BY <1>1, <1>2 DEF NoCheckpoint, Hydrate, LoadCheckpoint, ReplayEvents, ReplayFails, Crash, TypeOK
  <2>3. \A q \in Process : held'[q] = Fresh
    BY <1>1, <1>2 DEF NoCheckpoint, Hydrate, LoadCheckpoint, ReplayEvents, ReplayFails, Crash, TypeOK
  <2> QED
    BY <2>1, <2>2, <2>3 DEF NoCheckpoint
<1>3. ASSUME UNCHANGED <<snapshots, status, held>>
      PROVE  NoCheckpoint'
  BY <1>3 DEF NoCheckpoint
<1>4. ASSUME NEW p \in Process, BeginCheckpoint(p) \/ SaveCheckpoint(p)
      PROVE  FALSE
  BY <1>4 DEF NoCheckpoint, BeginCheckpoint, SaveCheckpoint
<1>5. ASSUME NEW i \in DOMAIN snapshots
      PROVE  FALSE
  BY <1>5 DEF NoCheckpoint
<1>6. ASSUME NEW p \in Process, Run(p)
      PROVE  NoCheckpoint'
  BY <1>2, <1>3, <1>4, <1>6 DEF Run, CreateKnowledge, TransitionKnowledge, Publish, memory
<1>7. ASSUME NEW p \in Process, PublishDirectly(p)
      PROVE  NoCheckpoint'
  BY <1>3, <1>7 DEF PublishDirectly, Publish
<1>8. CASE UNCHANGED vars
  BY <1>3, <1>8 DEF vars, database, memory
<1> QED
  BY <1>2, <1>5, <1>6, <1>7, <1>8 DEF DirectNext, Next

\* A reducer never gets behind what it has shown: a publish it accepts is newer,
\* and a replay of the whole table ends at or after every entry taken from it.
LEMMA ViewStep ==
  ASSUME LogInv, NoCheckpoint, [DirectNext]_vars, NEW p \in Process, status'[p] # "down",
         NEW k \in Knowledge
  PROVE  reduced'[p][k].sequence >= reduced[p][k].sequence
<1>1. TypeOK /\ reduced[p][k].sequence \in Nat
  BY KnowledgeAssumption DEF LogInv, TypeOK, StoredState
<1>2. CASE reduced' = reduced
  BY <1>1, <1>2
<1>3. ASSUME NEW q \in Process, ReplayEvents(q)
      PROVE  reduced'[p][k].sequence >= reduced[p][k].sequence
  <2>1. reduced' = [reduced EXCEPT ![q] = Reduce(Nothing, 1, LastEvent)]
    <3>1. held[q] = Fresh
      BY DEF NoCheckpoint
    <3> QED
      BY <1>3, <3>1 DEF ReplayEvents, Fresh
  <2>2. CASE q # p
    BY <1>1, <2>1, <2>2 DEF TypeOK
  <2>3. CASE q = p
    <3>1. PICK n \in Nat : LogShape(n)
      BY DEF LogInv
    <3>2. LastEvent = n /\ Sequences = 1..n
      BY <3>1, Lengths DEF LogShape
    <3>3. reduced'[p][k] = Replayed(n)[k]
      BY <1>1, <2>1, <2>3, <3>2 DEF TypeOK, Replayed
    <3>4. Replayed(n)[k].sequence \in Nat
      BY ReplayedBound
    <3>5. CASE reduced[p][k].sequence = 0
      BY <3>3, <3>4, <3>5
    <3>6. CASE reduced[p][k].sequence > 0
      <4> DEFINE own == Touching(k, 1, n)
      <4>1. reduced[p][k].sequence \in own
        BY <1>1, <3>2, <3>6 DEF LogInv, Views, StatesTrue, Sequences, Touching
      <4>2. own \in SUBSET Nat /\ \A y \in own : y <= n
        BY DEF Touching
      <4> HIDE DEF own
      <4>3. \A y \in own : y <= Max(own)
        BY <4>1, <4>2, MaxOfBoundedNaturals
      <4>4. Replayed(n)[k].sequence = Max(own)
        BY <4>1 DEF own, Replayed, Reduce
      <4> QED
        BY <1>1, <3>3, <3>4, <4>1, <4>3, <4>4
    <3> QED
      BY <1>1, <3>5, <3>6
  <2> QED
    BY <2>2, <2>3
<1>4. ASSUME NEW q \in Process, NEW event, Publish(q, event)
      PROVE  reduced'[p][k].sequence >= reduced[p][k].sequence
  <2>1. CASE PublishConflict(q)
    BY <1>2, <2>1 DEF PublishConflict
  <2>2. CASE PublishStored(q, event)
    <3> DEFINE n == logged[q] + 1
               j == event.knowledge
    <3>1. \/ reduced' = [reduced EXCEPT ![q][j] = reduced[q][j]]
          \/ /\ reduced' = [reduced EXCEPT ![q][j] = EntryOf(event, n)]
             /\ n > reduced[q][j].sequence
      BY <2>2 DEF PublishStored
    <3>2. CASE reduced' = [reduced EXCEPT ![q][j] = reduced[q][j]]
      BY <1>1, <3>2 DEF TypeOK
    <3>3. CASE /\ reduced' = [reduced EXCEPT ![q][j] = EntryOf(event, n)]
               /\ n > reduced[q][j].sequence
      <4>1. CASE q = p /\ j = k
        <5>1. reduced'[p][k] = EntryOf(event, n)
          BY <1>1, <3>3, <4>1 DEF TypeOK
        <5>2. n \in Nat /\ n > reduced[p][k].sequence
          BY <1>1, <3>3, <4>1, KnowledgeAssumption DEF TypeOK
        <5> QED
          BY <1>1, <5>1, <5>2 DEF EntryOf
      <4>2. CASE ~(q = p /\ j = k)
        <5>1. reduced'[p][k] = reduced[p][k]
          BY <1>1, <3>3, <4>2 DEF TypeOK
        <5> QED
          BY <1>1, <5>1
      <4> QED
        BY <4>1, <4>2
    <3> QED
      BY <3>1, <3>2, <3>3
  <2> QED
    BY <1>4, <2>1, <2>2 DEF Publish
<1>5. ASSUME NEW q \in Process, Crash(q)
      PROVE  reduced'[p][k].sequence >= reduced[p][k].sequence
  <2>1. q # p
    BY <1>1, <1>5 DEF Crash, TypeOK
  <2> QED
    BY <1>1, <1>5, <2>1 DEF Crash, TypeOK
<1>6. ASSUME NEW q \in Process, ReplayFails(q)
      PROVE  reduced' = reduced
  BY <1>1, <1>6 DEF ReplayFails, ReducerAfterFailure, TypeOK
<1>7. ASSUME NEW q \in Process, Run(q)
      PROVE  reduced'[p][k].sequence >= reduced[p][k].sequence
  BY <1>2, <1>3, <1>4, <1>6, <1>7 DEF Run, Hydrate, LoadCheckpoint, CreateKnowledge,
     TransitionKnowledge, BeginCheckpoint, SaveCheckpoint, memory
<1>8. ASSUME NEW i, Corrupt(i)
      PROVE  reduced' = reduced
  BY <1>8 DEF Corrupt, memory
<1>9. ASSUME NEW q \in Process, PublishDirectly(q)
      PROVE  reduced'[p][k].sequence >= reduced[p][k].sequence
  BY <1>4, <1>9 DEF PublishDirectly
<1> QED
  BY <1>2, <1>5, <1>7, <1>8, <1>9 DEF DirectNext, Next, vars, memory

\* Without checkpoints, no process that is up ever shows an older state of a piece
\* of knowledge than it has shown before, whatever callers publish.
THEOREM ViewsNeverGoBack ==
  ASSUME Checkpointer = {}
  PROVE  DirectSpec => ViewNeverBack
<1>1. Init => NoCheckpoint
  BY DEF Init, NoCheckpoint
<1>2. LogInv /\ NoCheckpoint /\ [DirectNext]_vars => NoCheckpoint'
  BY NoCheckpointStep
<1>3. LogInv /\ NoCheckpoint /\ [DirectNext]_vars
        => [\A p \in Process : status'[p] # "down" =>
              \A k \in Knowledge : reduced'[p][k].sequence >= reduced[p][k].sequence]_vars
  BY ViewStep
<1> QED
  BY <1>1, <1>2, <1>3, LogInvAlways, PTL DEF DirectSpec, DirectNext, ViewNeverBack

=============================================================================
