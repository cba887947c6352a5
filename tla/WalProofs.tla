----------------------------- MODULE WalProofs -----------------------------
(* Theorems about WalWriter, for any keys, batch size, writes, starts and     *)
(* stops, with a join() that waits for the writer (SlowWriter = FALSE).       *)
EXTENDS WalWriter, ProofLemmas

Item == Operation \cup {Shutdown}

\* p was submitted before q, as far as the key they share tells.
Precedes(p, q) == p \in Operation /\ q \in Operation /\ p.key = q.key => p.number < q.number

InOrder(s) == \A i, j \in 1..Len(s) : i < j => Precedes(s[i], s[j])

\* One thread, the last that was started, and none after a stop.
ThreadInv ==
  /\ \A t \in Thread : /\ Alive(t) => t = starts
                       /\ t > starts => writer[t] = "unborn"
                       /\ ~Alive(t) \/ writer[t] \in {"looping", "waiting"} => batch[t] = <<>>
  /\ caller = "idle" /\ ~initialized => ~Alive(starts)

\* What was answered precedes what is in hand, and that what is queued; each is in
\* the order of the submissions, and none is numbered beyond them.
OrderInv ==
  /\ InOrder(queue)
  /\ \A p \in ToSet(queue) \cap Operation : p.number <= writes[p.key]
  /\ \A t \in Thread :
       /\ InOrder(batch[t])
       /\ \A p \in ToSet(batch[t]) :
            p.number <= writes[p.key] /\ \A q \in ToSet(queue) : Precedes(p, q)
  /\ \A a \in answered :
       /\ a.op.number <= writes[a.op.key]
       /\ \A q \in ToSet(queue) : Precedes(a.op, q)
       /\ \A t \in Thread : \A q \in ToSet(batch[t]) : Precedes(a.op, q)

\* The table is behind what is queued and in hand, until that is committed.
TableInv ==
  /\ \A k \in Key : table[k] <= writes[k]
  /\ \A p \in ToSet(queue) \cap Operation : table[p.key] < p.number
  /\ \A t \in Thread : \A p \in ToSet(batch[t]) :
       IF writer[t] = "resolving" THEN p.number <= table[p.key] ELSE table[p.key] < p.number

WriterInv == TypeOK /\ ThreadInv /\ OrderInv /\ TableInv /\ AnswersTrue

-----------------------------------------------------------------------------
(* Sequences of operations                                                    *)

LEMMA ShutdownApart == Shutdown \notin Operation
<1>1. \A op \in Operation : "key" \in DOMAIN op
  BY DEF Operation
<1>2. "key" \notin DOMAIN Shutdown
  BY DEF Shutdown
<1> QED
  BY <1>1, <1>2

\* The elements and the order of a longer sequence.
LEMMA ItemAppended ==
  \A s \in Seq(Item), e \in Item :
    /\ Append(s, e) \in Seq(Item)
    /\ ToSet(Append(s, e)) = ToSet(s) \cup {e}
    /\ InOrder(s) /\ (\A p \in ToSet(s) : Precedes(p, e)) => InOrder(Append(s, e))
<1> TAKE s \in Seq(Item), e \in Item
<1>1. /\ Append(s, e) \in Seq(Item) /\ Len(Append(s, e)) = Len(s) + 1
      /\ \A i \in 1..Len(s) : Append(s, e)[i] = s[i]
      /\ Append(s, e)[Len(s) + 1] = e
  BY AppendProperties
<1>2. /\ Len(s) \in Nat /\ ToSet(s) = {s[i] : i \in 1..Len(s)}
      /\ ToSet(Append(s, e)) = {Append(s, e)[i] : i \in 1..Len(s) + 1}
  BY <1>1, LenProperties DEF ToSet
<1>3. ToSet(Append(s, e)) = ToSet(s) \cup {e}
  BY <1>1, <1>2
<1>4. ASSUME InOrder(s), \A p \in ToSet(s) : Precedes(p, e)
      PROVE  InOrder(Append(s, e))
  <2>1. \A i \in 1..Len(s) : Precedes(s[i], e)
    BY <1>2, <1>4
  <2>2. ASSUME NEW i \in 1..Len(s) + 1, NEW j \in 1..Len(s) + 1, i < j
        PROVE  Precedes(Append(s, e)[i], Append(s, e)[j])
    <3>1. i \in 1..Len(s)
      BY <1>2, <2>2
    <3>2. CASE j \in 1..Len(s)
      BY <1>1, <1>4, <2>2, <3>1, <3>2 DEF InOrder
    <3>3. CASE j = Len(s) + 1
      BY <1>1, <2>1, <3>1, <3>3
    <3> QED
      BY <1>2, <2>2, <3>2, <3>3
  <2> QED
    BY <1>1, <2>2 DEF InOrder
<1> QED
  BY <1>1, <1>3, <1>4

\* The first element and the rest.
LEMMA ItemTaken ==
  \A s \in Seq(Item) : s # <<>> =>
    /\ Head(s) \in ToSet(s) /\ Head(s) \in Item
    /\ Tail(s) \in Seq(Item) /\ ToSet(Tail(s)) \subseteq ToSet(s)
    /\ InOrder(s) => InOrder(Tail(s)) /\ \A q \in ToSet(Tail(s)) : Precedes(Head(s), q)
<1> SUFFICES ASSUME NEW s \in Seq(Item), s # <<>>
             PROVE  /\ Head(s) \in ToSet(s) /\ Head(s) \in Item
                    /\ Tail(s) \in Seq(Item) /\ ToSet(Tail(s)) \subseteq ToSet(s)
                    /\ InOrder(s) => /\ InOrder(Tail(s))
                                     /\ \A q \in ToSet(Tail(s)) : Precedes(Head(s), q)
  OBVIOUS
<1>1. /\ Head(s) \in Item /\ Tail(s) \in Seq(Item) /\ Len(Tail(s)) = Len(s) - 1
      /\ \A i \in 1..Len(Tail(s)) : Tail(s)[i] = s[i + 1]
  BY HeadTailProperties
<1>2. /\ Len(s) \in Nat \ {0} /\ ToSet(s) = {s[i] : i \in 1..Len(s)}
      /\ ToSet(Tail(s)) = {Tail(s)[i] : i \in 1..Len(s) - 1}
  BY <1>1, LenProperties, EmptySeq DEF ToSet
<1>3. Head(s) = s[1]
  OBVIOUS
<1>4. Head(s) \in ToSet(s)
  BY <1>2, <1>3
<1>5. \A i \in 1..Len(s) - 1 : Tail(s)[i] = s[i + 1] /\ i + 1 \in 1..Len(s) /\ 1 < i + 1
  BY <1>1, <1>2
<1>6. ToSet(Tail(s)) \subseteq ToSet(s)
  BY <1>2, <1>5
<1>7. ASSUME InOrder(s) PROVE InOrder(Tail(s)) /\ \A q \in ToSet(Tail(s)) : Precedes(Head(s), q)
  <2>1. \A i \in 1..Len(s) - 1 : Precedes(Head(s), Tail(s)[i])
    BY <1>2, <1>3, <1>5, <1>7 DEF InOrder
  <2>2. \A i, j \in 1..Len(s) - 1 : i < j => Precedes(s[i + 1], s[j + 1])
    BY <1>2, <1>7 DEF InOrder
  <2>3. \A i, j \in 1..Len(s) - 1 : i < j => Precedes(Tail(s)[i], Tail(s)[j])
    BY <1>5, <2>2
  <2> QED
    BY <1>1, <1>2, <2>1, <2>3 DEF InOrder
<1> QED
  BY <1>1, <1>4, <1>6, <1>7

\* What a transaction leaves in a row.
LEMMA RowWritten ==
  ASSUME TypeOK, NEW ops \in Seq(Operation), InOrder(ops), NEW k \in Key
  PROVE  /\ \/ Written(ops)[k] = table[k]
            \/ \E p \in ToSet(ops) : p.key = k /\ Written(ops)[k] = p.number
         /\ \A p \in ToSet(ops) : p.key = k => p.number <= Written(ops)[k]
<1> DEFINE own == {i \in DOMAIN ops : ops[i].key = k}
<1>1. /\ DOMAIN ops = 1..Len(ops) /\ Len(ops) \in Nat /\ ToSet(ops) = {ops[i] : i \in 1..Len(ops)}
      /\ \A i \in 1..Len(ops) : ops[i] \in Operation
  BY LenProperties, ElementOfSeq DEF ToSet
<1>2. Written(ops)[k] = IF own = {} THEN table[k] ELSE ops[Max(own)].number
  BY DEF Written
<1>3. CASE own = {}
  BY <1>1, <1>2, <1>3
<1>4. CASE own # {}
  <2>1. own \in SUBSET Nat /\ \A i \in own : i <= Len(ops)
    BY <1>1
  <2>2. Max(own) \in own /\ \A i \in own : i <= Max(own)
    BY <1>1, <1>4, <2>1, MaxOfBoundedNaturals
  <2>3. Written(ops)[k] = ops[Max(own)].number
    BY <1>2, <1>4
  <2>4. PICK m \in 1..Len(ops) : m = Max(own)
    BY <1>1, <2>2
  <2>5. ops[m].key = k /\ \A i \in 1..Len(ops) : ops[i].key = k => i <= m
    BY <1>1, <2>2, <2>4
  <2>6. ASSUME NEW i \in 1..Len(ops), ops[i].key = k PROVE ops[i].number <= ops[m].number
    <3>1. ops[i].number \in 1..MaxWrites /\ ops[m].number \in 1..MaxWrites
      BY <1>1 DEF Operation
    <3>2. CASE i = m
      BY <3>1, <3>2, WriterAssumption
    <3>3. CASE i < m
      <4>1. Precedes(ops[i], ops[m])
        BY <3>3 DEF InOrder
      <4> QED
        BY <1>1, <2>5, <2>6, <3>1, <4>1, WriterAssumption DEF Precedes
    <3> QED
      BY <2>5, <2>6, <3>2, <3>3
  <2> HIDE DEF own
  <2> QED
    BY <1>1, <2>3, <2>4, <2>5, <2>6
<1> QED
  BY <1>3, <1>4

-----------------------------------------------------------------------------
(* The steps                                                                  *)

\* What the proofs of the steps take from the types.
LEMMA Shapes ==
  ASSUME TypeOK
  PROVE  /\ queue \in Seq(Item) /\ ToSet(queue) \subseteq Item
         /\ \A t \in Thread : /\ batch[t] \in Seq(Operation) /\ batch[t] \in Seq(Item)
                              /\ ToSet(batch[t]) \subseteq Operation
         /\ \A p \in Operation : p.key \in Key /\ p.number \in 1..MaxWrites
         /\ \A k \in Key : table[k] \in 0..MaxWrites /\ writes[k] \in 0..MaxWrites
         /\ \A a \in answered : a.op \in Operation /\ a.ok \in BOOLEAN
         /\ MaxWrites \in Nat /\ starts \in Nat /\ Thread \subseteq Nat
<1>1. queue \in Seq(Item) /\ \A t \in Thread : batch[t] \in Seq(Operation)
  BY DEF TypeOK, Item
<1>2. \A s \in Seq(Operation) : s \in Seq(Item) /\ ToSet(s) \subseteq Operation
  <2> TAKE s \in Seq(Operation)
  <2>1. DOMAIN s = 1..Len(s) /\ Len(s) \in Nat /\ \A i \in 1..Len(s) : s[i] \in Operation
    BY LenProperties, ElementOfSeq
  <2>2. Seq(Operation) \subseteq Seq(Item)
    BY DEF Item
  <2> QED
    BY <2>1, <2>2 DEF ToSet
<1>3. ToSet(queue) \subseteq Item
  <2>1. DOMAIN queue = 1..Len(queue) /\ \A i \in 1..Len(queue) : queue[i] \in Item
    BY <1>1, LenProperties, ElementOfSeq
  <2> QED
    BY <2>1 DEF ToSet
<1>4. \A p \in Operation : p.key \in Key /\ p.number \in 1..MaxWrites
  BY DEF Operation
<1>5. /\ \A k \in Key : table[k] \in 0..MaxWrites /\ writes[k] \in 0..MaxWrites
      /\ \A a \in answered : a.op \in Operation /\ a.ok \in BOOLEAN
  BY DEF TypeOK
<1>6. MaxWrites \in Nat /\ starts \in Nat /\ Thread \subseteq Nat
  BY WriterAssumption DEF TypeOK, Thread
<1> QED
  BY <1>1, <1>2, <1>3, <1>4, <1>5, <1>6

LEMMA WriterInitially == Init => WriterInv
<1> SUFFICES ASSUME Init PROVE WriterInv
  OBVIOUS
<1>1. 1 \in Thread /\ 0 \in 0..MaxWrites /\ 0 \in 0..MaxStops
  BY WriterAssumption DEF Thread
<1>2. TypeOK
  <2>1. <<>> \in Seq(Operation) /\ <<>> \in Seq(Operation \cup {Shutdown})
    BY EmptySeq
  <2> QED
    BY <1>1, <2>1 DEF Init, TypeOK
<1>3. ThreadInv
  BY <1>1 DEF Init, ThreadInv, Alive, Thread
<1>4. OrderInv /\ TableInv
  <2>1. ToSet(<<>>) = {} /\ InOrder(<<>>)
    BY DEF ToSet, InOrder
  <2> QED
    BY <2>1 DEF Init, OrderInv, TableInv
<1> QED
  BY <1>2, <1>3, <1>4 DEF WriterInv, Init, AnswersTrue

LEMMA SubmitKeeps ==
  ASSUME WriterInv, NEW k \in Key, NEW kind \in Kind, NEW waits \in BOOLEAN, Submit(k, kind, waits)
  PROVE  WriterInv'
<1> DEFINE op == [key |-> k, number |-> writes[k] + 1, kind |-> kind]
<1>1. TypeOK /\ ThreadInv /\ OrderInv /\ TableInv /\ AnswersTrue
  BY DEF WriterInv
<1>2. /\ writes[k] < MaxWrites /\ writes' = [writes EXCEPT ![k] = writes[k] + 1]
      /\ queue' = Append(queue, op) /\ pending' \in {pending, pending \cup {op}}
      /\ UNCHANGED <<table, answered, raised, writer, batch, starts, stopEvent, initialized,
                     caller, stops>>
  BY DEF Submit, threads, control
<1>3. op \in Operation /\ op \in Item /\ op.key = k /\ op.number = writes[k] + 1
  <2>1. writes[k] \in 0..MaxWrites
    BY <1>1 DEF TypeOK
  <2>2. writes[k] + 1 \in 1..MaxWrites
    BY <1>2, <2>1, WriterAssumption
  <2> QED
    BY <2>2 DEF Operation, Item
<1>4. /\ \A l \in Key : writes[l] \in Nat /\ writes'[l] \in Nat /\ writes[l] <= writes'[l]
      /\ writes'[k] = writes[k] + 1
      /\ \A p \in Operation : p.key \in Key /\ p.number \in Nat
      /\ \A l \in Key : table[l] \in Nat
  BY <1>1, <1>2, WriterAssumption DEF TypeOK, Operation
<1>5. \A p \in Operation : p.number <= writes[p.key] => Precedes(p, op) /\ p.number <= writes'[p.key]
  BY <1>3, <1>4 DEF Precedes
<1> HIDE DEF op
<1>6. /\ queue' \in Seq(Item) /\ ToSet(queue') = ToSet(queue) \cup {op} /\ ToSet(queue) \subseteq Item
      /\ InOrder(queue) /\ (\A p \in ToSet(queue) : Precedes(p, op)) => InOrder(queue')
  BY <1>1, <1>2, <1>3, ItemAppended, Shapes
<1>7. TypeOK'
  <2>1. writes' \in [Key -> 0..MaxWrites]
    BY <1>1, <1>2, WriterAssumption DEF TypeOK
  <2>2. pending' \subseteq Operation
    BY <1>1, <1>2, <1>3 DEF TypeOK
  <2> QED
    BY <1>1, <1>2, <1>6, <2>1, <2>2 DEF TypeOK, Item
<1>8. ThreadInv'
  BY <1>1, <1>2 DEF ThreadInv, Alive
<1>9. OrderInv'
  <2>1. \A p \in ToSet(queue) : Precedes(p, op)
    <3>1. \A p \in ToSet(queue) \cap Operation : p.number <= writes[p.key]
      BY <1>1 DEF OrderInv
    <3>2. Precedes(Shutdown, op)
      BY ShutdownApart DEF Precedes
    <3> QED
      BY <1>5, <1>6, <3>1, <3>2 DEF Item
  <2>2. InOrder(queue')
    BY <1>1, <1>6, <2>1 DEF OrderInv
  <2>3. \A p \in ToSet(queue') \cap Operation : p.number <= writes'[p.key]
    BY <1>1, <1>3, <1>4, <1>5, <1>6 DEF OrderInv
  <2>4. ASSUME NEW t \in Thread, NEW p \in ToSet(batch[t])
        PROVE  p.number <= writes'[p.key] /\ \A q \in ToSet(queue') : Precedes(p, q)
    <3>1. p \in Operation /\ p.number <= writes[p.key]
      BY <1>1, <2>4, Shapes DEF OrderInv
    <3> QED
      BY <1>1, <1>5, <1>6, <2>4, <3>1 DEF OrderInv
  <2>5. ASSUME NEW a \in answered
        PROVE  a.op.number <= writes'[a.op.key] /\ \A q \in ToSet(queue') : Precedes(a.op, q)
    <3>1. a.op \in Operation /\ a.op.number <= writes[a.op.key]
      BY <1>1, <2>5, Shapes DEF OrderInv
    <3> QED
      BY <1>1, <1>5, <1>6, <2>5, <3>1 DEF OrderInv
  <2> QED
    BY <1>1, <1>2, <2>2, <2>3, <2>4, <2>5 DEF OrderInv
<1>10. TableInv'
  <2>1. \A p \in ToSet(queue') \cap Operation : table[p.key] < p.number
    <3>1. table[op.key] < op.number
      <4>1. table[k] <= writes[k]
        BY <1>1 DEF TableInv
      <4> QED
        BY <1>3, <1>4, <4>1
    <3> QED
      BY <1>1, <1>6, <3>1 DEF TableInv
  <2>2. \A l \in Key : table[l] <= writes'[l]
    BY <1>1, <1>4 DEF TableInv
  <2> QED
    BY <1>1, <1>2, <2>1, <2>2 DEF TableInv
<1> QED
  BY <1>1, <1>2, <1>7, <1>8, <1>9, <1>10 DEF WriterInv, AnswersTrue

\* start() and stop().
LEMMA ControlKeeps ==
  ASSUME ~SlowWriter, WriterInv, Start \/ Stop \/ StopQueue \/ StopJoin
  PROVE  WriterInv'
<1>1. TypeOK /\ ThreadInv /\ OrderInv /\ TableInv /\ AnswersTrue
  BY DEF WriterInv
<1>2. UNCHANGED <<table, writes, pending, answered, raised, batch>>
  BY DEF Start, Stop, StopQueue, StopJoin, callers, threads
<1>3. queue' = queue \/ queue' = Append(queue, Shutdown)
  BY DEF Start, Stop, StopQueue, StopJoin
<1>4. queue' \in Seq(Item) /\ ToSet(queue') \subseteq ToSet(queue) \cup {Shutdown} /\ InOrder(queue')
  <2>1. \A p \in Item : Precedes(p, Shutdown)
    BY ShutdownApart DEF Precedes
  <2>2. Shutdown \in Item /\ queue \in Seq(Item) /\ ToSet(queue) \subseteq Item /\ InOrder(queue)
    BY <1>1, Shapes DEF Item, OrderInv
  <2> QED
    BY <1>3, <2>1, <2>2, ItemAppended
<1>5. ThreadInv' /\ TypeOK'
  <2>1. CASE Start
    <3>1. /\ starts' = starts + 1 /\ starts < MaxStarts /\ caller' = "idle" /\ initialized' = TRUE
          /\ stopEvent' = FALSE /\ queue' = queue /\ stops' = stops
          /\ writer' = [writer EXCEPT ![starts + 1] = "looping"]
          /\ ~Alive(starts)
      BY <1>1, <2>1 DEF Start, MayStart, ThreadInv
    <3>2. starts + 1 \in Thread /\ starts \in Nat /\ \A t \in Thread : t \in Nat
      BY <1>1, <3>1, WriterAssumption DEF TypeOK, Thread
    <3>3. /\ writer' \in [Thread -> {"unborn", "looping", "waiting", "draining", "writing",
                                     "resolving", "rejecting", "exited"}]
          /\ writer'[starts + 1] = "looping"
          /\ \A t \in Thread : t # starts + 1 => writer'[t] = writer[t]
      BY <1>1, <3>1, <3>2 DEF TypeOK
    <3>4. ASSUME NEW t \in Thread
          PROVE  /\ Alive(t)' => t = starts'
                 /\ t > starts' => writer'[t] = "unborn"
                 /\ ~Alive(t)' \/ writer'[t] \in {"looping", "waiting"} => batch'[t] = <<>>
      <4>1. CASE t = starts + 1
        <5>1. writer[t] = "unborn"
          BY <1>1, <3>2, <4>1 DEF ThreadInv
        <5>2. batch[t] = <<>>
          BY <1>1, <5>1 DEF ThreadInv, Alive
        <5> QED
          BY <1>2, <3>1, <3>2, <3>3, <4>1, <5>2
      <4>2. CASE t # starts + 1
        <5>1. ~Alive(t)
          BY <1>1, <3>1 DEF ThreadInv
        <5>2. batch[t] = <<>> /\ writer'[t] = writer[t]
          BY <1>1, <3>3, <4>2, <5>1 DEF ThreadInv
        <5>3. t > starts' => writer[t] = "unborn"
          BY <1>1, <3>1, <3>2 DEF ThreadInv
        <5> QED
          BY <1>2, <5>1, <5>2, <5>3 DEF Alive
      <4> QED
        BY <4>1, <4>2
    <3>5. ThreadInv'
      BY <3>1, <3>4 DEF ThreadInv
    <3> QED
      BY <1>1, <1>2, <1>4, <3>1, <3>2, <3>3, <3>5 DEF TypeOK, Item
  <2>2. CASE Stop
    <3>1. stops' \in 0..MaxStops
      BY <1>1, <2>2, WriterAssumption DEF Stop, TypeOK
    <3> QED
      BY <1>1, <1>2, <1>4, <2>2, <3>1 DEF Stop, ThreadInv, TypeOK, Alive, threads, Item
  <2>3. CASE StopQueue
    BY <1>1, <1>2, <1>4, <2>3 DEF StopQueue, ThreadInv, TypeOK, Alive, threads, Item
  <2>4. CASE StopJoin
    BY <1>1, <1>2, <1>4, <2>4 DEF StopJoin, ThreadInv, TypeOK, Alive, threads, Item
  <2> QED
    BY <2>1, <2>2, <2>3, <2>4
<1>6. OrderInv'
  <2>1. ToSet(queue') \cap Operation \subseteq ToSet(queue) \cap Operation
    BY <1>4, ShutdownApart
  <2>2. \A p \in Item : Precedes(p, Shutdown)
    BY ShutdownApart DEF Precedes
  <2>3. /\ \A t \in Thread : ToSet(batch[t]) \subseteq Item
        /\ \A a \in answered : a.op \in Item
    BY <1>1, Shapes DEF Item
  <2>4. \A t \in Thread : \A p \in ToSet(batch[t]) : \A q \in ToSet(queue') : Precedes(p, q)
    BY <1>1, <1>4, <2>2, <2>3 DEF OrderInv
  <2>5. \A a \in answered : \A q \in ToSet(queue') : Precedes(a.op, q)
    BY <1>1, <1>4, <2>2, <2>3 DEF OrderInv
  <2> QED
    BY <1>1, <1>2, <1>4, <2>1, <2>4, <2>5 DEF OrderInv
<1>7. TableInv'
  <2>1. ToSet(queue') \cap Operation \subseteq ToSet(queue) \cap Operation
    BY <1>4, ShutdownApart
  <2>2. \A t \in Thread : ToSet(batch[t]) # {} => writer'[t] = writer[t]
    <3>1. CASE Start
      <4>1. starts + 1 \in Thread /\ starts + 1 > starts
        BY <1>1, <3>1, WriterAssumption DEF Start, TypeOK, Thread
      <4>2. writer[starts + 1] = "unborn"
        BY <1>1, <4>1 DEF ThreadInv
      <4>3. batch[starts + 1] = <<>>
        BY <1>1, <4>1, <4>2 DEF ThreadInv, Alive
      <4>4. ToSet(batch[starts + 1]) = {}
        BY <4>3 DEF ToSet
      <4>5. \A t \in Thread : t # starts + 1 => writer'[t] = writer[t]
        BY <1>1, <3>1 DEF Start, TypeOK
      <4> QED
        BY <4>4, <4>5
    <3>2. CASE ~Start
      BY <3>2 DEF Stop, StopQueue, StopJoin, threads
    <3> QED
      BY <3>1, <3>2
  <2>3. \A t \in Thread : \A p \in ToSet(batch[t]) : writer'[t] = writer[t]
    BY <2>2
  <2> QED
    BY <1>1, <1>2, <2>1, <2>3 DEF TableInv
<1> QED
  BY <1>1, <1>2, <1>5, <1>6, <1>7 DEF WriterInv, AnswersTrue

\* A step of a thread t that goes on with the batch b.
Moves(t, place, b) ==
  /\ Alive(t)
  /\ writer' = [writer EXCEPT ![t] = place]
  /\ batch' = [batch EXCEPT ![t] = b]
  /\ UNCHANGED control

Place == {"looping", "waiting", "draining", "writing", "resolving", "rejecting", "exited"}

LEMMA ThreadMoves ==
  ASSUME TypeOK, ThreadInv, NEW t \in Thread, NEW place \in Place, NEW b \in Seq(Operation),
         Moves(t, place, b), place \in {"exited", "looping", "waiting"} => b = <<>>
  PROVE  /\ ThreadInv' /\ t = starts
         /\ writer' \in [Thread -> {"unborn", "looping", "waiting", "draining", "writing",
                                    "resolving", "rejecting", "exited"}]
         /\ batch' \in [Thread -> Seq(Operation)]
         /\ writer'[t] = place /\ batch'[t] = b
         /\ \A u \in Thread : u # t => /\ writer'[u] = writer[u] /\ batch'[u] = batch[u]
                                       /\ ToSet(batch[u]) = {}
<1>1. t = starts /\ UNCHANGED control
  BY DEF ThreadInv, Moves
<1>2. /\ writer' \in [Thread -> {"unborn", "looping", "waiting", "draining", "writing",
                                 "resolving", "rejecting", "exited"}]
      /\ writer'[t] = place /\ \A u \in Thread : u # t => writer'[u] = writer[u]
  BY DEF TypeOK, Moves, Place
<1>3. /\ batch' \in [Thread -> Seq(Operation)]
      /\ batch'[t] = b /\ \A u \in Thread : u # t => batch'[u] = batch[u]
  BY DEF TypeOK, Moves
<1>4. \A u \in Thread : u # t => ~Alive(u) /\ batch[u] = <<>>
  BY <1>1 DEF ThreadInv
<1>5. ToSet(<<>>) = {}
  BY DEF ToSet
<1>6. ASSUME NEW u \in Thread
      PROVE  /\ Alive(u)' => u = starts'
             /\ u > starts' => writer'[u] = "unborn"
             /\ ~Alive(u)' \/ writer'[u] \in {"looping", "waiting"} => batch'[u] = <<>>
  <2>1. CASE u = t
    <3>1. ~(u > starts')
      BY <1>1, <2>1, Shapes DEF control
    <3> QED
      BY <1>1, <1>2, <1>3, <2>1, <3>1 DEF Alive, control, Place
  <2>2. CASE u # t
    BY <1>1, <1>2, <1>3, <1>4, <2>2 DEF Alive, control, ThreadInv
  <2> QED
    BY <2>1, <2>2
<1>7. caller' = "idle" /\ ~initialized' => ~Alive(starts)'
  <2>1. ~(caller = "idle" /\ ~initialized)
    BY <1>1 DEF ThreadInv, Moves
  <2> QED
    BY <1>1, <2>1 DEF control
<1> QED
  BY <1>1, <1>2, <1>3, <1>4, <1>5, <1>6, <1>7 DEF ThreadInv

\* A step that takes an operation from the queue, or none, and writes and answers
\* nothing.
LEMMA TakingKeeps ==
  ASSUME WriterInv, NEW t \in Thread, NEW place \in Place \ {"resolving"}, writer[t] # "resolving",
         NEW b \in Seq(Operation), Moves(t, place, b),
         place \in {"exited", "looping", "waiting"} => b = <<>>,
         UNCHANGED <<table, writes, pending, answered>>, raised' \in BOOLEAN,
         queue' \in Seq(Item), ToSet(queue') \subseteq ToSet(queue), InOrder(queue'), InOrder(b),
         \A p \in ToSet(b) : p \in ToSet(batch[t]) \/
                             (p \in ToSet(queue) /\ \A q \in ToSet(queue') : Precedes(p, q))
  PROVE  WriterInv'
<1>1. TypeOK /\ ThreadInv /\ OrderInv /\ TableInv /\ AnswersTrue
  BY DEF WriterInv
<1>2. /\ ThreadInv'
      /\ writer' \in [Thread -> {"unborn", "looping", "waiting", "draining", "writing",
                                 "resolving", "rejecting", "exited"}]
      /\ batch' \in [Thread -> Seq(Operation)]
      /\ writer'[t] = place /\ batch'[t] = b
      /\ \A u \in Thread : u # t => /\ writer'[u] = writer[u] /\ batch'[u] = batch[u]
                                    /\ ToSet(batch[u]) = {}
  BY <1>1, ThreadMoves
<1>3. TypeOK'
  BY <1>1, <1>2 DEF TypeOK, Moves, control, Item
<1>4. \A u \in Thread : u # t => ToSet(batch'[u]) = {}
  BY <1>2
<1>5. \A p \in ToSet(b) : p \in Operation
  BY LenProperties, ElementOfSeq DEF ToSet
<1>6. OrderInv'
  <2>1. \A p \in ToSet(queue') \cap Operation : p.number <= writes[p.key]
    BY <1>1 DEF OrderInv
  <2>2. \A p \in ToSet(b) : p.number <= writes[p.key] /\ \A q \in ToSet(queue') : Precedes(p, q)
    BY <1>1, <1>5 DEF OrderInv
  <2>3. ASSUME NEW u \in Thread
        PROVE  /\ InOrder(batch'[u])
               /\ \A p \in ToSet(batch'[u]) :
                    p.number <= writes[p.key] /\ \A q \in ToSet(queue') : Precedes(p, q)
    <3>1. CASE u = t
      BY <1>2, <2>2, <3>1
    <3>2. CASE u # t
      BY <1>1, <1>2, <1>4, <3>2 DEF OrderInv
    <3> QED
      BY <3>1, <3>2
  <2>4. ASSUME NEW a \in answered
        PROVE  /\ a.op.number <= writes[a.op.key]
               /\ \A q \in ToSet(queue') : Precedes(a.op, q)
               /\ \A u \in Thread : \A q \in ToSet(batch'[u]) : Precedes(a.op, q)
    <3>1. \A q \in ToSet(b) : Precedes(a.op, q)
      BY <1>1 DEF OrderInv
    <3> QED
      BY <1>1, <1>2, <1>4, <3>1 DEF OrderInv
  <2> QED
    BY <2>1, <2>3, <2>4 DEF OrderInv
<1>7. TableInv'
  <2>1. \A p \in ToSet(b) : table[p.key] < p.number
    BY <1>1, <1>5 DEF TableInv
  <2>2. ASSUME NEW u \in Thread, NEW p \in ToSet(batch'[u])
        PROVE  IF writer'[u] = "resolving" THEN p.number <= table[p.key] ELSE table[p.key] < p.number
    <3>1. u = t
      BY <1>4, <2>2
    <3> QED
      BY <1>2, <2>1, <2>2, <3>1
  <2> QED
    BY <1>1, <2>2 DEF TableInv
<1> QED
  BY <1>1, <1>3, <1>2, <1>6, <1>7 DEF WriterInv, AnswersTrue

LEMMA QuietStepsKeep ==
  ASSUME WriterInv, NEW t \in Thread, Loop(t) \/ TakeNothing(t) \/ Refuse(t) \/ Raise(t)
  PROVE  WriterInv'
<1>1. TypeOK /\ ThreadInv /\ OrderInv
  BY DEF WriterInv
<1>2. batch[t] \in Seq(Operation) /\ batch = [batch EXCEPT ![t] = batch[t]]
  BY <1>1 DEF TypeOK
<1>3. /\ UNCHANGED <<table, writes, pending, answered, queue>> /\ raised' \in BOOLEAN
      /\ writer[t] # "resolving"
  BY <1>1 DEF Loop, TakeNothing, Refuse, Raise, RolledBack, callers, TypeOK
<1>4. PICK place \in Place \ {"resolving"}, b \in {<<>>, batch[t]} :
        Moves(t, place, b) /\ (place \in {"exited", "looping", "waiting"} => b = <<>>)
  <2>1. CASE Loop(t)
    <3>1. batch[t] = <<>>
      BY <1>1, <2>1 DEF ThreadInv, Loop
    <3>2. Moves(t, IF stopEvent THEN "exited" ELSE "waiting", batch[t])
      BY <1>2, <2>1 DEF Loop, Moves, Goto, Alive
    <3> QED
      BY <3>1, <3>2 DEF Place
  <2>2. CASE TakeNothing(t)
    <3>1. batch[t] = <<>>
      BY <1>1, <2>2 DEF ThreadInv, TakeNothing
    <3>2. Moves(t, "looping", batch[t])
      BY <1>2, <2>2 DEF TakeNothing, Moves, Goto, Alive
    <3> QED
      BY <3>1, <3>2 DEF Place
  <2>3. CASE Refuse(t)
    <3>1. Moves(t, "rejecting", batch[t])
      BY <1>2, <2>3 DEF Refuse, Moves, Goto, Alive
    <3> QED
      BY <3>1 DEF Place
  <2>4. CASE Raise(t)
    <3>1. Moves(t, "looping", <<>>)
      BY <1>2, <2>4 DEF Raise, Moves, Goto, Alive
    <3> QED
      BY <3>1 DEF Place
  <2> QED
    BY <2>1, <2>2, <2>3, <2>4
<1>5. /\ b \in Seq(Operation) /\ InOrder(b) /\ \A p \in ToSet(b) : p \in ToSet(batch[t])
  <2>1. <<>> \in Seq(Operation) /\ ToSet(<<>>) = {} /\ InOrder(<<>>)
    BY EmptySeq DEF ToSet, InOrder
  <2> QED
    BY <1>1, <1>2, <2>1 DEF OrderInv
<1>6. queue' \in Seq(Item) /\ ToSet(queue') \subseteq ToSet(queue) /\ InOrder(queue')
  BY <1>1, <1>3, Shapes DEF OrderInv
<1> QED
  BY <1>3, <1>4, <1>5, <1>6, TakingKeeps

LEMMA TakeFirstKeeps ==
  ASSUME WriterInv, NEW t \in Thread, TakeFirst(t)
  PROVE  WriterInv'
<1>1. TypeOK /\ ThreadInv /\ OrderInv
  BY DEF WriterInv
<1>2. /\ writer[t] = "waiting" /\ queue # <<>> /\ queue' = Tail(queue) /\ Alive(t)
      /\ UNCHANGED <<table, raised, writes, pending, answered>> /\ UNCHANGED control
  BY DEF TakeFirst, callers, Alive
<1>3. batch[t] = <<>> /\ batch = [batch EXCEPT ![t] = batch[t]]
  BY <1>1, <1>2 DEF ThreadInv, TypeOK
<1>4. /\ Head(queue) \in ToSet(queue) /\ Head(queue) \in Item
      /\ queue' \in Seq(Item) /\ ToSet(queue') \subseteq ToSet(queue) /\ InOrder(queue')
      /\ \A q \in ToSet(queue') : Precedes(Head(queue), q)
  <2>1. queue \in Seq(Item) /\ InOrder(queue)
    BY <1>1, Shapes DEF OrderInv
  <2> QED
    BY <1>2, <2>1, ItemTaken
<1>5. raised' \in BOOLEAN
  BY <1>1, <1>2 DEF TypeOK
<1>6. CASE Head(queue) = Shutdown
  <2>1. Moves(t, "exited", <<>>)
    BY <1>2, <1>3, <1>6 DEF TakeFirst, Ends, Moves, Goto
  <2>2. <<>> \in Seq(Operation) /\ ToSet(<<>>) = {} /\ InOrder(<<>>) /\ "exited" \in Place \ {"resolving"}
    BY EmptySeq DEF ToSet, InOrder, Place
  <2> QED
    BY <1>2, <1>4, <1>5, <2>1, <2>2, TakingKeeps
<1>7. CASE Head(queue) # Shutdown
  <2>1. Head(queue) \in Operation
    BY <1>4, <1>7 DEF Item
  <2>2. Moves(t, "draining", <<Head(queue)>>)
    BY <1>2, <1>7 DEF TakeFirst, Ends, Moves, Goto
  <2>3. /\ <<Head(queue)>> \in Seq(Operation) /\ ToSet(<<Head(queue)>>) = {Head(queue)}
        /\ InOrder(<<Head(queue)>>) /\ "draining" \in Place \ {"resolving"}
    BY <2>1 DEF ToSet, InOrder, Place
  <2> QED
    BY <1>2, <1>4, <1>5, <2>2, <2>3, TakingKeeps
<1> QED
  BY <1>6, <1>7

LEMMA DrainKeeps ==
  ASSUME WriterInv, NEW t \in Thread, Drain(t)
  PROVE  WriterInv'
<1>1. TypeOK /\ ThreadInv /\ OrderInv
  BY DEF WriterInv
<1>2. /\ writer[t] = "draining" /\ Alive(t) /\ raised' \in BOOLEAN
      /\ UNCHANGED <<table, writes, pending, answered>> /\ UNCHANGED control
  BY <1>1 DEF Drain, callers, Alive, TypeOK
<1>3. /\ batch[t] \in Seq(Operation) /\ batch[t] \in Seq(Item) /\ InOrder(batch[t])
      /\ batch = [batch EXCEPT ![t] = batch[t]] /\ writer = [writer EXCEPT ![t] = "draining"]
      /\ queue \in Seq(Item) /\ InOrder(queue)
  BY <1>1, <1>2, Shapes DEF TypeOK, OrderInv
<1>4. "writing" \in Place \ {"resolving"} /\ "draining" \in Place \ {"resolving"}
  BY DEF Place
<1>5. CASE ~(Len(batch[t]) < MaxBatch /\ queue # <<>>)
  <2>1. Moves(t, "writing", batch[t]) /\ queue' = queue
    BY <1>2, <1>3, <1>5 DEF Drain, Moves, Goto
  <2> QED
    BY <1>2, <1>3, <1>4, <2>1, TakingKeeps
<1>6. CASE Len(batch[t]) < MaxBatch /\ queue # <<>>
  <2>1. queue' = Tail(queue)
    BY <1>6 DEF Drain
  <2>2. /\ Head(queue) \in ToSet(queue) /\ Head(queue) \in Item
        /\ queue' \in Seq(Item) /\ ToSet(queue') \subseteq ToSet(queue) /\ InOrder(queue')
        /\ \A q \in ToSet(queue') : Precedes(Head(queue), q)
    BY <1>3, <1>6, <2>1, ItemTaken
  <2>3. CASE Head(queue) = Shutdown
    <3>1. Moves(t, "writing", batch[t])
      BY <1>2, <1>3, <1>6, <2>3 DEF Drain, Ends, Moves, Goto
    <3> QED
      BY <1>2, <1>3, <1>4, <2>2, <3>1, TakingKeeps
  <2>4. CASE Head(queue) # Shutdown
    <3>1. Head(queue) \in Operation
      BY <2>2, <2>4 DEF Item
    <3>2. Moves(t, "draining", Append(batch[t], Head(queue)))
      BY <1>2, <1>3, <1>6, <2>4 DEF Drain, Ends, Moves, Goto
    <3>3. Append(batch[t], Head(queue)) \in Seq(Operation)
      BY <1>3, <3>1, AppendProperties
    <3>4. \A p \in ToSet(batch[t]) : Precedes(p, Head(queue))
      BY <1>1, <2>2 DEF OrderInv
    <3>5. /\ ToSet(Append(batch[t], Head(queue))) = ToSet(batch[t]) \cup {Head(queue)}
          /\ InOrder(Append(batch[t], Head(queue)))
      BY <1>3, <2>2, <3>4, ItemAppended
    <3>6. \A p \in ToSet(Append(batch[t], Head(queue))) :
            p \in ToSet(batch[t]) \/ (p \in ToSet(queue) /\ \A q \in ToSet(queue') : Precedes(p, q))
      BY <2>2, <3>5
    <3> QED
      BY <1>2, <1>4, <2>2, <3>2, <3>3, <3>5, <3>6, TakingKeeps
  <2> QED
    BY <2>3, <2>4
<1> QED
  BY <1>5, <1>6

LEMMA CommitKeeps ==
  ASSUME WriterInv, NEW t \in Thread, Commit(t)
  PROVE  WriterInv' /\ \A k \in Key : table[k] <= table'[k]
<1>1. TypeOK /\ ThreadInv /\ OrderInv /\ TableInv /\ AnswersTrue
  BY DEF WriterInv
<1>2. /\ writer[t] = "writing" /\ Alive(t) /\ table' = Written(batch[t])
      /\ UNCHANGED <<queue, raised, writes, pending, answered>> /\ UNCHANGED control
      /\ batch[t] \in Seq(Operation) /\ InOrder(batch[t]) /\ "resolving" \in Place
      /\ batch = [batch EXCEPT ![t] = batch[t]]
  BY <1>1 DEF Commit, callers, Alive, TypeOK, OrderInv, Place
<1>3. Moves(t, "resolving", batch[t])
  BY <1>2 DEF Commit, Moves, Goto
<1>4. /\ ThreadInv'
      /\ writer' \in [Thread -> {"unborn", "looping", "waiting", "draining", "writing",
                                 "resolving", "rejecting", "exited"}]
      /\ batch' \in [Thread -> Seq(Operation)]
      /\ writer'[t] = "resolving" /\ batch'[t] = batch[t]
      /\ \A u \in Thread : u # t => /\ writer'[u] = writer[u] /\ batch'[u] = batch[u]
                                    /\ ToSet(batch[u]) = {}
  BY <1>1, <1>2, <1>3, ThreadMoves
<1>5. \A k \in Key :
        /\ \/ table'[k] = table[k]
           \/ \E p \in ToSet(batch[t]) : p.key = k /\ table'[k] = p.number
        /\ \A p \in ToSet(batch[t]) : p.key = k => p.number <= table'[k]
  BY <1>1, <1>2, RowWritten
<1>6. /\ \A p \in Operation : p.key \in Key /\ p.number \in 1..MaxWrites
      /\ \A k \in Key : table[k] \in 0..MaxWrites /\ writes[k] \in 0..MaxWrites
      /\ \A a \in answered : a.op \in Operation /\ a.ok \in BOOLEAN
      /\ MaxWrites \in Nat /\ ToSet(batch[t]) \subseteq Operation
  BY <1>1, Shapes
<1>7. \A p \in ToSet(batch[t]) : /\ table[p.key] < p.number /\ p.number <= writes[p.key]
                                 /\ \A q \in ToSet(queue) : Precedes(p, q)
  BY <1>1, <1>2 DEF TableInv, OrderInv
<1>8. \A k \in Key : table'[k] \in 0..MaxWrites /\ table[k] <= table'[k] /\ table'[k] <= writes[k]
  <2> TAKE k \in Key
  <2>1. CASE table'[k] = table[k]
    BY <1>1, <1>6, <2>1 DEF TableInv
  <2>2. CASE \E p \in ToSet(batch[t]) : p.key = k /\ table'[k] = p.number
    BY <1>6, <1>7, <2>2
  <2> QED
    BY <1>5, <2>1, <2>2
<1>9. table' \in [Key -> 0..MaxWrites]
  BY <1>2, <1>8 DEF Written
<1>10. TypeOK'
  BY <1>1, <1>2, <1>4, <1>9 DEF TypeOK, control
<1>11. OrderInv'
  BY <1>1, <1>2, <1>3, <1>4 DEF OrderInv, Moves
<1>12. TableInv'
  <2>1. \A p \in ToSet(queue) \cap Operation : table'[p.key] < p.number
    <3> TAKE p \in ToSet(queue) \cap Operation
    <3>1. table[p.key] < p.number /\ p.key \in Key
      BY <1>1, <1>6 DEF TableInv
    <3>2. CASE table'[p.key] = table[p.key]
      BY <3>1, <3>2
    <3>3. CASE \E q \in ToSet(batch[t]) : q.key = p.key /\ table'[p.key] = q.number
      BY <1>6, <1>7, <3>3 DEF Precedes
    <3> QED
      BY <1>5, <3>1, <3>2, <3>3
  <2>2. ASSUME NEW u \in Thread, NEW p \in ToSet(batch'[u])
        PROVE  IF writer'[u] = "resolving" THEN p.number <= table'[p.key] ELSE table'[p.key] < p.number
    <3>1. u = t
      BY <1>4, <2>2
    <3>2. p \in ToSet(batch[t]) /\ p.key \in Key
      BY <1>4, <1>6, <2>2, <3>1
    <3> QED
      BY <1>4, <1>5, <3>1, <3>2
  <2> QED
    BY <1>2, <1>8, <2>1, <2>2 DEF TableInv
<1>13. AnswersTrue'
  <2> SUFFICES ASSUME NEW a \in answered
               PROVE  IF a.ok THEN table'[a.op.key] >= a.op.number
                              ELSE table'[a.op.key] # a.op.number
    BY <1>2 DEF AnswersTrue
  <2>1. /\ a.op \in Operation /\ a.op.key \in Key /\ a.op.number \in 1..MaxWrites
        /\ IF a.ok THEN table[a.op.key] >= a.op.number ELSE table[a.op.key] # a.op.number
        /\ \A q \in ToSet(batch[t]) : Precedes(a.op, q)
    BY <1>1, <1>6 DEF AnswersTrue, OrderInv
  <2>2. CASE table'[a.op.key] = table[a.op.key]
    BY <2>1, <2>2
  <2>3. CASE \E p \in ToSet(batch[t]) : p.key = a.op.key /\ table'[a.op.key] = p.number
    <3>1. PICK p \in ToSet(batch[t]) : p.key = a.op.key /\ table'[a.op.key] = p.number
      BY <2>3
    <3>2. a.op.number < p.number /\ p.number \in 1..MaxWrites
      BY <1>6, <2>1, <3>1 DEF Precedes
    <3> QED
      BY <1>6, <2>1, <3>1, <3>2
  <2> QED
    BY <1>5, <2>1, <2>2, <2>3
<1> QED
  BY <1>4, <1>8, <1>10, <1>11, <1>12, <1>13 DEF WriterInv

LEMMA AnswerKeeps ==
  ASSUME WriterInv, NEW t \in Thread, Answer(t)
  PROVE  WriterInv'
<1> DEFINE done == ToSet(batch[t]) \cap pending
           ok == writer[t] = "resolving"
<1>1. TypeOK /\ ThreadInv /\ OrderInv /\ TableInv /\ AnswersTrue
  BY DEF WriterInv
<1>2. /\ writer[t] \in {"resolving", "rejecting"} /\ Alive(t)
      /\ UNCHANGED <<queue, raised, writes, table>> /\ UNCHANGED control
      /\ pending' = pending \ done
      /\ answered' = answered \cup {[op |-> op, ok |-> ok] : op \in done}
  BY DEF Answer, AnsweredBy, Alive
<1>3. Moves(t, "looping", <<>>) /\ <<>> \in Seq(Operation) /\ "looping" \in Place
  BY <1>2, EmptySeq DEF Answer, Moves, Goto, Place
<1>4. /\ ThreadInv'
      /\ writer' \in [Thread -> {"unborn", "looping", "waiting", "draining", "writing",
                                 "resolving", "rejecting", "exited"}]
      /\ batch' \in [Thread -> Seq(Operation)]
      /\ writer'[t] = "looping" /\ batch'[t] = <<>>
      /\ \A u \in Thread : u # t => /\ writer'[u] = writer[u] /\ batch'[u] = batch[u]
                                    /\ ToSet(batch[u]) = {}
  BY <1>1, <1>3, ThreadMoves
<1>5. \A u \in Thread : ToSet(batch'[u]) = {} /\ InOrder(batch'[u])
  <2>1. ToSet(<<>>) = {} /\ InOrder(<<>>)
    BY DEF ToSet, InOrder
  <2> QED
    BY <1>1, <1>4, <2>1 DEF OrderInv
<1>6. done \subseteq Operation /\ ok \in BOOLEAN
  BY <1>1, Shapes
<1>7. ASSUME NEW p \in done
      PROVE  /\ p.number <= writes[p.key] /\ \A q \in ToSet(queue) : Precedes(p, q)
             /\ IF ok THEN p.number <= table[p.key] ELSE table[p.key] < p.number
  BY <1>1, <1>2 DEF OrderInv, TableInv
<1> HIDE DEF done, ok
<1>8. \A a \in answered' : a \in answered \/ \E p \in done : a = [op |-> p, ok |-> ok]
  BY <1>2
<1>9. TypeOK'
  <2>1. answered' \subseteq [op : Operation, ok : BOOLEAN]
    BY <1>1, <1>2, <1>6 DEF TypeOK
  <2> QED
    BY <1>1, <1>2, <1>4, <2>1 DEF TypeOK, control
<1>10. OrderInv'
  <2>1. \A a \in answered' : /\ a.op.number <= writes[a.op.key]
                             /\ \A q \in ToSet(queue) : Precedes(a.op, q)
    BY <1>1, <1>7, <1>8 DEF OrderInv
  <2>2. InOrder(queue) /\ \A p \in ToSet(queue) \cap Operation : p.number <= writes[p.key]
    BY <1>1 DEF OrderInv
  <2> QED
    BY <1>2, <1>5, <2>1, <2>2 DEF OrderInv
<1>11. TableInv'
  BY <1>1, <1>2, <1>5 DEF TableInv
<1>12. AnswersTrue'
  <2> SUFFICES ASSUME NEW a \in answered'
               PROVE  IF a.ok THEN table[a.op.key] >= a.op.number
                              ELSE table[a.op.key] # a.op.number
    BY <1>2 DEF AnswersTrue
  <2>1. CASE a \in answered
    BY <1>1, <2>1 DEF AnswersTrue
  <2>2. CASE \E p \in done : a = [op |-> p, ok |-> ok]
    <3>1. PICK p \in done : a = [op |-> p, ok |-> ok]
      BY <2>2
    <3>2. p.number \in Nat /\ table[p.key] \in Nat /\ a.op = p /\ a.ok = ok
      BY <1>1, <1>6, <3>1, Shapes
    <3> QED
      BY <1>6, <1>7, <3>1, <3>2
  <2> QED
    BY <1>8, <2>1, <2>2
<1> QED
  BY <1>4, <1>9, <1>10, <1>11, <1>12 DEF WriterInv

LEMMA WriterKept == ~SlowWriter /\ WriterInv /\ [Next]_vars => WriterInv'
<1> SUFFICES ASSUME ~SlowWriter, WriterInv, [Next]_vars PROVE WriterInv'
  OBVIOUS
<1>1. CASE \E k \in Key, kind \in Kind, waits \in BOOLEAN : Submit(k, kind, waits)
  BY <1>1, SubmitKeeps
<1>2. CASE Start \/ Stop \/ StopQueue \/ StopJoin
  BY <1>2, ControlKeeps
<1>3. CASE \E t \in Thread : WriterStep(t)
  BY <1>3, QuietStepsKeep, TakeFirstKeeps, DrainKeeps, CommitKeeps, AnswerKeeps DEF WriterStep
<1>4. CASE UNCHANGED vars
  BY <1>4 DEF vars, callers, threads, control, WriterInv, TypeOK, ThreadInv, OrderInv, TableInv,
              AnswersTrue, Alive
<1> QED
  BY <1>1, <1>2, <1>3, <1>4 DEF Next

\* No step but a commit touches the table.
LEMMA RowsGoUp == WriterInv /\ [Next]_vars => \A k \in Key : table[k] <= table'[k]
<1> SUFFICES ASSUME WriterInv, [Next]_vars PROVE \A k \in Key : table[k] <= table'[k]
  OBVIOUS
<1>1. \A k \in Key : table[k] <= table[k]
  BY WriterAssumption DEF WriterInv, TypeOK
<1>2. CASE \E t \in Thread : Commit(t)
  BY <1>2, CommitKeeps
<1>3. CASE ~\E t \in Thread : Commit(t)
  <2>1. table' = table
    BY <1>3 DEF Next, vars, Submit, Start, Stop, StopQueue, StopJoin, WriterStep, Loop, TakeFirst,
                TakeNothing, Drain, Refuse, RolledBack, Raise, Answer
  <2> QED
    BY <1>1, <2>1
<1> QED
  BY <1>2, <1>3

-----------------------------------------------------------------------------
\* For any keys, batch size, number of writes, starts and stops (WalMemoryManager),
\* if stop() outwaits the writer: one thread writes at a time, who was told that a
\* write is flushed finds it or a later one, and who was told of an error does not
\* find it.
THEOREM WriterIsSound == ~SlowWriter /\ Spec => []WriterSound
<1>1. ~SlowWriter /\ Init /\ [][Next]_vars => []WriterInv
  <2>1. CASE SlowWriter
    BY <2>1
  <2>2. CASE ~SlowWriter
    <3>1. WriterInv /\ [Next]_vars => WriterInv'
      BY <2>2, WriterKept
    <3> QED
      BY <3>1, WriterInitially, PTL
  <2> QED
    BY <2>1, <2>2
<1>2. WriterInv => WriterSound
  <2> SUFFICES ASSUME WriterInv PROVE WriterSound
    OBVIOUS
  <2>1. OneWriter
    BY DEF WriterInv, ThreadInv, OneWriter
  <2> QED
    BY <2>1 DEF WriterInv, WriterSound
<1> QED
  BY <1>1, <1>2, PTL DEF Spec

\* Under the same condition no row goes back to an earlier write of its key.
THEOREM RowsStay == ~SlowWriter /\ Spec => RowsNeverGoBack
<1>1. CASE SlowWriter
  BY <1>1
<1>2. CASE ~SlowWriter
  <2>1. WriterInv /\ [Next]_vars => WriterInv'
    BY <1>2, WriterKept
  <2>2. WriterInv /\ [Next]_vars => [\A k \in Key : table'[k] >= table[k]]_vars
    <3>1. SUFFICES ASSUME WriterInv, [Next]_vars PROVE \A k \in Key : table'[k] >= table[k]
      OBVIOUS
    <3> QED
      BY <3>1, RowsGoUp
  <2> QED
    BY <2>1, <2>2, WriterInitially, PTL DEF Spec, RowsNeverGoBack
<1> QED
  BY <1>1, <1>2

=============================================================================
