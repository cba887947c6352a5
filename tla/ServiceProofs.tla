---------------------------- MODULE ServiceProofs ----------------------------
(* Theorems about the services that wait and race (MCServices): each for its  *)
(* own specification and for every value of its constants.                    *)
EXTENDS VoiceTurns, DualMemory, EventBus, MicroVM, ProofLemmas

-----------------------------------------------------------------------------
(* EventBus                                                                   *)

Increasing(s) == \A i, j \in 1..Len(s) : i < j => s[i] < s[j]

\* How many of the accepted events the dispatcher has got to: sent, or passed over.
Reached == Len(handled) + (IF dispatcher = "sending" THEN next_send - 1 ELSE 0)

\* The inductive invariant: the accepted events are those handled, in hand and
\* queued, and increase; those sent increase and have all been reached.
AcceptedInOrder ==
  /\ Increasing(accepted) /\ Len(accepted) <= emitted
  /\ \A i \in 1..Len(accepted) : accepted[i] <= emitted

SentReached ==
  /\ Increasing(sent)
  /\ \A k \in 1..Len(sent) : \E j \in 1..Reached : accepted[j] = sent[k]

DispatcherStands ==
  /\ dispatcher \in {"top", "dead"} => batch = <<>>
  /\ dispatcher = "sending" => next_send \in 1..Len(batch) + 1

BusInv ==
  /\ BusTypeOK
  /\ accepted = handled \o batch \o event_queue
  /\ AcceptedInOrder /\ SentReached /\ DispatcherStands
  /\ flusher.upTo <= Len(accepted) /\ FlushedTaken

\* Adding an element behind a concatenation, and moving one from its second part
\* to its first.
LEMMA TwoParts ==
  ASSUME NEW S, NEW s \in Seq(S), NEW q \in Seq(S)
  PROVE  /\ \A e \in S : Append(s \o q, e) = s \o Append(q, e)
         /\ q # <<>> => s \o q = Append(s, Head(q)) \o Tail(q)
<1>1. ASSUME NEW e \in S PROVE Append(s \o q, e) = s \o Append(q, e)
  <2>1. s \o q \in Seq(S)
    BY ConcatProperties
  <2>2. Append(s \o q, e) = (s \o q) \o <<e>> /\ Append(q, e) = q \o <<e>>
    BY <2>1, AppendIsConcat
  <2>3. <<e>> \in Seq(S)
    OBVIOUS
  <2> QED
    BY <2>2, <2>3, ConcatAssociative
<1>2. ASSUME q # <<>> PROVE s \o q = Append(s, Head(q)) \o Tail(q)
  <2>1. Head(q) \in S /\ Tail(q) \in Seq(S) /\ <<Head(q)>> \in Seq(S)
    BY <1>2, HeadTailProperties
  <2>2. q = <<Head(q)>> \o Tail(q)
    BY <1>2, <2>1
  <2>3. Append(s, Head(q)) = s \o <<Head(q)>>
    BY <2>1, AppendIsConcat
  <2> QED
    BY <2>1, <2>2, <2>3, ConcatAssociative
<1> QED
  BY <1>1, <1>2

\* The same for three parts of events, of which the second is read.
LEMMA ThreeParts ==
  \A h, b, q \in Seq(Ids) :
    /\ h \o b \o q \in Seq(Ids)
    /\ Len(h \o b \o q) = Len(h) + Len(b) + Len(q)
    /\ \A i \in 1..Len(h) : (h \o b \o q)[i] = h[i]
    /\ \A i \in 1..Len(b) : (h \o b \o q)[Len(h) + i] = b[i]
    /\ (\A e \in Ids : Append(h \o b \o q, e) = h \o b \o Append(q, e))
    /\ q # <<>> => h \o b \o q = h \o Append(b, Head(q)) \o Tail(q)
    /\ h \o b \o q = (h \o b) \o <<>> \o q
<1> TAKE h, b, q \in Seq(Ids)
<1>1. PICK hb \in Seq(Ids) : hb = h \o b
  BY ConcatProperties
<1>2. /\ Len(hb) = Len(h) + Len(b)
      /\ Len(h) \in Nat /\ Len(b) \in Nat /\ Len(q) \in Nat
      /\ \A i \in 1..Len(h) + Len(b) : hb[i] = IF i <= Len(h) THEN h[i] ELSE b[i - Len(h)]
  BY <1>1, ConcatProperties, LenProperties
<1>3. /\ hb \o q \in Seq(Ids) /\ Len(hb \o q) = Len(hb) + Len(q)
      /\ \A i \in 1..Len(hb) + Len(q) : (hb \o q)[i] = IF i <= Len(hb) THEN hb[i] ELSE q[i - Len(hb)]
  BY ConcatProperties
<1>4. /\ \A i \in 1..Len(h) : (hb \o q)[i] = h[i]
      /\ \A i \in 1..Len(b) : (hb \o q)[Len(h) + i] = b[i]
  BY <1>2, <1>3
<1>0. \A s, t \in Seq(Ids) :
        /\ \A e \in Ids : Append(s \o t, e) = s \o Append(t, e)
        /\ t # <<>> => s \o t = Append(s, Head(t)) \o Tail(t)
  BY TwoParts
<1>5. hb = hb \o <<>>
  BY ConcatEmptySeq
<1>6. q # <<>> => /\ Head(q) \in Ids
                  /\ Append(hb, Head(q)) = h \o Append(b, Head(q))
                  /\ hb \o q = Append(hb, Head(q)) \o Tail(q)
  <2> SUFFICES ASSUME q # <<>>
               PROVE  /\ Head(q) \in Ids
                      /\ Append(hb, Head(q)) = h \o Append(b, Head(q))
                      /\ hb \o q = Append(hb, Head(q)) \o Tail(q)
    OBVIOUS
  <2>1. Head(q) \in Ids
    BY HeadTailProperties
  <2>2. Append(hb, Head(q)) = h \o Append(b, Head(q))
    BY <1>0, <1>1, <2>1
  <2>3. hb \o q = Append(hb, Head(q)) \o Tail(q)
    BY <1>0
  <2> QED
    BY <2>1, <2>2, <2>3
<1>7. \A e \in Ids : Append(hb \o q, e) = hb \o Append(q, e)
  BY <1>0
<1> QED
  BY <1>1, <1>2, <1>3, <1>4, <1>5, <1>6, <1>7

LEMMA EventQueued ==
  \A h, b, q \in Seq(Ids), e \in Ids : Append(h \o b \o q, e) = h \o b \o Append(q, e)
BY ThreeParts

LEMMA EventTaken ==
  \A h, b, q \in Seq(Ids) :
    q # <<>> => h \o b \o q = h \o Append(b, Head(q)) \o Tail(q)
BY ThreeParts

LEMMA BatchFinished ==
  \A h, b, q \in Seq(Ids) : h \o b \o q = (h \o b) \o <<>> \o q
BY ThreeParts

LEMMA BusInitially == BusInit => BusInv
<1> SUFFICES ASSUME BusInit PROVE BusInv
  OBVIOUS
<1>1. BusTypeOK
  <2>1. <<>> \in Seq(Ids) /\ Len(<<>>) = 0
    BY EmptySeq
  <2>2. 0 \in 0..MaxEvents /\ 0 \in 0..MaxStops /\ 0 \in 0..BatchSize + 1
        /\ 0 <= QueueSize /\ 0 <= BatchSize
    BY BusAssumption
  <2> QED
    BY <2>1, <2>2 DEF BusInit, BusTypeOK
<1>2. <<>> \o <<>> \o <<>> = <<>>
  OBVIOUS
<1> QED
  BY <1>1, <1>2 DEF BusInit, BusInv, AcceptedInOrder, SentReached, DispatcherStands, Increasing,
                    Reached, FlushedTaken

\* What the proofs of the steps take from the invariant.
BusShape ==
  /\ event_queue \in Seq(Ids) /\ batch \in Seq(Ids) /\ handled \in Seq(Ids)
  /\ accepted \in Seq(Ids) /\ sent \in Seq(Ids)
  /\ Len(event_queue) \in Nat /\ Len(batch) \in Nat /\ Len(handled) \in Nat
  /\ Len(sent) \in Nat
  /\ Len(accepted) = Len(handled) + Len(batch) + Len(event_queue)
  /\ \A i \in 1..Len(handled) : accepted[i] = handled[i]
  /\ \A i \in 1..Len(batch) : accepted[Len(handled) + i] = batch[i]
  /\ \A i \in 1..Len(accepted) : accepted[i] \in Nat
  /\ emitted \in 0..MaxEvents /\ flusher.upTo \in 0..MaxEvents
  /\ Reached \in Nat /\ Reached <= Len(handled) + Len(batch)
  /\ MaxEvents \in Nat /\ QueueSize \in Nat \ {0} /\ BatchSize \in Nat \ {0}

LEMMA BusShaped == BusInv => BusShape
<1> SUFFICES ASSUME BusInv PROVE BusShape
  OBVIOUS
<1>1. /\ event_queue \in Seq(Ids) /\ batch \in Seq(Ids) /\ handled \in Seq(Ids)
      /\ accepted \in Seq(Ids) /\ sent \in Seq(Ids)
      /\ emitted \in 0..MaxEvents /\ flusher.upTo \in 0..MaxEvents
  BY DEF BusInv, BusTypeOK
<1>2. /\ Len(event_queue) \in Nat /\ Len(batch) \in Nat /\ Len(handled) \in Nat
      /\ Len(sent) \in Nat
  BY <1>1, LenProperties
<1>3. accepted = handled \o batch \o event_queue
  BY DEF BusInv
<1>4. /\ Len(accepted) = Len(handled) + Len(batch) + Len(event_queue)
      /\ \A i \in 1..Len(handled) : accepted[i] = handled[i]
      /\ \A i \in 1..Len(handled) : accepted[i] = handled[i]
  /\ \A i \in 1..Len(batch) : accepted[Len(handled) + i] = batch[i]
  BY <1>1, <1>3, ThreeParts
<1>5. Reached \in Nat /\ Reached <= Len(handled) + Len(batch)
  BY <1>2 DEF BusInv, Reached, DispatcherStands
<1>6. \A i \in 1..Len(accepted) : accepted[i] \in Nat
  <2>1. \A i \in 1..Len(accepted) : accepted[i] \in Ids
    BY <1>1, ElementOfSeq
  <2> QED
    BY <2>1 DEF Ids
<1> QED
  BY <1>1, <1>2, <1>4, <1>5, <1>6, BusAssumption DEF BusShape

LEMMA PublishKeeps ==
  ASSUME BusInv, publish_footprint_nowait, latest' \in {latest, emitted + 1}
  PROVE  BusInv'
<1>1. BusTypeOK /\ BusShape
  BY BusShaped DEF BusInv
<1>2. emitted' = emitted + 1 /\ emitted \in Nat /\ emitted + 1 \in Ids /\ emitted' \in 0..MaxEvents
  BY <1>1 DEF publish_footprint_nowait, Ids, BusShape
<1>3. latest' \in 0..MaxEvents
  BY <1>1, <1>2 DEF BusTypeOK, Ids
<1>4. UNCHANGED <<dispatcher, batch, next_send, handled, sent, producer, stop_event, stopper,
                  stops, flusher>>
  BY DEF publish_footprint_nowait
<1>5. Reached' = Reached /\ DispatcherStands' /\ FlushedTaken'
  BY <1>4 DEF Reached, DispatcherStands, FlushedTaken, BusInv
<1>6. CASE Len(event_queue) < QueueSize
  <2>1. /\ event_queue' = Append(event_queue, emitted + 1)
        /\ accepted' = Append(accepted, emitted + 1)
    BY <1>6 DEF publish_footprint_nowait
  <2>2. /\ event_queue' \in Seq(Ids) /\ Len(event_queue') = Len(event_queue) + 1
        /\ accepted' \in Seq(Ids) /\ Len(accepted') = Len(accepted) + 1
        /\ \A i \in 1..Len(accepted) : accepted'[i] = accepted[i]
        /\ accepted'[Len(accepted) + 1] = emitted + 1
    <3>1. event_queue \in Seq(Ids) /\ accepted \in Seq(Ids)
      BY <1>1 DEF BusShape
    <3> QED
      BY <1>2, <2>1, <3>1, AppendProperties
  <2>3. Len(event_queue') <= QueueSize
    BY <1>1, <1>6, <2>2 DEF BusShape
  <2>4. BusTypeOK'
    BY <1>1, <1>2, <1>3, <1>4, <2>2, <2>3 DEF BusTypeOK
  <2>5. accepted' = handled' \o batch' \o event_queue'
    <3>1. \A e \in Ids : Append(handled \o batch \o event_queue, e)
                          = handled \o batch \o Append(event_queue, e)
      <4>1. handled \in Seq(Ids) /\ batch \in Seq(Ids) /\ event_queue \in Seq(Ids)
        BY <1>1 DEF BusShape
      <4> QED
        BY <4>1, EventQueued
    <3>2. accepted = handled \o batch \o event_queue
      BY DEF BusInv
    <3> QED
      BY <1>2, <1>4, <2>1, <3>1, <3>2
  <2>6. AcceptedInOrder'
    <3>1. /\ \A i \in 1..Len(accepted) : accepted[i] \in Nat /\ accepted[i] <= emitted
          /\ Len(accepted) \in Nat /\ Len(accepted) <= emitted
          /\ Increasing(accepted)
      <4>1. (\A i \in 1..Len(accepted) : accepted[i] \in Nat) /\ Len(accepted) \in Nat
        BY <1>1 DEF BusShape
      <4>2. AcceptedInOrder
        BY DEF BusInv
      <4> QED
        BY <4>1, <4>2 DEF AcceptedInOrder
    <3>2. \A i \in 1..Len(accepted') : accepted'[i] <= emitted'
      BY <1>2, <2>2, <3>1
    <3>3. ASSUME NEW i \in 1..Len(accepted'), NEW j \in 1..Len(accepted'), i < j
          PROVE  accepted'[i] < accepted'[j]
      <4>1. i \in 1..Len(accepted) /\ accepted'[i] = accepted[i]
        BY <2>2, <3>1, <3>3
      <4>2. CASE j \in 1..Len(accepted)
        BY <2>2, <3>1, <3>3, <4>1, <4>2 DEF Increasing
      <4>3. CASE j = Len(accepted) + 1
        BY <1>2, <2>2, <3>1, <4>1, <4>3
      <4> QED
        BY <2>2, <3>1, <4>2, <4>3
    <3> QED
      BY <1>2, <2>2, <3>1, <3>2, <3>3 DEF AcceptedInOrder, Increasing
  <2>7. SentReached'
    <3>1. \A j \in 1..Reached : accepted'[j] = accepted[j]
      BY <1>1, <2>2 DEF BusShape
    <3> QED
      BY <1>4, <1>5, <3>1 DEF BusInv, SentReached, Increasing
  <2>8. flusher'.upTo <= Len(accepted')
    BY <1>1, <1>4, <2>2 DEF BusInv, BusShape
  <2> QED
    BY <1>5, <2>4, <2>5, <2>6, <2>7, <2>8 DEF BusInv
<1>7. CASE ~(Len(event_queue) < QueueSize)
  <2>1. UNCHANGED <<event_queue, accepted>>
    BY <1>7 DEF publish_footprint_nowait
  <2>2. BusTypeOK'
    BY <1>1, <1>2, <1>3, <1>4, <2>1 DEF BusTypeOK
  <2>3. AcceptedInOrder'
    <3>1. /\ \A i \in 1..Len(accepted) : accepted[i] \in Nat /\ accepted[i] <= emitted
          /\ Len(accepted) \in Nat /\ Len(accepted) <= emitted
          /\ Increasing(accepted)
      <4>1. (\A i \in 1..Len(accepted) : accepted[i] \in Nat) /\ Len(accepted) \in Nat
        BY <1>1 DEF BusShape
      <4>2. AcceptedInOrder
        BY DEF BusInv
      <4> QED
        BY <4>1, <4>2 DEF AcceptedInOrder
    <3> QED
      BY <1>2, <2>1, <3>1 DEF AcceptedInOrder, Increasing
  <2>4. SentReached'
    BY <1>4, <1>5, <2>1 DEF BusInv, SentReached, Increasing
  <2> QED
    BY <1>4, <1>5, <2>1, <2>2, <2>3, <2>4 DEF BusInv
<1> QED
  BY <1>6, <1>7

\* A step that accepts and sends nothing keeps the invariant if it passes events on
\* in order and takes none back.
LEMMA NothingNewKeeps ==
  ASSUME BusInv, BusTypeOK', UNCHANGED <<emitted, accepted, sent, flusher>>,
         accepted = handled' \o batch' \o event_queue', DispatcherStands',
         Reached <= Reached', Reached' \in Nat,
         Len(handled) + Len(batch) <= Len(handled') + Len(batch'),
         Len(handled') + Len(batch') \in Nat
  PROVE  BusInv'
<1>1. BusShape
  BY BusShaped
<1>2. AcceptedInOrder'
  BY DEF BusInv, AcceptedInOrder, Increasing
<1>3. SentReached'
  <2>1. 1..Reached \subseteq 1..Reached'
    BY <1>1 DEF BusShape
  <2> QED
    BY <2>1 DEF BusInv, SentReached, Increasing
<1>4. FlushedTaken'
  BY <1>1 DEF BusInv, FlushedTaken, BusShape
<1> QED
  BY <1>2, <1>3, <1>4 DEF BusInv

LEMMA TakeFirstKeeps ==
  ASSUME BusInv, TakeFirst
  PROVE  BusInv'
<1>1. BusTypeOK /\ BusShape /\ batch = <<>>
  BY BusShaped DEF BusInv, DispatcherStands, TakeFirst
<1>2. UNCHANGED <<emitted, accepted, latest, producer, stop_event, stopper, stops, flusher,
                  next_send, handled, sent>>
  BY DEF TakeFirst, DispatcherKeeps
<1>3. CASE dispatcher' = "dead" /\ UNCHANGED <<event_queue, batch>>
  <2>1. BusTypeOK'
    BY <1>1, <1>2, <1>3 DEF BusTypeOK
  <2>2. DispatcherStands' /\ Reached' = Reached
    BY <1>1, <1>2, <1>3 DEF DispatcherStands, Reached, TakeFirst
  <2>3. accepted = handled' \o batch' \o event_queue'
    BY <1>2, <1>3 DEF BusInv
  <2> QED
    BY <1>1, <1>2, <1>3, <2>1, <2>2, <2>3, NothingNewKeeps DEF BusShape
<1>4. CASE /\ event_queue # <<>> /\ batch' = <<Head(event_queue)>>
           /\ event_queue' = Tail(event_queue) /\ dispatcher' = "taking"
  <2>1. event_queue \in Seq(Ids) /\ batch \in Seq(Ids) /\ handled \in Seq(Ids)
    BY <1>1 DEF BusShape
  <2>2. Head(event_queue) \in Ids
    BY <1>4, <2>1, HeadTailProperties
  <2>3. event_queue' \in Seq(Ids) /\ Len(event_queue') = Len(event_queue) - 1
    BY <1>4, <2>1, HeadTailProperties
  <2>4. batch' = Append(batch, Head(event_queue))
    BY <1>1, <1>4
  <2>5. batch' \in Seq(Ids) /\ Len(batch') = 1
    BY <1>4, <2>2
  <2>6. Len(event_queue') <= QueueSize /\ Len(batch') <= BatchSize
    BY <1>1, <2>3, <2>5 DEF BusShape, BusTypeOK
  <2>7. BusTypeOK'
    BY <1>1, <1>2, <1>4, <2>3, <2>5, <2>6 DEF BusTypeOK
  <2>8. accepted = handled' \o batch' \o event_queue'
    <3>1. accepted = handled \o batch \o event_queue
      BY DEF BusInv
    <3>2. handled \o batch \o event_queue
            = handled \o Append(batch, Head(event_queue)) \o Tail(event_queue)
      BY <1>4, <2>1, EventTaken
    <3> QED
      BY <1>2, <1>4, <2>4, <3>1, <3>2
  <2>9. DispatcherStands' /\ Reached' = Reached
    BY <1>2, <1>4 DEF DispatcherStands, Reached, TakeFirst
  <2>10. Len(batch) = 0
    BY <1>1
  <2> QED
    BY <1>1, <1>2, <2>5, <2>7, <2>8, <2>9, <2>10, NothingNewKeeps DEF BusShape
<1> QED
  BY <1>3, <1>4 DEF TakeFirst

LEMMA TakeMoreKeeps ==
  ASSUME BusInv, TakeMore
  PROVE  BusInv'
<1>1. BusTypeOK /\ BusShape
  BY BusShaped DEF BusInv
<1>2. UNCHANGED <<emitted, accepted, latest, producer, stop_event, stopper, stops, flusher,
                  handled, sent>>
  BY DEF TakeMore, DispatcherKeeps
<1>3. CASE event_queue # <<>> /\ Len(batch) < BatchSize
  <2>1. event_queue \in Seq(Ids) /\ batch \in Seq(Ids) /\ handled \in Seq(Ids)
    BY <1>1 DEF BusShape
  <2>2. /\ batch' = Append(batch, Head(event_queue)) /\ event_queue' = Tail(event_queue)
        /\ UNCHANGED <<dispatcher, next_send>>
    BY <1>3 DEF TakeMore
  <2>3. /\ Head(event_queue) \in Ids
        /\ event_queue' \in Seq(Ids) /\ Len(event_queue') = Len(event_queue) - 1
    BY <1>3, <2>1, <2>2, HeadTailProperties
  <2>4. batch' \in Seq(Ids) /\ Len(batch') = Len(batch) + 1
    BY <2>1, <2>2, <2>3, AppendProperties
  <2>5. Len(event_queue') <= QueueSize /\ Len(batch') <= BatchSize
    <3>1. Len(event_queue) <= QueueSize
      BY <1>1 DEF BusTypeOK
    <3> QED
      BY <1>1, <1>3, <2>3, <2>4, <3>1 DEF BusShape
  <2>6. BusTypeOK'
    BY <1>1, <1>2, <2>2, <2>3, <2>4, <2>5 DEF BusTypeOK
  <2>7. accepted = handled' \o batch' \o event_queue'
    BY <1>2, <1>3, <2>1, <2>2, EventTaken DEF BusInv
  <2>8. DispatcherStands' /\ Reached' = Reached
    BY <1>2, <2>2 DEF DispatcherStands, Reached, TakeMore
  <2> QED
    BY <1>1, <1>2, <2>4, <2>6, <2>7, <2>8, NothingNewKeeps DEF BusShape
<1>4. CASE ~(event_queue # <<>> /\ Len(batch) < BatchSize)
  <2>1. /\ dispatcher' = "sending" /\ next_send' \in {1, Len(batch) + 1}
        /\ UNCHANGED <<event_queue, batch>>
    BY <1>4 DEF TakeMore
  <2>2. next_send' \in 0..BatchSize + 1 /\ next_send' \in 1..Len(batch') + 1
    BY <1>1, <2>1 DEF BusShape, BusTypeOK
  <2>3. BusTypeOK'
    BY <1>1, <1>2, <2>1, <2>2 DEF BusTypeOK
  <2>4. accepted = handled' \o batch' \o event_queue'
    BY <1>2, <2>1 DEF BusInv
  <2>5. DispatcherStands'
    BY <2>1, <2>2 DEF DispatcherStands
  <2>6. Reached = Len(handled) /\ Reached' = Len(handled) + next_send' - 1
    BY <1>1, <1>2, <2>1, <2>2 DEF Reached, TakeMore, BusShape
  <2>7. Reached <= Reached' /\ Reached' \in Nat
    BY <1>1, <2>2, <2>6 DEF BusShape
  <2> QED
    BY <1>1, <1>2, <2>1, <2>3, <2>4, <2>5, <2>7, NothingNewKeeps DEF BusShape
<1> QED
  BY <1>3, <1>4

LEMMA SendEventKeeps ==
  ASSUME BusInv, SendEvent
  PROVE  BusInv'
<1>1. BusTypeOK /\ BusShape
  BY BusShaped DEF BusInv
<1>2. /\ UNCHANGED <<emitted, accepted, latest, producer, stop_event, stopper, stops, flusher,
                     event_queue, dispatcher, batch, handled>>
      /\ dispatcher = "sending" /\ next_send \in Nat /\ next_send >= 1
      /\ next_send <= Len(batch) /\ Len(batch) <= BatchSize
  BY <1>1 DEF SendEvent, DispatcherKeeps, BusInv, DispatcherStands, BusShape, BusTypeOK
<1>3. next_send' \in {next_send + 1, Len(batch) + 1}
  BY DEF SendEvent
<1>4. next_send' \in 0..BatchSize + 1 /\ next_send' \in 1..Len(batch) + 1 /\ next_send' > next_send
  BY <1>1, <1>2, <1>3 DEF BusShape
<1>5. /\ Reached = Len(handled) + next_send - 1 /\ Reached' = Len(handled) + next_send' - 1
      /\ Reached' \in Nat /\ Reached + 1 <= Reached'
  <2>1. dispatcher' = "sending" /\ handled' = handled
    BY <1>2
  <2>2. Reached = Len(handled) + (next_send - 1) /\ Reached' = Len(handled) + (next_send' - 1)
    BY <1>2, <2>1 DEF Reached
  <2>3. /\ next_send \in Nat /\ next_send >= 1 /\ next_send' \in Nat /\ next_send' > next_send
        /\ Len(handled) \in Nat
    BY <1>1, <1>2, <1>4 DEF BusShape
  <2> QED
    BY <2>2, <2>3
<1>6. DispatcherStands'
  BY <1>2, <1>4 DEF DispatcherStands
<1>7. CASE UNCHANGED sent
  <2>1. BusTypeOK'
    BY <1>1, <1>2, <1>4, <1>7 DEF BusTypeOK
  <2>2. accepted = handled' \o batch' \o event_queue'
    BY <1>2 DEF BusInv
  <2>3. Reached <= Reached'
    BY <1>1, <1>5 DEF BusShape
  <2> QED
    BY <1>1, <1>2, <1>5, <1>6, <1>7, <2>1, <2>2, <2>3, NothingNewKeeps DEF BusShape
<1>8. CASE sent' = Append(sent, batch[next_send])
  <2>1. batch[next_send] \in Ids
    BY <1>1, <1>2, ElementOfSeq DEF BusShape
  <2>2. /\ sent' \in Seq(Ids) /\ Len(sent') = Len(sent) + 1
        /\ \A k \in 1..Len(sent) : sent'[k] = sent[k]
        /\ sent'[Len(sent) + 1] = batch[next_send]
    BY <1>1, <1>8, <2>1, AppendProperties DEF BusShape
  <2>3. accepted[Reached + 1] = batch[next_send]
    <3>1. next_send \in 1..Len(batch) /\ Len(handled) \in Nat
      BY <1>1, <1>2 DEF BusShape
    <3>2. Reached + 1 = Len(handled) + next_send
      BY <1>2, <1>5, <3>1
    <3>3. accepted[Len(handled) + next_send] = batch[next_send]
      BY <1>1, <3>1 DEF BusShape
    <3> QED
      BY <3>2, <3>3
  <2>4. /\ Reached + 1 \in 1..Reached' /\ Reached + 1 \in 1..Len(accepted)
        /\ \A j \in 1..Reached : j \in 1..Len(accepted) /\ j \in 1..Reached' /\ j < Reached + 1
    BY <1>1, <1>2, <1>5 DEF BusShape
  <2>5. \A k \in 1..Len(sent) : \E j \in 1..Reached : accepted[j] = sent[k]
    BY DEF BusInv, SentReached
  <2>6. \A k \in 1..Len(sent) : sent[k] < batch[next_send]
    BY <2>3, <2>4, <2>5 DEF BusInv, AcceptedInOrder, Increasing
  <2>7. Increasing(sent')
    <3>1. ASSUME NEW i \in 1..Len(sent'), NEW j \in 1..Len(sent'), i < j
          PROVE  sent'[i] < sent'[j]
      <4>1. Len(sent) \in Nat
        BY <1>1 DEF BusShape
      <4>2. i \in 1..Len(sent) /\ sent'[i] = sent[i]
        BY <2>2, <3>1, <4>1
      <4>3. CASE j \in 1..Len(sent)
        BY <2>2, <3>1, <4>2, <4>3 DEF BusInv, SentReached, Increasing
      <4>4. CASE j = Len(sent) + 1
        BY <2>2, <2>6, <4>2, <4>4
      <4> QED
        BY <2>2, <3>1, <4>1, <4>3, <4>4
    <3> QED
      BY <3>1 DEF Increasing
  <2>8. \A k \in 1..Len(sent') : \E j \in 1..Reached' : accepted'[j] = sent'[k]
    <3>1. ASSUME NEW k \in 1..Len(sent') PROVE \E j \in 1..Reached' : accepted[j] = sent'[k]
      <4>1. CASE k \in 1..Len(sent)
        BY <2>2, <2>4, <2>5, <4>1
      <4>2. CASE k = Len(sent) + 1
        BY <2>2, <2>3, <2>4, <4>2
      <4> QED
        BY <1>1, <2>2, <4>1, <4>2 DEF BusShape
    <3> QED
      BY <1>2, <3>1
  <2>9. BusTypeOK'
    BY <1>1, <1>2, <1>4, <2>2 DEF BusTypeOK
  <2>10. /\ AcceptedInOrder' /\ FlushedTaken' /\ accepted' = handled' \o batch' \o event_queue'
         /\ flusher'.upTo <= Len(accepted')
    BY <1>2 DEF BusInv, AcceptedInOrder, Increasing, FlushedTaken
  <2> QED
    BY <1>6, <2>7, <2>8, <2>9, <2>10 DEF BusInv, SentReached
<1> QED
  BY <1>7, <1>8 DEF SendEvent

LEMMA FinishBatchKeeps ==
  ASSUME BusInv, FinishBatch
  PROVE  BusInv'
<1>1. BusTypeOK /\ BusShape
  BY BusShaped DEF BusInv
<1>2. UNCHANGED <<emitted, accepted, latest, producer, stop_event, stopper, stops, flusher,
                  event_queue, sent>>
  BY DEF FinishBatch, DispatcherKeeps
<1>3. /\ handled' = handled \o batch /\ batch' = <<>> /\ next_send' = 0 /\ dispatcher' = "top"
      /\ dispatcher = "sending" /\ next_send = Len(batch) + 1
  BY DEF FinishBatch
<1>4. event_queue \in Seq(Ids) /\ batch \in Seq(Ids) /\ handled \in Seq(Ids)
  BY <1>1 DEF BusShape
<1>5. handled' \in Seq(Ids) /\ Len(handled') = Len(handled) + Len(batch)
  BY <1>3, <1>4, ConcatProperties
<1>6. batch' \in Seq(Ids) /\ Len(batch') = 0 /\ 0 <= BatchSize /\ 0 \in 0..BatchSize + 1
  BY <1>1, <1>3 DEF BusShape
<1>7. BusTypeOK'
  BY <1>1, <1>2, <1>3, <1>5, <1>6 DEF BusTypeOK
<1>8. accepted = handled' \o batch' \o event_queue'
  <2>1. accepted = handled \o batch \o event_queue
    BY DEF BusInv
  <2>2. handled \o batch \o event_queue = (handled \o batch) \o <<>> \o event_queue
    BY <1>4, BatchFinished
  <2> QED
    BY <1>2, <1>3, <2>1, <2>2
<1>9. DispatcherStands' /\ Reached = Len(handled) + Len(batch) /\ Reached' = Len(handled')
  BY <1>1, <1>3, <1>5 DEF DispatcherStands, Reached, BusShape
<1> QED
  BY <1>1, <1>2, <1>5, <1>6, <1>7, <1>8, <1>9, NothingNewKeeps DEF BusShape

\* start(), stop() and flush() leave the events alone.
LEMMA ControlKeeps ==
  ASSUME BusInv, BusStart \/ StopCall \/ StopCloses \/ FlushCall \/ FlushReturns
  PROVE  BusInv'
<1>1. BusTypeOK /\ BusShape
  BY BusShaped DEF BusInv
<1>2. UNCHANGED <<event_queue, emitted, accepted, latest, batch, next_send, handled, sent>>
  BY DEF BusStart, StopCall, StopCloses, FlushCall, FlushReturns
<1>3. dispatcher' = dispatcher \/ (dispatcher = "dead" /\ dispatcher' = "top")
  BY DEF BusStart, StopCall, StopCloses, FlushCall, FlushReturns
<1>4. Reached' = Reached /\ DispatcherStands' /\ AcceptedInOrder'
  BY <1>2, <1>3 DEF Reached, DispatcherStands, AcceptedInOrder, Increasing, BusInv
<1>5. SentReached' /\ accepted' = handled' \o batch' \o event_queue'
  BY <1>2, <1>4 DEF BusInv, SentReached, Increasing
<1>6. Len(accepted) \in 0..MaxEvents
  BY <1>1 DEF BusInv, BusShape, AcceptedInOrder
<1>7. BusTypeOK' /\ flusher'.upTo <= Len(accepted') /\ FlushedTaken'
  <2>1. CASE BusStart
    BY <1>1, <1>2, <2>1 DEF BusStart, BusTypeOK, BusInv, FlushedTaken
  <2>2. CASE StopCall
    BY <1>1, <1>2, <2>2, BusAssumption DEF StopCall, BusTypeOK, BusInv, FlushedTaken
  <2>3. CASE StopCloses
    BY <1>1, <1>2, <2>3 DEF StopCloses, BusTypeOK, BusInv, FlushedTaken
  <2>4. CASE FlushCall
    BY <1>1, <1>2, <1>6, <2>4 DEF FlushCall, BusTypeOK, BusShape, FlushedTaken
  <2>5. CASE FlushReturns
    <3>1. Len(event_queue) = 0 /\ Len(accepted) = Len(handled) + Len(batch)
      BY <1>1, <2>5 DEF FlushReturns, BusShape
    <3> QED
      BY <1>1, <1>2, <2>5, <3>1 DEF FlushReturns, BusTypeOK, BusInv, FlushedTaken
  <2> QED
    BY <2>1, <2>2, <2>3, <2>4, <2>5
<1> QED
  BY <1>4, <1>5, <1>7 DEF BusInv

LEMMA BusKept == BusInv /\ [BusNext]_busVars => BusInv'
<1> SUFFICES ASSUME BusInv, [BusNext]_busVars PROVE BusInv'
  OBVIOUS
<1>1. CASE EmitLog \/ EmitMetrics
  BY <1>1, PublishKeeps DEF EmitLog, EmitMetrics
<1>2. CASE Dispatch
  BY <1>2, TakeFirstKeeps, TakeMoreKeeps, SendEventKeeps, FinishBatchKeeps DEF Dispatch
<1>3. CASE BusStart \/ StopCall \/ StopCloses \/ FlushCall \/ FlushReturns
  BY <1>3, ControlKeeps
<1>4. CASE UNCHANGED busVars
  BY <1>4 DEF busVars, BusInv, BusTypeOK, AcceptedInOrder, SentReached, DispatcherStands,
              FlushedTaken, Increasing, Reached
<1> QED
  BY <1>1, <1>2, <1>3, <1>4 DEF BusNext

\* What the invariant says of the events.
LEMMA BusAccounts == BusInv => EventsAccounted
<1> SUFFICES ASSUME BusInv PROVE EventsAccounted
  OBVIOUS
<1>1. BusShape
  BY BusShaped
<1>2. \A k \in 1..Len(sent) : sent[k] \in ToSet(handled) \cup ToSet(batch)
  <2> SUFFICES ASSUME NEW k \in 1..Len(sent) PROVE sent[k] \in ToSet(handled) \cup ToSet(batch)
    OBVIOUS
  <2>1. PICK j \in 1..Reached : accepted[j] = sent[k]
    BY DEF BusInv, SentReached
  <2>2. /\ Len(handled) \in Nat /\ Len(batch) \in Nat
        /\ Reached \in Nat /\ Reached <= Len(handled) + Len(batch)
    BY <1>1 DEF BusShape
  <2>3. CASE j \in 1..Len(handled)
    <3>1. sent[k] = handled[j]
      BY <1>1, <2>1, <2>3 DEF BusShape
    <3>2. handled \in Seq(Ids)
      BY <1>1 DEF BusShape
    <3> QED
      BY <2>3, <3>1, <3>2, LenProperties DEF ToSet
  <2>4. CASE j > Len(handled)
    <3>1. PICK i \in 1..Len(batch) : j = Len(handled) + i
      <4>1. j - Len(handled) \in 1..Len(batch) /\ j = Len(handled) + (j - Len(handled))
        BY <2>2, <2>4
      <4> QED
        BY <4>1
    <3>2. sent[k] = batch[i]
      BY <1>1, <2>1, <3>1 DEF BusShape
    <3>3. batch \in Seq(Ids)
      BY <1>1 DEF BusShape
    <3> QED
      BY <3>2, <3>3, LenProperties DEF ToSet
  <2> QED
    BY <2>2, <2>3, <2>4
<1>3. ToSet(sent) \subseteq ToSet(handled) \cup ToSet(batch)
  <2>1. sent \in Seq(Ids)
    BY <1>1 DEF BusShape
  <2>2. ToSet(sent) = {sent[k] : k \in 1..Len(sent)}
    BY <2>1, LenProperties DEF ToSet
  <2> QED
    BY <1>2, <2>2
<1> QED
  BY <1>3 DEF BusInv, SentReached, Increasing, EventsAccounted, NothingLost

\* For queues and batches of any size and any number of events, stops and flushes
\* (SecureKernelTelemetryBus): what was accepted is counted as published, in hand
\* or queued, once and in order; Kafka got of it an increasing part; and flush()
\* returns when everything before it has been taken.
THEOREM EventsAreAccounted == BusSpec => []EventsAccounted
<1>1. BusInit /\ [][BusNext]_busVars => []BusInv
  BY BusInitially, BusKept, PTL
<1> QED
  BY <1>1, BusAccounts, PTL DEF BusSpec

-----------------------------------------------------------------------------
(* MicroVM                                                                    *)

\* The inductive invariant of one call: while the caller waits, the process started
\* last is the only one that runs, in a try that knows how to end it.
CallInv(c) ==
  LET r == vm[c] IN
  /\ r.phase \in {"new", "compiled"} => r.started = 0 /\ r.running = {}
  /\ r.phase \in {"sandboxed", "fallback", "host"} => c \notin UnikernelCall
  /\ r.phase \in {"compiled", "unikernel"} => c \in UnikernelCall
  /\ r.phase \in VmWaiting => r.started \in 1..2 /\ r.running = {r.started}
  /\ r.phase = "sandboxed" => r.started = 1
  /\ r.phase = "answered" /\ c \notin UnikernelCall => r.running = {}
  /\ r.phase \in VmEnded /\ r.started > 0 => ~r.files

VmInv == VmTypeOK /\ \A c \in VmCall : CallInv(c)

VmRecord == [phase: {"new", "compiled"} \cup VmWaiting \cup VmEnded,
             started: 0..2, running: SUBSET (1..2), files: BOOLEAN,
             code: {"none", "zero", "other"}]

\* A step that gives one call a new record, of its type and with its invariant,
\* keeps that of all.
LEMMA CallBecomes ==
  ASSUME VmInv, NEW c \in VmCall, NEW r \in VmRecord, Becomes(c, r),
         r.phase \in {"new", "compiled"} => r.started = 0 /\ r.running = {},
         r.phase \in {"sandboxed", "fallback", "host"} => c \notin UnikernelCall,
         r.phase \in {"compiled", "unikernel"} => c \in UnikernelCall,
         r.phase \in VmWaiting => r.started \in 1..2 /\ r.running = {r.started},
         r.phase = "sandboxed" => r.started = 1,
         r.phase = "answered" /\ c \notin UnikernelCall => r.running = {},
         r.phase \in VmEnded /\ r.started > 0 => ~r.files
  PROVE  VmInv'
<1>1. /\ vm' \in [VmCall -> VmRecord] /\ vm'[c] = r /\ installed' = installed
      /\ \A d \in VmCall : d # c => vm'[d] = vm[d]
  BY DEF VmInv, VmTypeOK, Becomes, VmKeeps, VmRecord
<1>2. VmTypeOK'
  BY <1>1 DEF VmInv, VmTypeOK, VmRecord
<1>3. ASSUME NEW d \in VmCall PROVE CallInv(d)'
  <2>1. CASE d = c
    BY <1>1, <2>1 DEF CallInv
  <2>2. CASE d # c
    BY <1>1, <2>2 DEF CallInv, VmInv
  <2> QED
    BY <2>1, <2>2
<1> QED
  BY <1>2, <1>3 DEF VmInv

\* The fields of the records that the steps make.
LEMMA BlockLeft ==
  ASSUME NEW r \in VmRecord, NEW phase \in VmEnded, NEW code \in {"none", "zero", "other"}
  PROVE  LET n == LeavesBlock(r, phase, code) IN
         /\ n \in VmRecord /\ n.phase = phase /\ n.started = r.started /\ n.running = r.running
         /\ ~n.files
BY DEF VmRecord, LeavesBlock

LEMMA ProcessStarted ==
  ASSUME NEW r \in VmRecord, r.started \in 0..1, NEW phase \in VmWaiting
  PROVE  LET n == WithProcess(r, phase) IN
         /\ n \in VmRecord /\ n.phase = phase /\ n.started = r.started + 1
         /\ n.running = r.running \cup {r.started + 1}
<1>1. r.started + 1 \in 0..2 /\ r.running \cup {r.started + 1} \in SUBSET (1..2)
  BY DEF VmRecord
<1> QED
  BY <1>1 DEF VmRecord, WithProcess

LEMMA FilesWritten ==
  ASSUME NEW r \in VmRecord, NEW phase \in {"compiled", "raised"}
  PROVE  LET n == [r EXCEPT !.phase = phase, !.files = TRUE] IN
         n \in VmRecord /\ n.phase = phase /\ n.started = r.started /\ n.running = r.running
BY DEF VmRecord, VmEnded

LEMMA ProcessGone ==
  ASSUME NEW r \in VmRecord, NEW p
  PROVE  LET n == [r EXCEPT !.running = @ \ {p}] IN
         /\ n \in VmRecord /\ n.phase = r.phase /\ n.started = r.started /\ n.files = r.files
         /\ n.running = r.running \ {p}
<1>1. r.running \ {p} \in SUBSET (1..2)
  BY DEF VmRecord
<1> QED
  BY <1>1 DEF VmRecord

LEMMA LaunchKeeps ==
  ASSUME VmInv, NEW c \in VmCall, Launch(c)
  PROVE  VmInv'
<1>1. vm[c] \in VmRecord /\ vm[c].started = 0 /\ vm[c].running = {} /\ c \notin UnikernelCall
  BY DEF VmInv, VmTypeOK, CallInv, Launch, VmRecord
<1> DEFINE r == [vm[c] EXCEPT !.files = TRUE]
<1>2. r \in VmRecord /\ r.started = 0 /\ r.running = {}
  BY <1>1 DEF VmRecord
<1>3. \/ \E phase \in {"sandboxed", "host"} : Becomes(c, WithProcess(r, phase))
      \/ Becomes(c, LeavesBlock(r, "answered", "other"))
  BY DEF Launch
<1> HIDE DEF r
<1>4. CASE \E phase \in {"sandboxed", "host"} : Becomes(c, WithProcess(r, phase))
  <2>1. PICK phase \in {"sandboxed", "host"} : Becomes(c, WithProcess(r, phase))
    BY <1>4
  <2>2. PICK n \in VmRecord : /\ n = WithProcess(r, phase)
                              /\ n.phase = phase /\ n.started = 1 /\ n.running = {1}
    BY <1>2, ProcessStarted DEF VmWaiting
  <2> QED
    BY <1>1, <2>1, <2>2, CallBecomes DEF VmWaiting, VmEnded
<1>5. CASE Becomes(c, LeavesBlock(r, "answered", "other"))
  <2>1. PICK n \in VmRecord : /\ n = LeavesBlock(r, "answered", "other")
                              /\ n.phase = "answered" /\ n.running = {} /\ ~n.files
    BY <1>2, BlockLeft DEF VmEnded
  <2> QED
    BY <1>1, <1>5, <2>1, CallBecomes DEF VmWaiting, VmEnded
<1> QED
  BY <1>3, <1>4, <1>5

LEMMA ExitsKeeps ==
  ASSUME VmInv, NEW c \in VmCall, NEW code \in {"zero", "other"}, Exits(c, code)
  PROVE  VmInv'
<1>1. /\ vm[c] \in VmRecord /\ vm[c].phase \in {"sandboxed", "fallback", "host"}
      /\ vm[c].started \in 1..2 /\ vm[c].running = {vm[c].started} /\ c \notin UnikernelCall
      /\ vm[c].phase = "sandboxed" => vm[c].started = 1
  BY DEF VmInv, VmTypeOK, CallInv, Exits, VmRecord, VmWaiting
<1> DEFINE r == [vm[c] EXCEPT !.running = @ \ {vm[c].started}]
<1>2. r \in VmRecord /\ r.started = vm[c].started /\ r.running = {}
  BY <1>1 DEF VmRecord
<1>3. \/ Becomes(c, LeavesBlock(r, "answered", code))
      \/ vm[c].phase = "sandboxed" /\ Becomes(c, WithProcess(r, "fallback"))
  BY DEF Exits
<1> HIDE DEF r
<1>4. CASE vm[c].phase = "sandboxed" /\ Becomes(c, WithProcess(r, "fallback"))
  <2>1. PICK n \in VmRecord : /\ n = WithProcess(r, "fallback")
                              /\ n.phase = "fallback" /\ n.started = 2 /\ n.running = {2}
    BY <1>1, <1>2, <1>4, ProcessStarted DEF VmWaiting
  <2> QED
    BY <1>1, <1>4, <2>1, CallBecomes DEF VmWaiting, VmEnded
<1>5. CASE Becomes(c, LeavesBlock(r, "answered", code))
  <2>1. PICK n \in VmRecord : /\ n = LeavesBlock(r, "answered", code)
                              /\ n.phase = "answered" /\ n.running = {} /\ ~n.files
    BY <1>2, BlockLeft DEF VmEnded
  <2> QED
    BY <1>1, <1>5, <2>1, CallBecomes DEF VmWaiting, VmEnded
<1> QED
  BY <1>3, <1>4, <1>5

LEMMA TimesOutKeeps ==
  ASSUME VmInv, NEW c \in VmCall, TimesOut(c)
  PROVE  VmInv'
<1>1. /\ vm[c] \in VmRecord /\ vm[c].phase \in {"sandboxed", "fallback", "host"}
      /\ vm[c].running = {vm[c].started} /\ c \notin UnikernelCall
  BY DEF VmInv, VmTypeOK, CallInv, TimesOut, VmRecord, VmWaiting
<1>2. CASE Becomes(c, LeavesBlock(KillsProcess(vm[c]), "answered", "other"))
  <2>1. KillsProcess(vm[c]) \in VmRecord /\ KillsProcess(vm[c]).running = {}
    BY <1>1 DEF VmRecord, KillsProcess
  <2>2. PICK n \in VmRecord : /\ n = LeavesBlock(KillsProcess(vm[c]), "answered", "other")
                              /\ n.phase = "answered" /\ n.running = {} /\ ~n.files
    BY <2>1, BlockLeft DEF VmEnded
  <2> QED
    BY <1>1, <1>2, <2>2, CallBecomes DEF VmWaiting, VmEnded
<1>3. CASE Becomes(c, LeavesBlock(vm[c], "raised", "none"))
  <2>1. PICK n \in VmRecord : n = LeavesBlock(vm[c], "raised", "none") /\ n.phase = "raised" /\ ~n.files
    BY <1>1, BlockLeft DEF VmEnded
  <2> QED
    BY <1>1, <1>3, <2>1, CallBecomes DEF VmWaiting, VmEnded
<1> QED
  BY <1>2, <1>3 DEF TimesOut

LEMMA UnikernelKeeps ==
  ASSUME VmInv, NEW c \in VmCall, Compile(c) \/ Boot(c) \/ UnikernelTimesOut(c)
  PROVE  VmInv'
<1>1. vm[c] \in VmRecord /\ CallInv(c)
  BY DEF VmInv, VmTypeOK, VmRecord
<1>2. CASE Compile(c)
  <2>1. c \in UnikernelCall /\ vm[c].started = 0 /\ vm[c].running = {}
    BY <1>1, <1>2 DEF Compile, CallInv
  <2>2. PICK phase \in {"compiled", "raised"} :
          Becomes(c, [vm[c] EXCEPT !.phase = phase, !.files = TRUE])
    BY <1>2 DEF Compile
  <2> DEFINE n == [vm[c] EXCEPT !.phase = phase, !.files = TRUE]
  <2>3. n \in VmRecord /\ n.phase = phase /\ n.started = 0 /\ n.running = {}
    <3>1. phase \in {"compiled", "raised"}
      BY <2>2
    <3>2. /\ n \in VmRecord /\ n.phase = phase /\ n.started = vm[c].started
          /\ n.running = vm[c].running
      BY <1>1, <3>1, FilesWritten
    <3> HIDE DEF n
    <3> QED
      BY <2>1, <3>2
  <2>4. Becomes(c, n)
    BY <2>2
  <2> HIDE DEF n
  <2>5. ~(n.started > 0) /\ n.phase \notin VmWaiting
        /\ n.phase \notin {"sandboxed", "fallback", "host", "unikernel", "answered"}
    BY <2>3 DEF VmWaiting
  <2> QED
    BY <2>1, <2>3, <2>4, <2>5, CallBecomes
<1>3. CASE Boot(c)
  <2>1. c \in UnikernelCall /\ vm[c].started = 0 /\ vm[c].running = {}
    BY <1>1, <1>3 DEF Boot, CallInv
  <2>2. CASE Becomes(c, WithProcess(vm[c], "unikernel"))
    <3>1. PICK n \in VmRecord : /\ n = WithProcess(vm[c], "unikernel")
                                /\ n.phase = "unikernel" /\ n.started = 1 /\ n.running = {1}
      BY <1>1, <2>1, ProcessStarted DEF VmWaiting
    <3> QED
      BY <2>1, <2>2, <3>1, CallBecomes DEF VmWaiting, VmEnded
  <2>3. CASE Becomes(c, LeavesBlock(vm[c], "raised", "none"))
    <3>1. PICK n \in VmRecord : n = LeavesBlock(vm[c], "raised", "none") /\ n.phase = "raised" /\ ~n.files
      BY <1>1, BlockLeft DEF VmEnded
    <3> QED
      BY <2>1, <2>3, <3>1, CallBecomes DEF VmWaiting, VmEnded
  <2> QED
    BY <1>3, <2>2, <2>3 DEF Boot
<1>4. CASE UnikernelTimesOut(c)
  <2>1. c \in UnikernelCall /\ Becomes(c, LeavesBlock(vm[c], "answered", "other"))
    BY <1>1, <1>4 DEF UnikernelTimesOut, CallInv
  <2>2. PICK n \in VmRecord : /\ n = LeavesBlock(vm[c], "answered", "other")
                              /\ n.phase = "answered" /\ ~n.files
    BY <1>1, BlockLeft DEF VmEnded
  <2> QED
    BY <2>1, <2>2, CallBecomes DEF VmWaiting, VmEnded
<1> QED
  BY <1>2, <1>3, <1>4

LEMMA UnikernelExitKeeps ==
  ASSUME VmInv, NEW c \in VmCall, NEW code \in {"zero", "other"}, UnikernelExits(c, code)
  PROVE  VmInv'
<1>1. vm[c] \in VmRecord /\ c \in UnikernelCall
  BY DEF VmInv, VmTypeOK, CallInv, UnikernelExits, VmRecord
<1>2. [vm[c] EXCEPT !.running = {}] \in VmRecord
  BY <1>1 DEF VmRecord
<1>3. PICK n \in VmRecord : /\ n = LeavesBlock([vm[c] EXCEPT !.running = {}], "answered", code)
                            /\ n.phase = "answered" /\ ~n.files
  BY <1>2, BlockLeft DEF VmEnded
<1>4. Becomes(c, n)
  BY <1>3 DEF UnikernelExits
<1> QED
  BY <1>1, <1>3, <1>4, CallBecomes DEF VmWaiting, VmEnded

LEMMA EndsKeep ==
  ASSUME VmInv, NEW c \in VmCall, CallCancelled(c) \/ OrphanExits(c)
  PROVE  VmInv'
<1>1. vm[c] \in VmRecord /\ CallInv(c)
  BY DEF VmInv, VmTypeOK, VmRecord
<1>2. CASE CallCancelled(c)
  <2>1. PICK n \in VmRecord : n = LeavesBlock(vm[c], "raised", "none") /\ n.phase = "raised" /\ ~n.files
    BY <1>1, BlockLeft DEF VmEnded
  <2>2. Becomes(c, n)
    BY <1>2, <2>1 DEF CallCancelled
  <2> QED
    BY <2>1, <2>2, CallBecomes DEF VmWaiting, VmEnded
<1>3. CASE OrphanExits(c)
  <2>1. PICK p \in vm[c].running : Becomes(c, [vm[c] EXCEPT !.running = @ \ {p}])
    BY <1>3 DEF OrphanExits
  <2> DEFINE n == [vm[c] EXCEPT !.running = @ \ {p}]
  <2>2. /\ n \in VmRecord /\ n.phase = vm[c].phase /\ n.started = vm[c].started
        /\ n.files = vm[c].files /\ n.running \subseteq vm[c].running
    BY <1>1, ProcessGone
  <2>3. vm[c].phase \in VmEnded /\ Becomes(c, n)
    BY <1>3, <2>1 DEF OrphanExits
  <2> HIDE DEF n
  <2>4. /\ n.phase \in VmEnded
        /\ n.phase = "answered" /\ c \notin UnikernelCall => n.running = {}
        /\ n.started > 0 => ~n.files
    BY <1>1, <2>2, <2>3 DEF CallInv
  <2>5. n.phase \notin VmWaiting
        /\ n.phase \notin {"new", "compiled", "sandboxed", "fallback", "host", "unikernel"}
    BY <2>4 DEF VmWaiting, VmEnded
  <2> QED
    BY <2>2, <2>3, <2>4, <2>5, CallBecomes
<1> QED
  BY <1>2, <1>3

LEMMA VmKept == VmInv /\ [VmNext]_vmVars => VmInv'
<1> SUFFICES ASSUME VmInv, [VmNext]_vmVars PROVE VmInv'
  OBVIOUS
<1>1. CASE VmNext
  BY <1>1, LaunchKeeps, ExitsKeeps, TimesOutKeeps, UnikernelKeeps, UnikernelExitKeeps, EndsKeep
     DEF VmNext
<1>2. CASE UNCHANGED vmVars
  BY <1>2 DEF vmVars, VmInv, VmTypeOK, CallInv
<1> QED
  BY <1>1, <1>2

\* For any number of concurrent calls and whatever the host has installed
\* (sandbox_microvm.py): when execute_isolated_code answers, none of its processes
\* runs, and no call that ended after it started a process leaves files.
THEOREM CallsCleanUp == VmSpec => []NothingLeftBehind
<1>1. VmInit => VmInv
  BY DEF VmInit, VmInv, VmTypeOK, CallInv, VmWaiting, VmEnded
<1>2. VmInv => NothingLeftBehind
  BY DEF VmInv, CallInv, NothingLeftBehind
<1> QED
  BY <1>1, <1>2, VmKept, PTL DEF VmSpec

-----------------------------------------------------------------------------
(* VoiceTurns                                                                 *)

Row == [state: AgentState \cup {"none"}, flag: BOOLEAN]
TaskRecord == [turn: Turn \cup {NoTurn}, phase: Finished \cup Running \cup {"created"},
               left: Nat, cancel: BOOLEAN]

\* A task that has not come to its end is awaited by its loop. As long as no two
\* loops have been alive together there is at most one alive, and the task created
\* last is that of the loop that waits.
TasksAwaited == \A l \in VoiceLoop : task[l].phase \notin Finished => loop[l] = "waiting"
OneLoop == ~overlapped => \A l, m \in VoiceLoop : Alive(l) /\ Alive(m) => l = m
LastTask == ~overlapped => \A l \in VoiceLoop : loop[l] = "waiting" => current_task = l

LoopInv == TasksAwaited /\ OneLoop /\ LastTask
VoiceInv == SpeakerKnown /\ LoopInv

LEMMA EnginesPositive == \A t : Engines(t) \in Nat
BY DEF Engines

-----------------------------------------------------------------------------
(* A step of a task gives it a new record and leaves the loops alone.        *)

LEMMA TaskStepLoops ==
  ASSUME VoiceInv, NEW l \in VoiceLoop, NEW r \in TaskRecord, task[l].phase \notin Finished,
         task' = [task EXCEPT ![l] = r], UNCHANGED <<current_task, loop, overlapped>>
  PROVE  LoopInv'
<1> USE DEF VoiceInv, LoopInv
<1>0. task \in [VoiceLoop -> TaskRecord]
  BY DEF SpeakerKnown, VoiceTypeOK, TaskRecord
<1>1. \A m \in VoiceLoop : m # l => task'[m] = task[m]
  BY <1>0
<1>2. TasksAwaited'
  BY <1>1 DEF TasksAwaited
<1>3. OneLoop'
  BY DEF OneLoop, Alive
<1>4. LastTask'
  BY DEF LastTask
<1> QED
  BY <1>2, <1>3, <1>4

LEMMA TaskStepSpeaker ==
  ASSUME VoiceInv, NEW l \in VoiceLoop, NEW r \in TaskRecord, task[l].phase \notin Finished,
         task' = [task EXCEPT ![l] = r], UNCHANGED <<current_task, overlapped>>,
         ~overlapped /\ r.phase \in Running =>
           /\ active_turn_id' = r.turn
           /\ current_state' = IF r.phase = "playing" THEN "PLAYING" ELSE "SYNTHESIZING"
  PROVE  InterruptReachesSpeaker'
<1>0. task \in [VoiceLoop -> TaskRecord]
  BY DEF VoiceInv, SpeakerKnown, VoiceTypeOK, TaskRecord
<1>1. task'[l] = r /\ \A m \in VoiceLoop : m # l => task'[m] = task[m]
  BY <1>0
<1>2. loop[l] = "waiting"
  BY DEF VoiceInv, LoopInv, TasksAwaited
<1>3. ASSUME ~overlapped, NEW m \in VoiceLoop, m # l PROVE task[m].phase \notin Running
  <2>1. loop[m] # "waiting"
    BY <1>2, <1>3 DEF VoiceInv, LoopInv, OneLoop, Alive
  <2>2. task[m].phase \in Finished
    BY <2>1 DEF VoiceInv, LoopInv, TasksAwaited
  <2> QED
    BY <2>2 DEF Finished, Running
<1>4. ~overlapped => current_task = l
  BY <1>2 DEF VoiceInv, LoopInv, LastTask
<1> QED
  BY <1>1, <1>3, <1>4 DEF InterruptReachesSpeaker

LEMMA TaskStepRows ==
  ASSUME VoiceInv, NEW l \in VoiceLoop, NEW r \in TaskRecord,
         task' = [task EXCEPT ![l] = r], r.turn = task[l].turn,
         accidents' = 0 => accidents = 0,
         accidents' = 0 => \A u \in Turn : multi_agent_ledger'[u].state \in Speaking =>
           \/ u = r.turn /\ r.phase \in Running
           \/ /\ multi_agent_ledger[u].state \in Speaking
              /\ u # r.turn \/ task[l].phase \notin Running
  PROVE  RowsTrue'
<1>0. task \in [VoiceLoop -> TaskRecord]
  BY DEF VoiceInv, SpeakerKnown, VoiceTypeOK, TaskRecord
<1>1. task'[l] = r /\ \A m \in VoiceLoop : m # l => task'[m] = task[m]
  BY <1>0
<1>2. SUFFICES ASSUME accidents' = 0, NEW u \in Turn, multi_agent_ledger'[u].state \in Speaking
               PROVE \E m \in VoiceLoop : task'[m].turn = u /\ task'[m].phase \in Running
  BY DEF RowsTrue
<1>3. CASE u = r.turn /\ r.phase \in Running
  BY <1>1, <1>3
<1>4. CASE /\ multi_agent_ledger[u].state \in Speaking
           /\ u # r.turn \/ task[l].phase \notin Running
  <2>1. PICK m \in VoiceLoop : task[m].turn = u /\ task[m].phase \in Running
    BY <1>2, <1>4 DEF VoiceInv, SpeakerKnown, RowsTrue
  <2>2. m # l
    BY <1>4, <2>1
  <2> QED
    BY <1>1, <2>1, <2>2
<1> QED
  BY <1>2, <1>3, <1>4

LEMMA TaskStepTypes ==
  ASSUME VoiceTypeOK, NEW l \in VoiceLoop, NEW r \in TaskRecord,
         task' = [task EXCEPT ![l] = r],
         UNCHANGED <<dialogue_queue, current_task, loop, overlapped>>,
         active_turn_id' \in Turn \cup {NoTurn}, current_state' \in AgentState,
         accidents' \in 0..MaxAccidents, multi_agent_ledger' \in [Turn -> Row]
  PROVE  VoiceTypeOK'
<1>1. task' \in [VoiceLoop -> TaskRecord]
  BY DEF VoiceTypeOK, TaskRecord
<1> QED
  BY <1>1 DEF VoiceTypeOK, TaskRecord, Row

\* What update_state leaves, and what it leaves when SQLite raises.
LEMMA StateUpdated ==
  ASSUME VoiceTypeOK, NEW t, NEW s \in AgentState, UpdateState(t, s)
  PROVE  /\ multi_agent_ledger' \in [Turn -> Row]
         /\ current_state' = s /\ accidents' = accidents
         /\ \A u \in Turn : multi_agent_ledger'[u].state =
                              IF u = t THEN s ELSE multi_agent_ledger[u].state
<1>1. multi_agent_ledger \in [Turn -> Row]
  BY DEF VoiceTypeOK, Row
<1>2. multi_agent_ledger' = [multi_agent_ledger EXCEPT ![t].state = s]
  BY DEF UpdateState
<1>3. [multi_agent_ledger[t] EXCEPT !.state = s] \in Row \/ t \notin Turn
  BY <1>1 DEF Row
<1>4. multi_agent_ledger' \in [Turn -> Row]
  BY <1>1, <1>2, <1>3
<1>5. \A u \in Turn : multi_agent_ledger'[u].state =
                        IF u = t THEN s ELSE multi_agent_ledger[u].state
  BY <1>1, <1>2 DEF Row
<1> QED
  BY <1>4, <1>5 DEF UpdateState

LEMMA UpdateFailed ==
  ASSUME VoiceTypeOK, NEW s, NEW n \in 1..2, UpdateRaises(s, n)
  PROVE  /\ multi_agent_ledger' = multi_agent_ledger /\ multi_agent_ledger' \in [Turn -> Row]
         /\ current_state' = s /\ accidents' \in 0..MaxAccidents /\ accidents' # 0
<1>1. accidents \in Nat /\ MaxAccidents \in Nat
  BY VoiceAssumption DEF VoiceTypeOK
<1> QED
  BY <1>1 DEF VoiceTypeOK, UpdateRaises, Row

LEMMA TaskStep ==
  ASSUME VoiceInv, NEW l \in VoiceLoop, NEW r \in TaskRecord, task[l].phase \notin Finished,
         task' = [task EXCEPT ![l] = r], r.turn = task[l].turn,
         UNCHANGED <<dialogue_queue, current_task, loop, overlapped>>,
         active_turn_id' \in Turn \cup {NoTurn}, current_state' \in AgentState,
         accidents' \in 0..MaxAccidents, multi_agent_ledger' \in [Turn -> Row],
         ~overlapped /\ r.phase \in Running =>
           /\ active_turn_id' = r.turn
           /\ current_state' = IF r.phase = "playing" THEN "PLAYING" ELSE "SYNTHESIZING",
         accidents' = 0 => accidents = 0,
         accidents' = 0 => \A u \in Turn : multi_agent_ledger'[u].state \in Speaking =>
           \/ u = r.turn /\ r.phase \in Running
           \/ /\ multi_agent_ledger[u].state \in Speaking
              /\ u # r.turn \/ task[l].phase \notin Running
  PROVE  VoiceInv'
<1>1. VoiceTypeOK'
  BY TaskStepTypes DEF VoiceInv, SpeakerKnown
<1>2. LoopInv'
  BY TaskStepLoops
<1>3. InterruptReachesSpeaker'
  BY TaskStepSpeaker
<1>4. RowsTrue'
  BY TaskStepRows
<1> QED
  BY <1>1, <1>2, <1>3, <1>4 DEF VoiceInv, SpeakerKnown

\* The record that a step gives a task which keeps its turn.
LEMMA TaskGoes ==
  ASSUME VoiceInv, NEW l \in VoiceLoop, NEW phase \in Finished \cup Running, NEW k \in Nat,
         task' = [task EXCEPT ![l].phase = phase, ![l].left = k]
  PROVE  \E r \in TaskRecord :
           r.phase = phase /\ r.turn = task[l].turn /\ task' = [task EXCEPT ![l] = r]
<1>1. task \in [VoiceLoop -> TaskRecord]
  BY DEF VoiceInv, SpeakerKnown, VoiceTypeOK, TaskRecord
<1>2. task[l] \in TaskRecord
  BY <1>1
<1>3. [task[l] EXCEPT !.phase = phase, !.left = k] \in TaskRecord
  BY <1>2 DEF TaskRecord
<1>4. /\ [task[l] EXCEPT !.phase = phase, !.left = k].phase = phase
      /\ [task[l] EXCEPT !.phase = phase, !.left = k].turn = task[l].turn
  BY <1>2 DEF TaskRecord
<1>5. [task EXCEPT ![l].phase = phase, ![l].left = k]
        = [task EXCEPT ![l] = [task[l] EXCEPT !.phase = phase, !.left = k]]
  BY <1>1, <1>2 DEF TaskRecord
<1> QED
  BY <1>3, <1>4, <1>5

\* A task that comes to its end, whatever it could write.
LEMMA TaskFinishes ==
  ASSUME VoiceInv, NEW l \in VoiceLoop, NEW phase \in Finished, Goes(l, phase),
         task[l].phase \in Running, TaskKeeps,
         \/ \E s \in AgentState \ Speaking : UpdateState(task[l].turn, s)
         \/ \E s \in AgentState, n \in 1..2 : UpdateRaises(s, n)
  PROVE  VoiceInv'
<1>1. PICK r \in TaskRecord : /\ r.phase = phase /\ r.turn = task[l].turn
                             /\ task' = [task EXCEPT ![l] = r]
  BY TaskGoes DEF Goes
<1>2. VoiceTypeOK /\ phase \notin Running /\ task[l].phase \notin Finished
  BY DEF VoiceInv, SpeakerKnown, Running, Finished
<1>3. /\ UNCHANGED <<dialogue_queue, current_task, loop, overlapped>>
      /\ active_turn_id' \in Turn \cup {NoTurn}
  BY <1>2 DEF TaskKeeps, VoiceTypeOK
<1>4. CASE \E s \in AgentState \ Speaking : UpdateState(task[l].turn, s)
  <2>1. PICK s \in AgentState \ Speaking : UpdateState(task[l].turn, s)
    BY <1>4
  <2>2. /\ multi_agent_ledger' \in [Turn -> Row] /\ current_state' \in AgentState
        /\ accidents' = accidents
        /\ \A u \in Turn : multi_agent_ledger'[u].state =
                             IF u = r.turn THEN s ELSE multi_agent_ledger[u].state
    BY <1>1, <1>2, <2>1, StateUpdated
  <2>3. accidents' \in 0..MaxAccidents
    BY <1>2, <2>2 DEF VoiceTypeOK
  <2>4. \A u \in Turn : multi_agent_ledger'[u].state \in Speaking =>
          multi_agent_ledger[u].state \in Speaking /\ u # r.turn
    BY <2>1, <2>2
  <2> QED
    BY <1>1, <1>2, <1>3, <2>2, <2>3, <2>4, TaskStep
<1>5. CASE \E s \in AgentState, n \in 1..2 : UpdateRaises(s, n)
  <2>1. PICK s \in AgentState, n \in 1..2 : UpdateRaises(s, n)
    BY <1>5
  <2>2. /\ multi_agent_ledger' \in [Turn -> Row] /\ current_state' \in AgentState
        /\ accidents' \in 0..MaxAccidents /\ accidents' # 0
    BY <1>2, <2>1, UpdateFailed
  <2> QED
    BY <1>1, <1>2, <1>3, <2>2, TaskStep
<1> QED
  BY <1>4, <1>5

-----------------------------------------------------------------------------
(* The steps of execute_turn                                                 *)

LEMMA BeginsKeeps ==
  ASSUME VoiceInv, NEW l \in VoiceLoop, TaskBegins(l)
  PROVE  VoiceInv'
<1>1. /\ VoiceTypeOK /\ task[l].phase \notin Finished /\ task[l].phase \notin Running
      /\ UNCHANGED <<dialogue_queue, current_task, loop, overlapped>>
      /\ task[l].turn \in Turn \cup {NoTurn}
  BY DEF VoiceInv, SpeakerKnown, VoiceTypeOK, TaskBegins, Finished, Running
<1>2. CASE /\ Goes(l, "dropped")
           /\ UNCHANGED <<multi_agent_ledger, active_turn_id, current_state, accidents>>
  <2>1. PICK r \in TaskRecord : /\ r.phase = "dropped" /\ r.turn = task[l].turn
                                /\ task' = [task EXCEPT ![l] = r]
    BY <1>2, TaskGoes DEF Goes, Finished
  <2>2. /\ active_turn_id' \in Turn \cup {NoTurn} /\ current_state' \in AgentState
        /\ accidents' \in 0..MaxAccidents /\ multi_agent_ledger' \in [Turn -> Row]
    BY <1>1, <1>2 DEF VoiceTypeOK, Row
  <2> QED
    BY <1>1, <1>2, <2>1, <2>2, TaskStep DEF Running
<1>3. CASE /\ active_turn_id' = task[l].turn /\ UpdateState(task[l].turn, "SYNTHESIZING")
           /\ task' = [task EXCEPT ![l].phase = "synthesizing",
                                   ![l].left = Engines(task[l].turn)]
  <2>1. PICK r \in TaskRecord : /\ r.phase = "synthesizing" /\ r.turn = task[l].turn
                                /\ task' = [task EXCEPT ![l] = r]
    BY <1>3, TaskGoes, EnginesPositive DEF Running
  <2>2. /\ multi_agent_ledger' \in [Turn -> Row] /\ current_state' = "SYNTHESIZING"
        /\ accidents' = accidents
        /\ \A u \in Turn : multi_agent_ledger'[u].state =
                             IF u = r.turn THEN "SYNTHESIZING" ELSE multi_agent_ledger[u].state
    BY <1>1, <1>3, <2>1, StateUpdated DEF AgentState, Speaking
  <2>3. /\ accidents' \in 0..MaxAccidents /\ "SYNTHESIZING" \in AgentState
        /\ "synthesizing" \in Running
    BY <1>1, <2>2 DEF VoiceTypeOK, AgentState, Speaking, Running
  <2>4. \A u \in Turn : multi_agent_ledger'[u].state \in Speaking =>
          u = r.turn \/ multi_agent_ledger[u].state \in Speaking
    BY <2>2
  <2>5. /\ active_turn_id' = r.turn /\ r.phase # "playing" /\ task[l].turn = r.turn
        /\ current_state' \in AgentState
    BY <1>3, <2>1, <2>2, <2>3
  <2> QED
    BY <1>1, <2>1, <2>2, <2>3, <2>4, <2>5, TaskStep
<1>4. CASE /\ active_turn_id' = task[l].turn /\ UpdateRaises("SYNTHESIZING", 1)
           /\ Goes(l, "raised")
  <2>1. PICK r \in TaskRecord : /\ r.phase = "raised" /\ r.turn = task[l].turn
                                /\ task' = [task EXCEPT ![l] = r]
    BY <1>4, TaskGoes DEF Goes, Finished
  <2>2. /\ multi_agent_ledger' \in [Turn -> Row] /\ current_state' \in AgentState
        /\ accidents' \in 0..MaxAccidents /\ accidents' # 0
    BY <1>1, <1>4, UpdateFailed DEF AgentState, Speaking
  <2> QED
    BY <1>1, <1>4, <2>1, <2>2, TaskStep DEF Running
<1> QED
  BY <1>2, <1>3, <1>4 DEF TaskBegins

\* A task that goes on leaves the rows alone, or says that its turn is played.
LEMMA TaskContinues ==
  ASSUME VoiceInv, NEW l \in VoiceLoop, NEW r \in TaskRecord, task[l].phase \in Running,
         r.phase \in Running, r.turn = task[l].turn, task' = [task EXCEPT ![l] = r], TaskKeeps,
         \/ r.phase = task[l].phase /\ UNCHANGED <<multi_agent_ledger, current_state, accidents>>
         \/ r.phase = "playing" /\ UpdateState(task[l].turn, "PLAYING")
  PROVE  VoiceInv'
<1>1. /\ VoiceTypeOK /\ task[l].phase \notin Finished
      /\ UNCHANGED <<dialogue_queue, current_task, loop, overlapped>>
      /\ active_turn_id' = active_turn_id /\ active_turn_id' \in Turn \cup {NoTurn}
  BY DEF VoiceInv, SpeakerKnown, VoiceTypeOK, TaskKeeps, Finished, Running
<1>2. ~overlapped =>
        /\ active_turn_id = r.turn
        /\ current_state = IF task[l].phase = "playing" THEN "PLAYING" ELSE "SYNTHESIZING"
  BY DEF VoiceInv, SpeakerKnown, InterruptReachesSpeaker
<1>3. CASE /\ r.phase = task[l].phase
           /\ UNCHANGED <<multi_agent_ledger, current_state, accidents>>
  <2>1. /\ current_state' \in AgentState
        /\ accidents' \in 0..MaxAccidents /\ multi_agent_ledger' \in [Turn -> Row]
    BY <1>1, <1>3 DEF VoiceTypeOK, Row
  <2> QED
    BY <1>1, <1>2, <1>3, <2>1, TaskStep
<1>4. CASE r.phase = "playing" /\ UpdateState(task[l].turn, "PLAYING")
  <2>1. /\ multi_agent_ledger' \in [Turn -> Row] /\ current_state' = "PLAYING"
        /\ accidents' = accidents
        /\ \A u \in Turn : multi_agent_ledger'[u].state =
                             IF u = r.turn THEN "PLAYING" ELSE multi_agent_ledger[u].state
    BY <1>1, <1>4, StateUpdated DEF AgentState, Speaking
  <2>2. accidents' \in 0..MaxAccidents /\ "PLAYING" \in AgentState
    BY <1>1, <2>1 DEF VoiceTypeOK, AgentState, Speaking
  <2>3. \A u \in Turn : multi_agent_ledger'[u].state \in Speaking =>
          u = r.turn \/ multi_agent_ledger[u].state \in Speaking
    BY <2>1
  <2> QED
    BY <1>1, <1>2, <1>4, <2>1, <2>2, <2>3, TaskStep
<1> QED
  BY <1>3, <1>4

\* One that has one more engine tried, or one more segment played.
LEMMA OneLess ==
  ASSUME VoiceInv, NEW l \in VoiceLoop, task[l].phase \in Running, task[l].left > 1, TaskKeeps,
         task' = [task EXCEPT ![l].left = @ - 1],
         UNCHANGED <<multi_agent_ledger, current_state, accidents>>
  PROVE  VoiceInv'
<1>1. task \in [VoiceLoop -> TaskRecord] /\ task[l] \in TaskRecord
  BY DEF VoiceInv, SpeakerKnown, VoiceTypeOK, TaskRecord
<1>2. task[l].left - 1 \in Nat
  BY <1>1 DEF TaskRecord
<1> DEFINE r == [task[l] EXCEPT !.left = task[l].left - 1]
<1>3. r \in TaskRecord /\ r.phase = task[l].phase /\ r.turn = task[l].turn
  BY <1>1, <1>2 DEF TaskRecord
<1>4. task' = [task EXCEPT ![l] = r]
  BY <1>1 DEF TaskRecord
<1> HIDE DEF r
<1> QED
  BY <1>3, <1>4, TaskContinues

LEMMA FailsKeeps ==
  ASSUME VoiceInv, NEW l \in VoiceLoop, TaskFails(l)
  PROVE  VoiceInv'
<1>1. /\ VoiceTypeOK /\ task[l].phase \in Running /\ TaskKeeps /\ accidents < MaxAccidents
      /\ task[l].phase \notin Finished
      /\ UNCHANGED <<dialogue_queue, current_task, loop, overlapped>>
      /\ active_turn_id' \in Turn \cup {NoTurn}
  BY DEF VoiceInv, SpeakerKnown, VoiceTypeOK, TaskFails, Resumes, TaskKeeps, Running, Finished
<1>2. CASE /\ accidents' = accidents + 1 /\ current_state' = "FAILED"
           /\ multi_agent_ledger' = [multi_agent_ledger EXCEPT ![task[l].turn].state = "FAILED"]
           /\ Goes(l, "stopped")
  <2>1. PICK r \in TaskRecord : /\ r.phase = "stopped" /\ r.turn = task[l].turn
                                /\ task' = [task EXCEPT ![l] = r]
    BY <1>2, TaskGoes DEF Goes, Finished
  <2>2. accidents' \in 0..MaxAccidents /\ accidents' # 0 /\ current_state' \in AgentState
    BY <1>1, <1>2, VoiceAssumption DEF VoiceTypeOK, AgentState
  <2>3. multi_agent_ledger' \in [Turn -> Row]
    BY <1>1, <1>2 DEF VoiceTypeOK, Row, AgentState
  <2> QED
    BY <1>1, <2>1, <2>2, <2>3, TaskStep DEF Running
<1>3. CASE UpdateRaises("FAILED", 2) /\ Goes(l, "raised")
  BY <1>1, <1>3, TaskFinishes DEF AgentState, Finished
<1> QED
  BY <1>2, <1>3 DEF TaskFails

LEMMA TaskKept ==
  ASSUME VoiceInv, NEW l \in VoiceLoop, TaskRuns(l)
  PROVE  VoiceInv'
<1> USE DEF Resumes
<1>1. CASE TaskBegins(l)
  BY <1>1, BeginsKeeps
<1>2. CASE EngineFails(l)
  BY <1>2, OneLess DEF EngineFails, Running
<1>3. CASE AudioReady(l)
  <2>1. CASE UpdateState(task[l].turn, "INTERRUPTED") /\ Goes(l, "stopped")
    BY <1>3, <2>1, TaskFinishes DEF AudioReady, AgentState, Speaking, Finished, Running
  <2>2. CASE /\ UpdateState(task[l].turn, "PLAYING")
             /\ task' = [task EXCEPT ![l].phase = "playing", ![l].left = MaxSegments]
    <3>1. PICK r \in TaskRecord : /\ r.phase = "playing" /\ r.turn = task[l].turn
                                  /\ task' = [task EXCEPT ![l] = r]
      BY <2>2, TaskGoes, VoiceAssumption DEF Running
    <3> QED
      BY <1>3, <2>2, <3>1, TaskContinues DEF AudioReady, Running
  <2> QED
    BY <1>3, <2>1, <2>2 DEF AudioReady
<1>4. CASE SegmentPlayed(l)
  <2>0. task[l].phase = "playing" /\ TaskKeeps
    BY <1>4 DEF SegmentPlayed
  <2>1. CASE UpdateState(task[l].turn, "IDLE") /\ Goes(l, "spoken")
    BY <2>0, <2>1, TaskFinishes DEF AgentState, Speaking, Finished, Running
  <2>2. CASE UpdateState(task[l].turn, "INTERRUPTED") /\ Goes(l, "stopped")
    BY <2>0, <2>2, TaskFinishes DEF AgentState, Speaking, Finished, Running
  <2>3. CASE /\ task[l].left > 1 /\ task' = [task EXCEPT ![l].left = @ - 1]
             /\ UNCHANGED <<multi_agent_ledger, current_state, accidents>>
    BY <2>0, <2>3, OneLess DEF Running
  <2> QED
    BY <1>4, <2>1, <2>2, <2>3 DEF SegmentPlayed
<1>5. CASE TaskCancelled(l)
  <2>1. CASE UpdateState(task[l].turn, "INTERRUPTED") /\ Goes(l, "stopped")
    BY <1>5, <2>1, TaskFinishes DEF TaskCancelled, AgentState, Speaking, Finished
  <2>2. CASE UpdateRaises("INTERRUPTED", 1) /\ Goes(l, "raised")
    BY <1>5, <2>2, TaskFinishes DEF TaskCancelled, AgentState, Speaking, Finished
  <2> QED
    BY <1>5, <2>1, <2>2 DEF TaskCancelled
<1>6. CASE TaskFails(l)
  BY <1>6, FailsKeeps
<1> QED
  BY <1>1, <1>2, <1>3, <1>4, <1>5, <1>6 DEF TaskRuns

-----------------------------------------------------------------------------
(* The steps of the loops and of the clients                                 *)

\* A loop that takes a step has a task that ended, or none. It gets another
\* record, of a task created or of none; the rows stay.
LEMMA LoopStep ==
  ASSUME VoiceInv, NEW l \in VoiceLoop, NEW r \in TaskRecord, Alive(l),
         task[l].phase \in Finished, r.phase \notin Running,
         task' = [task EXCEPT ![l] = r],
         NEW phase \in {"idle", "waiting", "dead"}, loop' = [loop EXCEPT ![l] = phase],
         phase = "waiting" => current_task' = l,
         phase # "waiting" => r.phase \in Finished /\ current_task' = current_task,
         UNCHANGED <<multi_agent_ledger, overlapped, accidents>>,
         dialogue_queue' \in Seq(Turn), active_turn_id' \in Turn \cup {NoTurn},
         current_state' \in AgentState, current_task' \in VoiceLoop \cup {NoLoop}
  PROVE  VoiceInv'
<1> USE DEF VoiceInv, SpeakerKnown, LoopInv
<1>1. /\ task \in [VoiceLoop -> TaskRecord] /\ VoiceTypeOK
      /\ loop \in [VoiceLoop -> {"idle", "started", "waiting", "dead"}]
  BY DEF VoiceTypeOK, TaskRecord
<1>2. /\ task'[l] = r /\ loop'[l] = phase
      /\ \A m \in VoiceLoop : m # l => task'[m] = task[m] /\ loop'[m] = loop[m]
  BY <1>1
<1>3. VoiceTypeOK'
  <2>1. task' \in [VoiceLoop -> TaskRecord]
    BY <1>1
  <2>2. loop' \in [VoiceLoop -> {"idle", "started", "waiting", "dead"}]
    BY <1>1
  <2> QED
    BY <1>1, <2>1, <2>2 DEF VoiceTypeOK, TaskRecord
<1>4. TasksAwaited'
  BY <1>2 DEF TasksAwaited
<1>5. OneLoop'
  BY <1>2 DEF OneLoop, Alive
<1>6. ASSUME ~overlapped, NEW m \in VoiceLoop, m # l PROVE loop[m] # "waiting"
  BY <1>6 DEF OneLoop, Alive
<1>7. LastTask'
  BY <1>2, <1>6 DEF LastTask
<1>8. InterruptReachesSpeaker'
  <2>1. ASSUME ~overlapped, NEW m \in VoiceLoop PROVE task'[m].phase \notin Running
    <3>1. CASE m = l
      BY <1>2, <3>1
    <3>2. CASE m # l
      BY <1>2, <1>6, <2>1, <3>2 DEF TasksAwaited, Finished, Running
    <3> QED
      BY <3>1, <3>2
  <2> QED
    BY <2>1 DEF InterruptReachesSpeaker
<1>9. RowsTrue'
  <2> SUFFICES ASSUME accidents = 0, NEW u \in Turn, multi_agent_ledger[u].state \in Speaking
               PROVE  \E m \in VoiceLoop : task'[m].turn = u /\ task'[m].phase \in Running
    BY DEF RowsTrue
  <2>1. PICK m \in VoiceLoop : task[m].turn = u /\ task[m].phase \in Running
    BY DEF RowsTrue
  <2>2. m # l
    BY <2>1 DEF Finished, Running
  <2> QED
    BY <1>2, <2>1, <2>2
<1> QED
  BY <1>3, <1>4, <1>5, <1>7, <1>8, <1>9

LEMMA NoTaskType == NoTask \in TaskRecord /\ NoTask.phase \in Finished /\ NoTask.phase \notin Running
BY DEF NoTask, TaskRecord, Finished, Running

LEMMA LoopKept ==
  ASSUME VoiceInv, NEW l \in VoiceLoop, LoopRuns(l)
  PROVE  VoiceInv'
<1>1. /\ VoiceTypeOK /\ Alive(l) /\ task[l].phase \in Finished
      /\ UNCHANGED <<multi_agent_ledger, overlapped, accidents>>
  <2>1. loop[l] = "started" => task[l].phase \in Finished
    BY DEF VoiceInv, LoopInv, TasksAwaited
  <2> QED
    BY <2>1 DEF VoiceInv, SpeakerKnown, LoopRuns, Alive, Finished
<1>2. CASE LoopEnds(l) /\ UNCHANGED current_task /\ dialogue_queue' \in {dialogue_queue, <<>>}
  <2>1. dialogue_queue' \in Seq(Turn) /\ current_task' \in VoiceLoop \cup {NoLoop}
    BY <1>1, <1>2, EmptySeq DEF VoiceTypeOK
  <2>2. active_turn_id' \in Turn \cup {NoTurn} /\ current_state' \in AgentState
    BY <1>2 DEF LoopEnds, AgentState
  <2> QED
    BY <1>1, <1>2, <2>1, <2>2, NoTaskType, LoopStep DEF LoopEnds
<1>3. CASE LoopTop(l) /\ dialogue_queue # <<>> /\ current_task' = l
  <2> DEFINE r == [turn |-> Head(dialogue_queue), phase |-> "created", left |-> 0,
                   cancel |-> FALSE]
  <2>1. dialogue_queue \in Seq(Turn) /\ Head(dialogue_queue) \in Turn
        /\ dialogue_queue' \in Seq(Turn)
    <3>1. dialogue_queue \in Seq(Turn) /\ dialogue_queue' = Tail(dialogue_queue)
      BY <1>1, <1>3 DEF VoiceTypeOK, LoopTop
    <3> QED
      BY <1>3, <3>1, HeadTailProperties
  <2>2. r \in TaskRecord /\ r.phase \notin Running
    BY <2>1 DEF TaskRecord, Running
  <2>3. /\ task' = [task EXCEPT ![l] = r] /\ loop' = [loop EXCEPT ![l] = "waiting"]
        /\ UNCHANGED <<active_turn_id, current_state>>
    BY <1>3 DEF LoopTop
  <2>4. active_turn_id' \in Turn \cup {NoTurn} /\ current_state' \in AgentState
    BY <1>1, <2>3 DEF VoiceTypeOK
  <2> HIDE DEF r
  <2> QED
    BY <1>1, <1>3, <2>1, <2>2, <2>3, <2>4, LoopStep
<1>4. CASE /\ loop' = [loop EXCEPT ![l] = "dead"] /\ task' = [task EXCEPT ![l] = NoTask]
           /\ UNCHANGED <<dialogue_queue, active_turn_id, current_state, current_task>>
  <2>1. /\ dialogue_queue' \in Seq(Turn) /\ active_turn_id' \in Turn \cup {NoTurn}
        /\ current_state' \in AgentState /\ current_task' \in VoiceLoop \cup {NoLoop}
    BY <1>1, <1>4 DEF VoiceTypeOK
  <2> QED
    BY <1>1, <1>4, <2>1, NoTaskType, LoopStep
<1>5. ASSUME LoopTop(l) PROVE VoiceInv'
  <2>1. CASE dialogue_queue = <<>>
    BY <1>2, <1>5, <2>1 DEF LoopTop
  <2>2. CASE dialogue_queue # <<>>
    BY <1>3, <1>5, <2>2 DEF LoopTop
  <2> QED
    BY <2>1, <2>2
<1> QED
  BY <1>2, <1>4, <1>5 DEF LoopRuns

LEMMA InterruptKeeps ==
  ASSUME VoiceInv, NEW target \in Turn \cup {NoTurn}, Interrupt(target)
  PROVE  VoiceInv'
<1> USE DEF VoiceInv, SpeakerKnown, LoopInv
<1>1. /\ task \in [VoiceLoop -> TaskRecord] /\ VoiceTypeOK
      /\ multi_agent_ledger \in [Turn -> Row]
      /\ UNCHANGED <<dialogue_queue, active_turn_id, current_state, current_task, loop,
                     overlapped, accidents>>
  BY DEF VoiceTypeOK, TaskRecord, Row, Interrupt
<1>2. /\ task' \in [VoiceLoop -> TaskRecord]
      /\ \A l \in VoiceLoop : task'[l].turn = task[l].turn /\ task'[l].phase = task[l].phase
  BY <1>1 DEF TaskRecord, Interrupt
<1>3. /\ multi_agent_ledger' \in [Turn -> Row]
      /\ \A u \in Turn : multi_agent_ledger'[u].state = multi_agent_ledger[u].state
  BY <1>1 DEF Row, Interrupt, Flagged
<1>4. VoiceTypeOK'
  BY <1>1, <1>2, <1>3 DEF VoiceTypeOK, TaskRecord, Row
<1>5. TasksAwaited' /\ OneLoop' /\ LastTask'
  BY <1>1, <1>2 DEF TasksAwaited, OneLoop, LastTask, Alive
<1>6. InterruptReachesSpeaker'
  BY <1>1, <1>2 DEF InterruptReachesSpeaker
<1>7. RowsTrue'
  BY <1>1, <1>2, <1>3 DEF RowsTrue
<1> QED
  BY <1>4, <1>5, <1>6, <1>7

LEMMA StartKeeps ==
  ASSUME VoiceInv, NEW l \in VoiceLoop, StartOrchestration(l)
  PROVE  VoiceInv'
<1> USE DEF VoiceInv, SpeakerKnown, LoopInv
<1>1. /\ loop \in [VoiceLoop -> {"idle", "started", "waiting", "dead"}] /\ VoiceTypeOK
      /\ UNCHANGED <<multi_agent_ledger, dialogue_queue, active_turn_id, current_state,
                     current_task, task, accidents>>
      /\ loop' = [loop EXCEPT ![l] = "started"] /\ ~Alive(l)
      /\ overlapped' = (overlapped \/ \E m \in VoiceLoop : Alive(m))
  BY DEF VoiceTypeOK, StartOrchestration
<1>2. /\ loop'[l] = "started" /\ loop' \in [VoiceLoop -> {"idle", "started", "waiting", "dead"}]
      /\ \A m \in VoiceLoop : m # l => loop'[m] = loop[m]
  BY <1>1
<1>3. overlapped' \in BOOLEAN
  BY <1>1, Zenon DEF VoiceTypeOK
<1>4. VoiceTypeOK'
  BY <1>1, <1>2, <1>3 DEF VoiceTypeOK
<1>5. TasksAwaited'
  BY <1>1, <1>2 DEF TasksAwaited, Alive
<1>6. ~overlapped' => ~overlapped /\ \A m \in VoiceLoop : ~Alive(m)
  BY <1>1
<1>7. OneLoop' /\ LastTask'
  BY <1>1, <1>2, <1>6 DEF OneLoop, LastTask, Alive
<1>8. InterruptReachesSpeaker' /\ RowsTrue'
  BY <1>1, <1>6 DEF InterruptReachesSpeaker, RowsTrue
<1> QED
  BY <1>4, <1>5, <1>7, <1>8

LEMMA VoiceBegins == VoiceInit => VoiceInv
<1> SUFFICES ASSUME VoiceInit PROVE VoiceInv
  OBVIOUS
<1>1. VoiceTypeOK
  <2>1. task \in [VoiceLoop -> TaskRecord]
    BY NoTaskType DEF VoiceInit
  <2>2. accidents \in 0..MaxAccidents
    BY VoiceAssumption DEF VoiceInit
  <2>3. multi_agent_ledger \in [Turn -> Row]
    BY DEF VoiceInit, Row
  <2>4. loop \in [VoiceLoop -> {"idle", "started", "waiting", "dead"}]
    BY DEF VoiceInit
  <2>5. /\ dialogue_queue \in Seq(Turn) /\ active_turn_id \in Turn \cup {NoTurn}
        /\ current_state \in AgentState /\ current_task \in VoiceLoop \cup {NoLoop}
        /\ overlapped \in BOOLEAN
    BY EmptySeq DEF VoiceInit, AgentState
  <2> QED
    BY <2>1, <2>2, <2>3, <2>4, <2>5 DEF VoiceTypeOK, TaskRecord, Row
<1>2. \A l \in VoiceLoop : task[l].phase \in Finished /\ task[l].phase \notin Running
  BY NoTaskType DEF VoiceInit
<1>3. LoopInv
  BY <1>2 DEF VoiceInit, LoopInv, TasksAwaited, OneLoop, LastTask, Alive
<1>4. InterruptReachesSpeaker /\ RowsTrue
  BY <1>2 DEF VoiceInit, InterruptReachesSpeaker, RowsTrue, Speaking
<1> QED
  BY <1>1, <1>3, <1>4 DEF VoiceInv, SpeakerKnown

LEMMA RestartKeeps == VoiceInv /\ VoiceRestart => VoiceInv'
<1> SUFFICES ASSUME VoiceInv, VoiceRestart PROVE VoiceInv'
  OBVIOUS
<1>1. /\ VoiceTypeOK /\ multi_agent_ledger \in [Turn -> Row]
      /\ \A l \in VoiceLoop : task'[l] = NoTask /\ loop'[l] = "idle"
      /\ task' = [l \in VoiceLoop |-> NoTask]
  BY DEF VoiceInv, SpeakerKnown, VoiceTypeOK, Row, VoiceRestart
<1>2. VoiceTypeOK'
  <2>1. task' \in [VoiceLoop -> TaskRecord]
    BY <1>1, NoTaskType
  <2>2. accidents' \in 0..MaxAccidents
    BY <1>1, VoiceAssumption DEF VoiceTypeOK, VoiceRestart
  <2>3. multi_agent_ledger' \in [Turn -> Row]
    BY <1>1 DEF VoiceRestart, Row
  <2>4. loop' \in [VoiceLoop -> {"idle", "started", "waiting", "dead"}]
    BY DEF VoiceRestart
  <2>5. /\ dialogue_queue' \in Seq(Turn) /\ active_turn_id' \in Turn \cup {NoTurn}
        /\ current_state' \in AgentState /\ current_task' \in VoiceLoop \cup {NoLoop}
        /\ overlapped' \in BOOLEAN
    BY EmptySeq DEF VoiceRestart, AgentState
  <2> QED
    BY <2>1, <2>2, <2>3, <2>4, <2>5 DEF VoiceTypeOK, TaskRecord, Row
<1>3. LoopInv'
  BY <1>1, NoTaskType DEF LoopInv, TasksAwaited, OneLoop, LastTask, Alive
<1>4. InterruptReachesSpeaker'
  BY <1>1, NoTaskType DEF InterruptReachesSpeaker
<1>5. accidents' # 0
  BY <1>1 DEF VoiceRestart, VoiceTypeOK
<1> QED
  BY <1>2, <1>3, <1>4, <1>5 DEF VoiceInv, SpeakerKnown, RowsTrue

\* What a step that changes only the queue, or nothing, cannot disturb.
LEMMA QueueKeeps ==
  ASSUME VoiceInv, dialogue_queue' \in Seq(Turn),
         UNCHANGED <<multi_agent_ledger, active_turn_id, current_state, current_task, loop,
                     task, overlapped, accidents>>
  PROVE  VoiceInv'
<1> USE DEF VoiceInv, SpeakerKnown, LoopInv
<1>1. VoiceTypeOK'
  BY DEF VoiceTypeOK
<1>2. TasksAwaited' /\ OneLoop' /\ LastTask'
  BY DEF TasksAwaited, OneLoop, LastTask, Alive
<1>3. InterruptReachesSpeaker' /\ RowsTrue'
  BY DEF InterruptReachesSpeaker, RowsTrue
<1> QED
  BY <1>1, <1>2, <1>3

LEMMA VoiceKept == VoiceInv /\ [VoiceNext]_voiceVars => VoiceInv'
<1> SUFFICES ASSUME VoiceInv, [VoiceNext]_voiceVars PROVE VoiceInv'
  OBVIOUS
<1>0. dialogue_queue \in Seq(Turn)
  BY DEF VoiceInv, SpeakerKnown, VoiceTypeOK
<1>1. ASSUME NEW t \in Turn, QueueTurn(t) PROVE VoiceInv'
  BY <1>0, <1>1, QueueKeeps DEF QueueTurn
<1>2. CASE UNCHANGED voiceVars
  BY <1>0, <1>2, QueueKeeps DEF voiceVars
<1> QED
  BY <1>1, <1>2, InterruptKeeps, StartKeeps, LoopKept, TaskKept, RestartKeeps DEF VoiceNext

\* For any turns, loops and interrupts, a ledger that fails and a process that
\* restarts included (sarembok_voice_orchestrator.py): while no two loops have been
\* alive together an interrupt reaches whoever speaks; and before anything failed
\* the ledger says that a turn speaks only while a task speaks it.
THEOREM SpeakerIsKnown == VoiceSpec => []SpeakerKnown
<1>1. VoiceInv => SpeakerKnown
  BY DEF VoiceInv
<1> QED
  BY <1>1, VoiceBegins, VoiceKept, PTL DEF VoiceSpec

-----------------------------------------------------------------------------
(* DualMemory                                                                 *)

\* The inductive invariant: what was stored last is in Redis while it answers, and in
\* the local store only once it does not, where only what was stored expires.
StoresTrue ==
  /\ connected => \A k \in ContextKey : /\ redis[k] \in {0, written[k]}
                                        /\ l1_store[k].val = 0
  /\ \A k \in ContextKey : /\ l1_store[k].val \in {0, written[k]}
                           /\ l1_store[k].expired => l1_store[k].val # 0

MemInv == MemTypeOK /\ PagesKept /\ StoresTrue

\* Pages that are each in the sequence once: one of them leaves, and one is put last.
LEMMA ElementLeaves ==
  ASSUME NEW S, NEW s \in Seq(S), IsInjective(s), NEW i \in DOMAIN s
  PROVE  /\ RemoveAt(s, i) \in Seq(S) /\ IsInjective(RemoveAt(s, i))
         /\ ToSet(RemoveAt(s, i)) = ToSet(s) \ {s[i]}
<1> DEFINE r == RemoveAt(s, i)
<1>1. Len(s) \in Nat /\ DOMAIN s = 1..Len(s) /\ i \in 1..Len(s)
  OBVIOUS
<1>2. /\ r \in Seq(S) /\ Len(r) = Len(s) - 1
      /\ \A j \in 1..Len(s) - 1 : r[j] = IF j < i THEN s[j] ELSE s[j + 1]
  BY <1>1, ElementRemoved
<1>3. DOMAIN r = 1..Len(s) - 1
  BY <1>2
<1> HIDE DEF r
<1>4. IsInjective(r)
  <2> SUFFICES ASSUME NEW j \in 1..Len(s) - 1, NEW k \in 1..Len(s) - 1, r[j] = r[k] PROVE j = k
    BY <1>3 DEF IsInjective
  <2> DEFINE place(x) == IF x < i THEN x ELSE x + 1
  <2>1. /\ r[j] = s[place(j)] /\ r[k] = s[place(k)]
        /\ place(j) \in DOMAIN s /\ place(k) \in DOMAIN s
    BY <1>1, <1>2
  <2>2. place(j) = place(k)
    BY <2>1 DEF IsInjective
  <2> QED
    BY <1>1, <2>2
<1>5. ASSUME NEW j \in DOMAIN r PROVE r[j] \in ToSet(s) /\ r[j] # s[i]
  <2>1. CASE j < i
    <3>1. r[j] = s[j] /\ j \in DOMAIN s /\ j # i
      BY <1>1, <1>2, <1>3, <2>1
    <3> QED
      BY <1>1, <3>1 DEF ToSet, IsInjective
  <2>2. CASE ~(j < i)
    <3>1. r[j] = s[j + 1] /\ j + 1 \in DOMAIN s /\ j + 1 # i
      BY <1>1, <1>2, <1>3, <2>2
    <3> QED
      BY <1>1, <3>1 DEF ToSet, IsInjective
  <2> QED
    BY <2>1, <2>2
<1>6. ASSUME NEW j \in DOMAIN s, j # i PROVE s[j] \in ToSet(r)
  <2>1. CASE j < i
    <3>1. r[j] = s[j] /\ j \in DOMAIN r
      BY <1>1, <1>2, <1>3, <2>1
    <3> QED
      BY <3>1 DEF ToSet
  <2>2. CASE ~(j < i)
    <3>1. r[j - 1] = s[j] /\ j - 1 \in DOMAIN r
      BY <1>1, <1>2, <1>3, <1>6, <2>2
    <3> QED
      BY <3>1 DEF ToSet
  <2> QED
    BY <2>1, <2>2
<1>7. ToSet(r) = ToSet(s) \ {s[i]}
  BY <1>5, <1>6 DEF ToSet
<1> QED
  BY <1>2, <1>4, <1>7 DEF r

LEMMA PageLeaves ==
  ASSUME NEW S, NEW s \in Seq(S), IsInjective(s), NEW e
  PROVE  Without(s, e) \in Seq(S) /\ IsInjective(Without(s, e)) /\ ToSet(Without(s, e)) = ToSet(s) \ {e}
<1>1. CASE e \in ToSet(s)
  <2> DEFINE i == CHOOSE j \in DOMAIN s : s[j] = e
  <2>1. i \in DOMAIN s /\ s[i] = e
    BY <1>1 DEF ToSet
  <2>2. Without(s, e) = RemoveAt(s, i)
    BY <1>1 DEF Without
  <2> HIDE DEF i
  <2> QED
    BY <2>1, <2>2, ElementLeaves
<1>2. CASE e \notin ToSet(s)
  BY <1>2 DEF Without
<1> QED
  BY <1>1, <1>2

LEMMA PagePutLast ==
  ASSUME NEW S, NEW s \in Seq(S), IsInjective(s), NEW e \in S, e \notin ToSet(s)
  PROVE  /\ Append(s, e) \in Seq(S) /\ IsInjective(Append(s, e))
         /\ ToSet(Append(s, e)) = ToSet(s) \cup {e}
<1> DEFINE r == Append(s, e)
<1>1. /\ Len(s) \in Nat /\ DOMAIN s = 1..Len(s) /\ DOMAIN r = 1..Len(s) + 1 /\ r \in Seq(S)
      /\ r[Len(s) + 1] = e /\ \A j \in 1..Len(s) : r[j] = s[j]
  OBVIOUS
<1>2. \A j \in DOMAIN s : s[j] # e
  BY DEF ToSet
<1> HIDE DEF r
<1>3. IsInjective(r)
  <2> SUFFICES ASSUME NEW i \in 1..Len(s) + 1, NEW j \in 1..Len(s) + 1, r[i] = r[j] PROVE i = j
    BY <1>1 DEF IsInjective
  <2>1. CASE i = Len(s) + 1 \/ j = Len(s) + 1
    BY <1>1, <1>2, <2>1
  <2>2. CASE i # Len(s) + 1 /\ j # Len(s) + 1
    <3>1. i \in DOMAIN s /\ j \in DOMAIN s
      BY <1>1, <2>2
    <3> QED
      BY <1>1, <3>1 DEF IsInjective
  <2> QED
    BY <2>1, <2>2
<1>4. ToSet(r) = ToSet(s) \cup {e}
  <2>1. \A j \in DOMAIN s : j \in DOMAIN r /\ r[j] = s[j]
    BY <1>1
  <2>2. \A j \in DOMAIN r : j \in DOMAIN s \/ j = Len(s) + 1
    BY <1>1
  <2>3. Len(s) + 1 \in DOMAIN r
    BY <1>1
  <2> QED
    BY <1>1, <2>1, <2>2, <2>3 DEF ToSet
<1> QED
  BY <1>1, <1>3, <1>4 DEF r

LEMMA FirstPagesLeave ==
  ASSUME NEW S, NEW s \in Seq(S), IsInjective(s), NEW n \in 1..Len(s)
  PROVE  /\ SubSeq(s, n + 1, Len(s)) \in Seq(S) /\ IsInjective(SubSeq(s, n + 1, Len(s)))
         /\ \A e \in ToSet(s) : e \in ToSet(SubSeq(s, n + 1, Len(s))) \/ e \in {s[i] : i \in 1..n}
<1> DEFINE r == SubSeq(s, n + 1, Len(s))
<1>1. /\ Len(s) \in Nat /\ DOMAIN s = 1..Len(s) /\ n \in Nat /\ n <= Len(s)
      /\ \A i \in n + 1..Len(s) : s[i] \in S
  OBVIOUS
<1>2. /\ r \in Seq(S) /\ Len(r) = IF n + 1 <= Len(s) THEN Len(s) - (n + 1) + 1 ELSE 0
      /\ \A i \in 1..Len(s) - (n + 1) + 1 : r[i] = s[n + 1 + i - 1]
  BY <1>1, SubSeqProperties
<1>3. r \in Seq(S) /\ DOMAIN r = 1..Len(s) - n /\ \A i \in 1..Len(s) - n : r[i] = s[n + i]
  <2>1. Len(s) - (n + 1) + 1 = Len(s) - n /\ \A i \in 1..Len(s) - n : n + 1 + i - 1 = n + i
    BY <1>1
  <2>2. Len(r) = Len(s) - n
    <3>1. CASE n + 1 <= Len(s)
      BY <1>1, <1>2, <3>1
    <3>2. CASE ~(n + 1 <= Len(s))
      <4>1. \A l \in Nat : n <= l /\ ~(n + 1 <= l) => n = l
        OBVIOUS
      <4>2. n = Len(s)
        BY <1>1, <3>2, <4>1
      <4> QED
        BY <1>1, <1>2, <3>2, <4>2
    <3> QED
      BY <3>1, <3>2
  <2> HIDE DEF r
  <2> QED
    BY <1>2, <2>1, <2>2
<1> HIDE DEF r
<1>4. IsInjective(r)
  <2> SUFFICES ASSUME NEW i \in 1..Len(s) - n, NEW j \in 1..Len(s) - n, r[i] = r[j] PROVE i = j
    BY <1>3 DEF IsInjective
  <2>0. \A l \in Nat : \A x \in 1..l - n : n + x \in 1..l
    BY <1>1
  <2>1. n + i \in DOMAIN s /\ n + j \in DOMAIN s /\ s[n + i] = s[n + j]
    BY <1>1, <1>3, <2>0
  <2>2. n + i = n + j
    BY <2>1 DEF IsInjective
  <2>3. n \in Int /\ i \in Int /\ j \in Int
    BY <1>1
  <2> QED
    BY <2>2, <2>3
<1>5. ASSUME NEW j \in DOMAIN s, ~(j \in 1..n) PROVE s[j] \in ToSet(r)
  <2>1. j - n \in DOMAIN r /\ r[j - n] = s[j]
    <3>1. j - n \in 1..Len(s) - n /\ n + (j - n) = j
      BY <1>1, <1>5
    <3> QED
      BY <1>3, <3>1
  <2> QED
    BY <2>1 DEF ToSet
<1>6. \A e \in ToSet(s) : e \in ToSet(r) \/ e \in {s[i] : i \in 1..n}
  BY <1>5 DEF ToSet
<1> QED
  BY <1>3, <1>4, <1>6 DEF r

LEMMA MemInitially == MemInit => MemInv
<1> SUFFICES ASSUME MemInit PROVE MemInv
  OBVIOUS
<1>1. MemTypeOK
  BY MemoryAssumption DEF MemInit, MemTypeOK, NoEntry, IsInjective, PoolClient
<1>2. PagesKept /\ StoresTrue
  BY DEF MemInit, PagesKept, StoresTrue, NoEntry, PoolClient
<1> QED
  BY <1>1, <1>2 DEF MemInv

\* A step of the cache, which leaves the pages alone.
LEMMA CacheStep ==
  ASSUME MemInv, UNCHANGED <<page_data, active, swapped>>,
         \A a \in Address : written'[a] = written[a],
         redis' \in [ContextKey -> 0..MaxVersion], connected' \in BOOLEAN,
         l1_store' \in [ContextKey -> [val : 0..MaxVersion, expired : BOOLEAN]],
         demoted' \subseteq [key : ContextKey, val : Version],
         written' \in [ContextKey \cup Address -> 0..MaxVersion], StoresTrue'
  PROVE  MemInv'
<1>1. MemTypeOK'
  BY DEF MemInv, MemTypeOK
<1>2. PagesKept'
  BY DEF MemInv, PagesKept
<1> QED
  BY <1>1, <1>2 DEF MemInv

\* Local entries may be dropped, and Redis given up.
LEMMA EntriesKept ==
  ASSUME StoresTrue, connected' => connected, UNCHANGED <<redis, written>>,
         \A k \in ContextKey : l1_store'[k] \in {NoEntry, l1_store[k]}
  PROVE  StoresTrue'
<1>1. NoEntry.val = 0 /\ NoEntry.expired = FALSE
  BY DEF NoEntry
<1>2. \A k \in ContextKey : l1_store'[k].val \in {0, l1_store[k].val}
  BY <1>1
<1>3. \A k \in ContextKey : l1_store'[k].expired => l1_store'[k].val # 0
  BY <1>1 DEF StoresTrue
<1> QED
  BY <1>2, <1>3 DEF StoresTrue

LEMMA CacheKeeps ==
  ASSUME MemInv,
         \/ \E k \in ContextKey, v \in Version : store_agent_context(k, v)
         \/ \E k \in ContextKey : retrieve_context(k) \/ Expires(k)
         \/ trigger_stale_demotion
  PROVE  MemInv'
<1>1. /\ redis \in [ContextKey -> 0..MaxVersion] /\ connected \in BOOLEAN
      /\ l1_store \in [ContextKey -> [val : 0..MaxVersion, expired : BOOLEAN]]
      /\ demoted \subseteq [key : ContextKey, val : Version]
      /\ written \in [ContextKey \cup Address -> 0..MaxVersion] /\ StoresTrue
      /\ MaxVersion \in Nat /\ ContextKey \cap Address = {}
  BY MemoryAssumption DEF MemInv, MemTypeOK
<1>2. ASSUME NEW k \in ContextKey, NEW v \in Version, store_agent_context(k, v) PROVE MemInv'
  <2>1. /\ UNCHANGED <<page_data, active, swapped, demoted>> /\ written' = [written EXCEPT ![k] = v]
        /\ v \in 0..MaxVersion /\ [val |-> v, expired |-> FALSE] \in [val : 0..MaxVersion, expired : BOOLEAN]
    BY <1>1, <1>2 DEF store_agent_context, Version
  <2>2. \A a \in Address : written'[a] = written[a]
    BY <1>1, <2>1
  <2>3. written' \in [ContextKey \cup Address -> 0..MaxVersion]
    BY <1>1, <2>1
  <2>4. /\ written'[k] = v
        /\ \A x \in ContextKey : x # k => written'[x] = written[x]
    BY <1>1, <2>1
  <2>5. CASE connected /\ redis' = [redis EXCEPT ![k] = v] /\ UNCHANGED <<connected, l1_store>>
    <3>1. StoresTrue'
      BY <1>1, <2>4, <2>5 DEF StoresTrue
    <3> QED
      BY <1>1, <2>1, <2>2, <2>3, <2>5, <3>1, CacheStep
  <2>6. CASE /\ connected' = FALSE /\ UNCHANGED redis
             /\ l1_store' = [l1_store EXCEPT ![k] = [val |-> v, expired |-> FALSE]]
    <3>1. StoresTrue'
      BY <1>1, <2>4, <2>6 DEF StoresTrue
    <3>2. l1_store' \in [ContextKey -> [val : 0..MaxVersion, expired : BOOLEAN]]
      BY <1>1, <2>1, <2>6
    <3> QED
      BY <1>1, <2>1, <2>2, <2>3, <2>6, <3>1, <3>2, CacheStep
  <2> QED
    BY <1>2, <2>5, <2>6 DEF store_agent_context
<1>3. NoEntry \in [val : 0..MaxVersion, expired : BOOLEAN] /\ NoEntry.val = 0
  BY <1>1 DEF NoEntry
<1>4. ASSUME NEW k \in ContextKey, retrieve_context(k) PROVE MemInv'
  <2>1. /\ UNCHANGED <<redis, page_data, active, swapped, demoted, written>>
        /\ connected' \in BOOLEAN
        /\ connected' => connected
    <3>1. \/ ~connected /\ UNCHANGED connected
          \/ connected /\ connected' = FALSE
      BY <1>4 DEF retrieve_context
    <3>2. CASE connected' = connected
      BY <1>1, <1>4, <3>2 DEF retrieve_context
    <3>3. CASE connected /\ connected' = FALSE
      BY <1>4, <3>3 DEF retrieve_context
    <3> QED
      BY <3>1, <3>2, <3>3
  <2>2. \/ l1_store' = [l1_store EXCEPT ![k] = NoEntry]
        \/ l1_store' = l1_store
    BY <1>4 DEF retrieve_context
  <2>3. /\ l1_store' \in [ContextKey -> [val : 0..MaxVersion, expired : BOOLEAN]]
        /\ \A x \in ContextKey : l1_store'[x] \in {NoEntry, l1_store[x]}
    BY <1>1, <1>3, <2>2
  <2>4. StoresTrue'
    BY <1>1, <2>1, <2>3, EntriesKept
  <2> QED
    BY <1>1, <2>1, <2>3, <2>4, CacheStep
<1>5. ASSUME NEW k \in ContextKey, Expires(k) PROVE MemInv'
  <2>1. UNCHANGED <<connected, page_data, active, swapped, demoted, written>>
    BY <1>5 DEF Expires
  <2>2. CASE redis' = [redis EXCEPT ![k] = 0] /\ UNCHANGED l1_store
    <3>1. StoresTrue' /\ redis' \in [ContextKey -> 0..MaxVersion]
      BY <1>1, <2>1, <2>2 DEF StoresTrue
    <3> QED
      BY <1>1, <2>1, <2>2, <3>1, CacheStep
  <2>3. CASE /\ l1_store[k].val # 0 /\ UNCHANGED redis
             /\ l1_store' = [l1_store EXCEPT ![k].expired = TRUE]
    <3>1. /\ l1_store' \in [ContextKey -> [val : 0..MaxVersion, expired : BOOLEAN]]
          /\ \A x \in ContextKey : /\ l1_store'[x].val = l1_store[x].val
                                   /\ x # k => l1_store'[x].expired = l1_store[x].expired
      BY <1>1, <2>3
    <3>2. StoresTrue'
      BY <1>1, <2>1, <2>3, <3>1 DEF StoresTrue
    <3> QED
      BY <1>1, <2>1, <2>3, <3>1, <3>2, CacheStep
  <2> QED
    BY <1>5, <2>2, <2>3 DEF Expires
<1>6. CASE trigger_stale_demotion
  <2>1. /\ UNCHANGED <<redis, connected, page_data, active, swapped, written>>
        /\ l1_store' = [k \in ContextKey |-> IF k \in StaleEntries THEN NoEntry ELSE l1_store[k]]
        /\ demoted' = demoted \cup {[key |-> k, val |-> l1_store[k].val] : k \in StaleEntries}
    BY <1>6 DEF trigger_stale_demotion
  <2>2. /\ l1_store' \in [ContextKey -> [val : 0..MaxVersion, expired : BOOLEAN]]
        /\ \A x \in ContextKey : l1_store'[x] \in {NoEntry, l1_store[x]}
    BY <1>1, <1>3, <2>1
  <2>3. StoresTrue'
    BY <1>1, <2>1, <2>2, EntriesKept
  <2>4. demoted' \subseteq [key : ContextKey, val : Version]
    <3>1. \A x \in StaleEntries : x \in ContextKey /\ l1_store[x].val \in Version
      BY <1>1 DEF StaleEntries, StoresTrue, Version
    <3> QED
      BY <1>1, <2>1, <3>1
  <2> QED
    BY <1>1, <2>1, <2>2, <2>3, <2>4, CacheStep
<1> QED
  BY <1>2, <1>4, <1>5, <1>6

-----------------------------------------------------------------------------
\* The pages, and what a page step leaves of the cache.
PagesTyped(data, pages, docs) ==
  /\ data \in [Address -> 0..MaxVersion]
  /\ pages \in Seq(Address) /\ IsInjective(pages)
  /\ docs \in [Address -> 0..MaxVersion]

LEMMA PageStep ==
  ASSUME MemInv, UNCHANGED <<redis, l1_store, demoted>>,
         connected' \in {connected, FALSE},
         \A k \in ContextKey : written'[k] = written[k],
         written' \in [ContextKey \cup Address -> 0..MaxVersion],
         PagesTyped(page_data', active', swapped'),
         \A a \in Address : written'[a] # 0 =>
           page_data'[a] = written'[a] /\ (a \in ToSet(active') \/ swapped'[a] = written'[a])
  PROVE  MemInv'
<1>1. MemTypeOK'
  BY DEF MemInv, MemTypeOK, PagesTyped
<1>2. PagesKept'
  BY DEF PagesKept
<1>3. StoresTrue'
  <2>1. connected' => connected
    OBVIOUS
  <2> QED
    BY <2>1 DEF MemInv, StoresTrue
<1> QED
  BY <1>1, <1>2, <1>3 DEF MemInv

\* The pages that are swapped out have their data in a document; of the others nothing
\* changes.
LEMMA SwapKeeps ==
  ASSUME MemInv, NEW out, NEW rest, SwapOut(out, rest),
         rest \in Seq(Address), IsInjective(rest),
         \A a \in ToSet(active) : a \in ToSet(rest) \/ a \in out
  PROVE  MemInv'
<1>1. /\ page_data \in [Address -> 0..MaxVersion] /\ swapped \in [Address -> 0..MaxVersion]
      /\ written \in [ContextKey \cup Address -> 0..MaxVersion] /\ PagesKept
  BY DEF MemInv, MemTypeOK
<1>2. /\ swapped' = [a \in Address |-> IF a \in out THEN page_data[a] ELSE swapped[a]]
      /\ active' = rest
      /\ UNCHANGED <<redis, connected, l1_store, page_data, demoted, written>>
  BY DEF SwapOut, SwapOutDocuments
<1>3. PagesTyped(page_data', active', swapped')
  BY <1>1, <1>2 DEF PagesTyped
<1>4. ASSUME NEW a \in Address, written[a] # 0
      PROVE  page_data[a] = written[a] /\ (a \in ToSet(active') \/ swapped'[a] = written[a])
  BY <1>1, <1>2, <1>4 DEF PagesKept
<1> QED
  BY <1>1, <1>2, <1>3, <1>4, PageStep

LEMMA AllocationKeeps ==
  ASSUME MemInv, NEW a \in Address, NEW v \in Version, allocate_page(a, v)
  PROVE  MemInv'
<1> DEFINE mine == ActiveOf(a[1])
           full == Cardinality(mine) >= MaxActive
           kept == IF full THEN RemoveAt(active, Min(mine)) ELSE active
           out  == IF full THEN {active[Min(mine)]} ELSE {}
<1>1. /\ page_data \in [Address -> 0..MaxVersion] /\ swapped \in [Address -> 0..MaxVersion]
      /\ written \in [ContextKey \cup Address -> 0..MaxVersion] /\ PagesKept
      /\ active \in Seq(Address) /\ IsInjective(active) /\ v \in 0..MaxVersion
      /\ ContextKey \cap Address = {}
  BY MemoryAssumption DEF MemInv, MemTypeOK, Version
<1>2. /\ swapped' = [b \in Address |-> IF b \in out THEN page_data[b] ELSE swapped[b]]
      /\ active' = Append(Without(kept, a), a)
      /\ page_data' = [page_data EXCEPT ![a] = v]
      /\ written' = [written EXCEPT ![a] = v]
      /\ connected' \in {connected, FALSE} /\ UNCHANGED <<redis, l1_store, demoted>>
  BY DEF allocate_page, SwapOutDocuments, SetsPageCopy
<1>3. /\ kept \in Seq(Address) /\ IsInjective(kept)
      /\ \A b \in ToSet(active) : b \in ToSet(kept) \/ b \in out
  <2>1. CASE full
    <3>1. mine \in SUBSET Nat /\ mine \subseteq DOMAIN active
      BY <1>1 DEF ActiveOf
    <3>2. mine # {}
      <4>1. SUFFICES ASSUME mine = {} PROVE FALSE
        OBVIOUS
      <4>2. Cardinality(mine) = 0
        BY <4>1, FS_EmptySet
      <4> QED
        BY <2>1, <4>2, MemoryAssumption
    <3>3. Min(mine) \in DOMAIN active
      <4> HIDE DEF mine
      <4> QED
        BY <3>1, <3>2, MinOfNaturals
    <3> HIDE DEF mine
    <3>4. /\ RemoveAt(active, Min(mine)) \in Seq(Address)
          /\ IsInjective(RemoveAt(active, Min(mine)))
          /\ ToSet(RemoveAt(active, Min(mine))) = ToSet(active) \ {active[Min(mine)]}
      BY <1>1, <3>3, ElementLeaves
    <3> QED
      BY <2>1, <3>4
  <2>2. CASE ~full
    BY <1>1, <2>2
  <2> QED
    BY <2>1, <2>2
<1> HIDE DEF kept, out
<1>4. /\ Without(kept, a) \in Seq(Address) /\ IsInjective(Without(kept, a))
      /\ ToSet(Without(kept, a)) = ToSet(kept) \ {a}
  BY <1>3, PageLeaves
<1>5. /\ active' \in Seq(Address) /\ IsInjective(active')
      /\ ToSet(active') = ToSet(Without(kept, a)) \cup {a}
  BY <1>2, <1>4, PagePutLast
<1>6. PagesTyped(page_data', active', swapped')
  BY <1>1, <1>2, <1>5 DEF PagesTyped
<1>7. /\ written' \in [ContextKey \cup Address -> 0..MaxVersion]
      /\ written'[a] = v /\ \A b \in ContextKey \cup Address : b # a => written'[b] = written[b]
  BY <1>1, <1>2
<1>8. ASSUME NEW b \in Address, written'[b] # 0
      PROVE  page_data'[b] = written'[b] /\ (b \in ToSet(active') \/ swapped'[b] = written'[b])
  <2>1. CASE b = a
    BY <1>1, <1>2, <1>5, <1>7, <2>1
  <2>2. CASE b # a
    <3>1. /\ written'[b] = written[b] /\ page_data'[b] = page_data[b]
          /\ page_data[b] = written[b]
      BY <1>1, <1>2, <1>7, <1>8, <2>2 DEF PagesKept
    <3>2. b \in ToSet(active) => b \in ToSet(active') \/ swapped'[b] = page_data[b]
      BY <1>2, <1>3, <1>4, <1>5, <2>2
    <3>3. b \notin ToSet(active) => swapped[b] = written[b] /\ swapped'[b] \in {swapped[b], page_data[b]}
      BY <1>1, <1>2, <1>8, <3>1 DEF PagesKept
    <3> QED
      BY <3>1, <3>2, <3>3
  <2> QED
    BY <2>1, <2>2
<1>9. \A k \in ContextKey : written'[k] = written[k]
  BY <1>1, <1>7
<1> QED
  BY <1>2, <1>6, <1>7, <1>8, <1>9, PageStep

LEMMA UseKeeps ==
  ASSUME MemInv, NEW a \in Address, PageHit(a) \/ PageFault(a)
  PROVE  MemInv'
<1>1. /\ page_data \in [Address -> 0..MaxVersion] /\ swapped \in [Address -> 0..MaxVersion]
      /\ written \in [ContextKey \cup Address -> 0..MaxVersion] /\ PagesKept
      /\ active \in Seq(Address) /\ IsInjective(active)
  BY DEF MemInv, MemTypeOK
<1>2. CASE PageHit(a)
  <2>1. /\ a \in ToSet(active) /\ active' = Append(Without(active, a), a)
        /\ UNCHANGED <<redis, connected, l1_store, page_data, swapped, demoted, written>>
    BY <1>2 DEF PageHit
  <2>2. /\ Without(active, a) \in Seq(Address) /\ IsInjective(Without(active, a))
        /\ ToSet(Without(active, a)) = ToSet(active) \ {a}
    BY <1>1, PageLeaves
  <2>3. /\ active' \in Seq(Address) /\ IsInjective(active')
        /\ ToSet(active') = ToSet(Without(active, a)) \cup {a}
    BY <2>1, <2>2, PagePutLast
  <2>4. ToSet(active') = ToSet(active)
    BY <2>1, <2>2, <2>3
  <2>5. PagesTyped(page_data', active', swapped')
    BY <1>1, <2>1, <2>3 DEF PagesTyped
  <2>6. \A b \in Address : written'[b] # 0 =>
          page_data'[b] = written'[b] /\ (b \in ToSet(active') \/ swapped'[b] = written'[b])
    BY <1>1, <2>1, <2>4 DEF PagesKept
  <2> QED
    BY <1>1, <2>1, <2>5, <2>6, PageStep
<1>3. CASE PageFault(a)
  <2>1. /\ a \notin ToSet(active) /\ active' = Append(active, a)
        /\ connected' \in {connected, FALSE}
        /\ UNCHANGED <<redis, l1_store, swapped, demoted, written>>
    BY <1>3 DEF PageFault, SetsPageCopy
  <2>2. PICK from \in FoundFor(a) : page_data' = [page_data EXCEPT ![a] = swapped[from]]
    BY <1>3 DEF PageFault
  <2>3. from \in Address /\ (swapped[a] # 0 => from = a)
    BY <2>2 DEF FoundFor
  <2>4. /\ active' \in Seq(Address) /\ IsInjective(active')
        /\ ToSet(active') = ToSet(active) \cup {a}
    BY <1>1, <2>1, PagePutLast
  <2>5. PagesTyped(page_data', active', swapped')
    BY <1>1, <2>1, <2>2, <2>3, <2>4 DEF PagesTyped
  <2>6. ASSUME NEW b \in Address, written[b] # 0
        PROVE  page_data'[b] = written[b] /\ (b \in ToSet(active') \/ swapped'[b] = written[b])
    <3>1. CASE b = a
      <4>1. swapped[a] = written[a] /\ from = a
        BY <1>1, <2>1, <2>3, <2>6, <3>1 DEF PagesKept
      <4> QED
        BY <1>1, <2>2, <2>4, <3>1, <4>1
    <3>2. CASE b # a
      BY <1>1, <2>1, <2>2, <2>4, <2>6, <3>2 DEF PagesKept
    <3> QED
      BY <3>1, <3>2
  <2> QED
    BY <1>1, <2>1, <2>5, <2>6, PageStep
<1> QED
  BY <1>2, <1>3

LEMMA MemKept == MemInv /\ [MemNext]_memVars => MemInv'
<1> SUFFICES ASSUME MemInv, [MemNext]_memVars PROVE MemInv'
  OBVIOUS
<1>1. active \in Seq(Address) /\ IsInjective(active)
  BY DEF MemInv, MemTypeOK
<1>2. ASSUME NEW a \in Address, swap_out_page(a) PROVE MemInv'
  <2>1. /\ Without(active, a) \in Seq(Address) /\ IsInjective(Without(active, a))
        /\ ToSet(Without(active, a)) = ToSet(active) \ {a}
    BY <1>1, PageLeaves
  <2>2. SwapOut({a}, Without(active, a))
    BY <1>2 DEF swap_out_page
  <2>3. \A b \in ToSet(active) : b \in ToSet(Without(active, a)) \/ b \in {a}
    BY <2>1
  <2> QED
    BY <2>1, <2>2, <2>3, SwapKeeps
<1>3. ASSUME NEW n \in 1..Cardinality(Address), swap_idle_processes(n) PROVE MemInv'
  <2>1. /\ n \in 1..Len(active)
        /\ SwapOut({active[i] : i \in 1..n}, SubSeq(active, n + 1, Len(active)))
    BY <1>3 DEF swap_idle_processes
  <2>2. /\ SubSeq(active, n + 1, Len(active)) \in Seq(Address)
        /\ IsInjective(SubSeq(active, n + 1, Len(active)))
        /\ \A e \in ToSet(active) :
             e \in ToSet(SubSeq(active, n + 1, Len(active))) \/ e \in {active[i] : i \in 1..n}
    BY <1>1, <2>1, FirstPagesLeave
  <2> DEFINE out == {active[i] : i \in 1..n}
             rest == SubSeq(active, n + 1, Len(active))
  <2> HIDE DEF out, rest
  <2>3. /\ SwapOut(out, rest) /\ rest \in Seq(Address) /\ IsInjective(rest)
        /\ \A e \in ToSet(active) : e \in ToSet(rest) \/ e \in out
    BY <2>1, <2>2 DEF out, rest
  <2> QED
    BY <2>3, SwapKeeps
<1>4. CASE UNCHANGED memVars
  BY <1>4 DEF memVars, MemInv, MemTypeOK, PagesKept, StoresTrue
<1> QED
  BY <1>2, <1>3, <1>4, CacheKeeps, AllocationKeeps, UseKeeps DEF MemNext

\* What was stored in either tier is what comes back: a page has the data it was
\* allocated with last through any number of swaps, faults and new allocations, the
\* limit of active pages and the searches by page_id included, and a context that is
\* read is the one stored last or is gone, over the failure of Redis and expiry.
\* (DualTierMemoryRouter and ContextPageFaultEngine, for every set of keys and pages.)
THEOREM MemoryIsKept == MemSpec => []MemoryKept
<1>1. MemInv => MemoryKept
  <2> SUFFICES ASSUME MemInv PROVE ContextCurrent
    BY DEF MemInv, MemoryKept
  <2> QED
    BY DEF MemInv, MemTypeOK, StoresTrue, ContextCurrent, Retrieved
<1> QED
  BY <1>1, MemInitially, MemKept, PTL DEF MemSpec

=============================================================================
