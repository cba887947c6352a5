------------------------------ MODULE EventBus ------------------------------
(* Runtime/sktb_event_bus.py: SecureKernelTelemetryBus. Agents put events on  *)
(* a bounded queue from any thread; one dispatcher thread takes them off in   *)
(* batches and sends them to Kafka; stop(), start() and flush() are called    *)
(* from other threads. An event is the number of the call that emitted it.    *)
EXTENDS Naturals, Sequences, SequencesExt

CONSTANTS MaxEvents,   \* bound on the events emitted
          QueueSize,   \* maxsize of _event_queue, 50000 in the code
          BatchSize,   \* events of a batch, 500 in the code
          MaxStops     \* bound on the calls of stop()

ASSUME BusAssumption == /\ MaxEvents \in Nat /\ MaxStops \in Nat
                        /\ QueueSize \in Nat \ {0} /\ BatchSize \in Nat \ {0}

VARIABLES
  event_queue,
  emitted,       \* history: events emitted so far
  accepted,      \* history: the events the queue took, in order
  latest,        \* the event get_latest_tensor_metrics shows, 0 for none
  dispatcher,    \* where _dispatch_loop stands, "dead" without a thread
  batch,
  next_send,     \* index in batch of the event to send
  handled,       \* history: the events counted in _published_count, in order
  sent,          \* history: the events Kafka took, in order
  producer,      \* _kafka_producer: "none", "open", or "closed" and still used
  stop_event,
  stopper,       \* where stop() stands
  stops,
  flusher        \* [pc, upTo]: flush(), and how much was accepted when it began

busVars == <<event_queue, emitted, accepted, latest, dispatcher, batch, next_send, handled,
             sent, producer, stop_event, stopper, stops, flusher>>

Ids == 1..MaxEvents

BusTypeOK ==
  /\ event_queue \in Seq(Ids) /\ Len(event_queue) <= QueueSize
  /\ emitted \in 0..MaxEvents /\ latest \in 0..MaxEvents
  /\ accepted \in Seq(Ids) /\ handled \in Seq(Ids) /\ sent \in Seq(Ids)
  /\ dispatcher \in {"top", "taking", "sending", "dead"}
  /\ batch \in Seq(Ids) /\ Len(batch) <= BatchSize
  /\ next_send \in 0..BatchSize + 1
  /\ producer \in {"none", "open", "closed"}
  /\ stop_event \in BOOLEAN
  /\ stopper \in {"idle", "joining"}
  /\ stops \in 0..MaxStops
  /\ flusher \in [pc: {"idle", "waiting", "flushed"}, upTo: 0..MaxEvents]

\* The constructor connects or does not, and starts the thread.
BusInit ==
  /\ event_queue = <<>> /\ emitted = 0 /\ accepted = <<>> /\ latest = 0
  /\ dispatcher = "top" /\ batch = <<>> /\ next_send = 0
  /\ handled = <<>> /\ sent = <<>>
  /\ producer \in {"none", "open"}
  /\ stop_event = FALSE /\ stopper = "idle" /\ stops = 0
  /\ flusher = [pc |-> "idle", upTo |-> 0]

----------------------------------------------------------------------------
\* Mutant: a full queue drops its oldest event for the new one.
PublishOverOldest ==
  /\ emitted < MaxEvents
  /\ emitted' = emitted + 1
  /\ accepted' = Append(accepted, emitted + 1)
  /\ event_queue' = Append(IF Len(event_queue) < QueueSize THEN event_queue ELSE Tail(event_queue),
                           emitted + 1)
  /\ UNCHANGED <<dispatcher, batch, next_send, handled, sent, producer, stop_event, stopper,
                 stops, flusher>>

\* publish_footprint_nowait: a full queue refuses the event.
publish_footprint_nowait ==
  /\ emitted < MaxEvents
  /\ emitted' = emitted + 1
  /\ IF Len(event_queue) < QueueSize
       THEN /\ event_queue' = Append(event_queue, emitted + 1)
            /\ accepted' = Append(accepted, emitted + 1)
       ELSE UNCHANGED <<event_queue, accepted>>
  /\ UNCHANGED <<dispatcher, batch, next_send, handled, sent, producer, stop_event, stopper,
                 stops, flusher>>

\* The wrappers emit_*: metrics are noted for their readers before they are
\* published, and stay noted if the queue is full.
EmitLog == publish_footprint_nowait /\ UNCHANGED latest
EmitMetrics == publish_footprint_nowait /\ latest' = emitted + 1

----------------------------------------------------------------------------
(* _dispatch_loop                                                            *)
DispatcherKeeps == UNCHANGED <<emitted, accepted, latest, producer, stop_event, stopper, stops, flusher>>

\* The head of the loop: end, or wait for a first event. A wait that times out
\* comes back here.
TakeFirst ==
  /\ dispatcher = "top"
  /\ \/ stop_event /\ dispatcher' = "dead" /\ UNCHANGED <<event_queue, batch>>
     \/ /\ ~stop_event /\ event_queue # <<>>
        /\ batch' = <<Head(event_queue)>>
        /\ event_queue' = Tail(event_queue)
        /\ dispatcher' = "taking"
  /\ UNCHANGED <<next_send, handled, sent>> /\ DispatcherKeeps

TakeMore ==
  /\ dispatcher = "taking"
  /\ IF event_queue # <<>> /\ Len(batch) < BatchSize
       THEN /\ batch' = Append(batch, Head(event_queue))
            /\ event_queue' = Tail(event_queue)
            /\ UNCHANGED <<dispatcher, next_send>>
       ELSE /\ dispatcher' = "sending"
            /\ next_send' = IF producer = "none" THEN Len(batch) + 1 ELSE 1
            /\ UNCHANGED <<event_queue, batch>>
  /\ UNCHANGED <<handled, sent>> /\ DispatcherKeeps

\* Mutant: an event that cannot be sent is tried again for ever.
SendAgain ==
  /\ dispatcher = "sending" /\ next_send <= Len(batch)
  /\ producer = "open"
  /\ sent' = Append(sent, batch[next_send])
  /\ next_send' = next_send + 1
  /\ UNCHANGED <<event_queue, dispatcher, batch, handled>> /\ DispatcherKeeps

\* send() may raise at any time, and does once the producer is closed: the rest
\* of the batch is not sent.
SendEvent ==
  /\ dispatcher = "sending" /\ next_send <= Len(batch)
  /\ \/ /\ producer = "open"
        /\ sent' = Append(sent, batch[next_send])
        /\ next_send' = next_send + 1
     \/ /\ next_send' = Len(batch) + 1
        /\ UNCHANGED sent
  /\ UNCHANGED <<event_queue, dispatcher, batch, handled>> /\ DispatcherKeeps

\* Sent or not, the whole batch is counted as published.
FinishBatch ==
  /\ dispatcher = "sending" /\ next_send = Len(batch) + 1
  /\ handled' = handled \o batch
  /\ batch' = <<>> /\ next_send' = 0
  /\ dispatcher' = "top"
  /\ UNCHANGED <<event_queue, sent>> /\ DispatcherKeeps

----------------------------------------------------------------------------
(* start, stop and flush                                                     *)
\* A thread that is still alive is left alone, with its stop event set.
BusStart ==
  /\ dispatcher = "dead"
  /\ stop_event' = FALSE
  /\ dispatcher' = "top"
  /\ UNCHANGED <<event_queue, emitted, accepted, latest, batch, next_send, handled, sent,
                 producer, stopper, stops, flusher>>

StopCall ==
  /\ stopper = "idle" /\ stops < MaxStops
  /\ stops' = stops + 1
  /\ stop_event' = TRUE
  /\ stopper' = "joining"
  /\ UNCHANGED <<event_queue, emitted, accepted, latest, dispatcher, batch, next_send, handled,
                 sent, producer, flusher>>

\* join() returns after two seconds whether or not the thread has ended; then the
\* producer is closed, and stays in _kafka_producer.
StopCloses ==
  /\ stopper = "joining"
  /\ stopper' = "idle"
  /\ producer' = IF producer = "none" THEN "none" ELSE "closed"
  /\ UNCHANGED <<event_queue, emitted, accepted, latest, dispatcher, batch, next_send, handled,
                 sent, stop_event, stops, flusher>>

\* flush() polls until the queue is empty; giving up at the deadline is the same
\* as never having called it.
FlushCall ==
  /\ flusher.pc # "waiting"
  /\ flusher' = [pc |-> "waiting", upTo |-> Len(accepted)]
  /\ UNCHANGED <<event_queue, emitted, accepted, latest, dispatcher, batch, next_send, handled,
                 sent, producer, stop_event, stopper, stops>>

FlushReturns ==
  /\ flusher.pc = "waiting"
  /\ event_queue = <<>>
  /\ flusher' = [flusher EXCEPT !.pc = "flushed"]
  /\ UNCHANGED <<event_queue, emitted, accepted, latest, dispatcher, batch, next_send, handled,
                 sent, producer, stop_event, stopper, stops>>

Dispatch == TakeFirst \/ TakeMore \/ SendEvent \/ FinishBatch

BusNext == EmitLog \/ EmitMetrics \/ Dispatch \/ BusStart \/ StopCall \/ StopCloses
           \/ FlushCall \/ FlushReturns

\* The operating system runs the dispatcher thread.
BusSpec == BusInit /\ [][BusNext]_busVars /\ WF_busVars(Dispatch)

----------------------------------------------------------------------------
\* Between a caller that was told TRUE and the counter of published events
\* nothing is lost, doubled or overtaken, across batches, stops and starts; and
\* Kafka got of it what it took, in the same order.
NothingLost ==
  /\ accepted = handled \o batch \o event_queue
  /\ \A i, j \in 1..Len(sent): i < j => sent[i] < sent[j]
  /\ ToSet(sent) \subseteq ToSet(handled) \cup ToSet(batch)

\* When flush() returns because the queue is empty, no event accepted before the
\* call waits any more: it has been handled or is in the batch in hand, which
\* flush() does not wait for.
FlushedTaken ==
  flusher.pc = "flushed" => Len(handled) + Len(batch) >= flusher.upTo

\* What the bus took is accounted for, by its counter and to the caller of flush():
\* both parts, on states of the right type.
EventsAccounted == BusTypeOK /\ NothingLost /\ FlushedTaken

\* An accepted event is handled in the end, unless somebody stops the bus.
AcceptedHandled ==
  \A n \in Ids: n \in ToSet(accepted) /\ ~stop_event ~> n \in ToSet(handled) \/ stop_event

=============================================================================
