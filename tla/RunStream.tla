------------------------------ MODULE RunStream ------------------------------
(***************************************************************************)
(* The event stream of one run: the broker that fans its events out        *)
(* (agent_runtime/event_broker.py), the two deliveries that feed the       *)
(* broker and save the events (stream_agent_response of                    *)
(* agent_runtime/streaming.py for a chat run, ProtocolEventDelivery of     *)
(* agent_runtime/langgraph_event_delivery.py for a protocol run), the      *)
(* persist callback and the trace tables behind it                         *)
(* (services/conversation_stream_persistence.py, trace_storage.py), the    *)
(* end of the run (conversation_run_execution.py with the terminal event   *)
(* held by OwnerTerminalDelivery) and the routes that attach a client.     *)
(*                                                                         *)
(* An event is its number; End is the terminal event.  A step is what runs *)
(* between two awaits: publishing, closing and subscribing are atomic, a   *)
(* flush is a transaction of its own with a step per statement.  The run   *)
(* exhausts its executor normally; what a stop or an exception publishes   *)
(* is in ConversationRuns.                                                 *)
(***************************************************************************)
EXTENDS Naturals, FiniteSets, SequencesExt

CONSTANTS
    Scopes,       \* the instances explored: a delivery, "chat" or "protocol", with its bounds
    Clients,      \* the clients of the run
    MaxEvents,    \* bound: events before the terminal one
    RingSize,     \* buffer_size of a broker
    QueueMax,     \* listener_queue_maxsize
    FlushBatch,   \* _FLUSH_BATCH_SIZE
    RetryCap      \* _MAX_RETRY_BUFFER_EVENTS

ASSUME BoundAssumption ==
    /\ MaxEvents \in Nat /\ RingSize \in Nat \ {0} /\ QueueMax \in Nat \ {0}
    /\ FlushBatch \in Nat \ {0} /\ RetryCap \in Nat \ {0}

\* Bounds of an instance: events emitted, flushes in flight (_MAX_INFLIGHT_FLUSHES),
\* transactions that fail, attachments of a client.
ASSUME ScopesAssumption ==
    Scopes \subseteq [delivery : {"chat", "protocol"}, events : 0 .. MaxEvents,
                      inflight : Nat \ {0}, failures : Nat, attaches : Nat]

VARIABLES
    scope,      \* the instance: how the run delivers its events, and the bounds
    emitted,    \* how many events it has emitted
    phase,      \* where the owner is
    status,     \* conversation_runs.status: "running", "ended" or "stale"
    ring,       \* the buffer of the broker
    closed,     \* whether the broker is closed
    buffer,     \* the events not yet handed to a flush
    retry,      \* the events of failed flushes of a chat run
    flights,    \* the calls of the persist callback under way
    caches,     \* every set of saved ids a callback has loaded
    seen,       \* which of them seen_event_ids is, 0 for None
    hasRow,     \* whether the row of the turn exists
    rowOpen,    \* whether that row is still "streaming"
    base,       \* the events in the row itself
    chunks,     \* the chunk rows, by (seq_start, created_at)
    gaveUp,     \* whether events were dropped after the last retry, or over the cap
    failures,   \* how many transactions have failed
    client      \* what each client has received and what its attachment holds for it

brokerVars == <<ring, closed, client>>
flushVars == <<buffer, retry, flights, caches, seen, gaveUp>>
rowVars == <<hasRow, rowOpen, base, chunks>>
vars == <<scope, emitted, phase, status, brokerVars, flushVars, rowVars, failures>>

End == MaxEvents + 1
Events == 1 .. MaxEvents
Sentinel == 0              \* None in a listener queue
Marker == MaxEvents + 2    \* the stale event that follows a replay
Slots == 1 .. scope.inflight
delivery == scope.delivery
NoFlight == [step |-> "none"]

Flight ==
    {NoFlight}
    \cup [step : {"started"}, chunk : Seq(Events), final : BOOLEAN]
    \cup [step : {"loading"}, chunk : Seq(Events), final : BOOLEAN, loaded : SUBSET (1 .. End)]
    \cup [step : {"ready"}, chunk : Seq(Events), final : BOOLEAN, cache : Nat]
    \cup [step : {"written"}, chunk : Seq(Events), final : BOOLEAN, cache : Nat,
          new : Seq(Events), seq : Nat, rowSeen : BOOLEAN]

Client ==
    [mode : {"away", "opening", "marked", "live", "reading", "waiting"},
     route : {"runs", "resume", "thread"}, listed : BOOLEAN,
     replay : Seq(1 .. Marker), queue : Seq(0 .. End), last : 0 .. End, got : SUBSET (1 .. End),
     told : BOOLEAN, cut : SUBSET {"slow", "evicted", "torn"}, attaches : Nat]

\* Every field has one of the values its code writes, and no buffer is over its limit.
TypeOK ==
    /\ scope \in Scopes /\ emitted \in 0 .. scope.events
    /\ phase \in {"streaming", "flushing", "finalizing", "committing", "announcing", "closing",
                  "done", "crashed"}
    /\ status \in {"running", "ended", "stale"}
    /\ ring \in Seq(1 .. End) /\ Len(ring) <= RingSize /\ closed \in BOOLEAN
    /\ buffer \in Seq(Events) /\ retry \in Seq(Events) /\ Len(retry) <= RetryCap
    /\ flights \in [Slots -> Flight]
    /\ caches \in Seq(SUBSET (1 .. End)) /\ seen \in 0 .. Len(caches)
    /\ hasRow \in BOOLEAN /\ rowOpen \in BOOLEAN /\ base \in Seq(Events)
    /\ chunks \in Seq([seq : Nat, events : Seq(1 .. End)])
    /\ gaveUp \in BOOLEAN /\ failures \in 0 .. scope.failures
    /\ client \in [Clients -> Client]
    /\ \A c \in Clients : Len(client[c].queue) <= QueueMax

Init ==
    /\ scope \in Scopes
    /\ emitted = 0 /\ phase = "streaming" /\ status = "running"
    /\ ring = <<>> /\ closed = FALSE
    /\ buffer = <<>> /\ retry = <<>> /\ flights = [f \in Slots |-> NoFlight]
    /\ caches = <<>> /\ seen = 0
    /\ hasRow = FALSE /\ rowOpen = FALSE /\ base = <<>> /\ chunks = <<>>
    /\ gaveUp = FALSE /\ failures = 0
    /\ client = [c \in Clients |->
          [mode |-> "away", route |-> "runs", listed |-> FALSE, replay |-> <<>>, queue |-> <<>>,
           last |-> 0, got |-> {}, told |-> FALSE, cut |-> {}, attaches |-> 0]]

-----------------------------------------------------------------------------
(* The trace tables (trace_storage.py). *)

\* slice_events_after: what follows the cursor, nothing when the cursor is not there.
SliceAfter(events, after) ==
    IF after = 0 THEN events
    ELSE IF \E i \in DOMAIN events : events[i] = after
         THEN SubSeq(events, (CHOOSE i \in DOMAIN events : events[i] = after) + 1, Len(events))
         ELSE <<>>

\* Mutant of EventsAfterCursor: nothing follows a cursor that is not there.
EventsAfterKnownCursor(events, after) == SliceAfter(events, after)

\* _events_after_cursor: as above, but everything when the cursor is not there.
EventsAfterCursor(events, after) ==
    IF after \in ToSet(events) THEN SliceAfter(events, after) ELSE events

\* _dedupe_events: the first event of each id.
DedupeEvents(events) ==
    LET upTo[n \in 0 .. Len(events)] ==
            IF n = 0 THEN <<>>
            ELSE IF \E i \in 1 .. n - 1 : events[i] = events[n] THEN upTo[n - 1]
            ELSE Append(upTo[n - 1], events[n])
    IN  upTo[Len(events)]

\* load_events: the events of the row, then the chunks by (seq_start, created_at).
LoadEvents ==
    LET upTo[n \in 0 .. Len(chunks)] == IF n = 0 THEN base ELSE upTo[n - 1] \o chunks[n].events
    IN  DedupeEvents(upTo[Len(chunks)])

\* load_persisted_event_ids: the ids of the row and of its chunks.
StoredIds == ToSet(base) \cup UNION {ToSet(chunks[i].events) : i \in DOMAIN chunks}

\* The tables hold the events up to some point in order, the terminal one after them all.
Whole(events) ==
    \A i \in DOMAIN events : events[i] = i \/ (events[i] = End /\ i = emitted + 1)

\* The events of a chunk that are not known, in their order.
NotKnown(events, known) ==
    LET upTo[n \in 0 .. Len(events)] ==
            IF n = 0 THEN <<>>
            ELSE IF events[n] \in known THEN upTo[n - 1]
            ELSE Append(upTo[n - 1], events[n])
    IN  upTo[Len(events)]

\* append_events of one chunk, at the place the known ids give it (seq_start); created_at
\* is taken under the lock of the turn's row.
Stored(events, seq) ==
    LET before == Cardinality({i \in DOMAIN chunks : chunks[i].seq <= seq})
    IN  chunks' = IF events = <<>> THEN chunks
                  ELSE InsertAt(chunks, before + 1, [seq |-> seq, events |-> events])

-----------------------------------------------------------------------------
(* The broker (EventBroker, BrokerRegistry). *)

\* Mutant of Offer: a slow listener loses the event and keeps its place.
OfferOrDrop(cl, e) ==
    IF cl.listed /\ Len(cl.queue) < QueueMax THEN [cl EXCEPT !.queue = Append(@, e)] ELSE cl

\* put_nowait of publish_nowait: a full queue costs the listener its place, and its
\* oldest event makes room for the sentinel.
Offer(cl, e) ==
    IF ~ cl.listed THEN cl
    ELSE IF Len(cl.queue) < QueueMax THEN [cl EXCEPT !.queue = Append(@, e)]
    ELSE [cl EXCEPT !.listed = FALSE, !.queue = Append(Tail(@), Sentinel), !.cut = @ \cup {"slow"}]

\* publish_nowait: the ring keeps the newest events; a closed broker drops the event.
Publish(e) ==
    /\ ring' = IF closed THEN ring
               ELSE LET all == Append(ring, e)
                    IN  SubSeq(all, IF Len(all) > RingSize THEN Len(all) - RingSize + 1 ELSE 1,
                               Len(all))
    /\ client' = IF closed THEN client ELSE [c \in Clients |-> Offer(client[c], e)]
    /\ UNCHANGED closed

\* Mutant of Dismiss: the sentinel is dropped when the queue is full.
DismissIfRoom(cl) ==
    IF ~ cl.listed THEN cl
    ELSE IF Len(cl.queue) < QueueMax
         THEN [cl EXCEPT !.listed = FALSE, !.queue = Append(@, Sentinel)]
         ELSE [cl EXCEPT !.listed = FALSE]

\* The sentinel of close, for which a full queue gives up its oldest event.
Dismiss(cl) ==
    IF ~ cl.listed THEN cl
    ELSE IF Len(cl.queue) < QueueMax
         THEN [cl EXCEPT !.listed = FALSE, !.queue = Append(@, Sentinel)]
         ELSE [cl EXCEPT !.listed = FALSE, !.queue = Append(Tail(@), Sentinel),
                         !.cut = @ \cup {"slow"}]

\* close: idempotent.
CloseBroker ==
    /\ closed' = TRUE
    /\ client' = [c \in Clients |-> Dismiss(client[c])]
    /\ UNCHANGED ring

\* The registry closes a live broker: over its capacity, past its age, for a new turn of
\* the conversation, at shutdown.
ForceClose ==
    /\ ~ closed /\ phase # "crashed"
    /\ CloseBroker
    /\ UNCHANGED <<scope, emitted, phase, status, flushVars, rowVars, failures>>

-----------------------------------------------------------------------------
(* Flushing events to the tables. *)

Idle == \A f \in Slots : flights[f] = NoFlight
Started(events, isFinal) == [step |-> "started", chunk |-> events, final |-> isFinal]

\* The flights a new flush may use: one at a time in a protocol run.
FreeSlots ==
    {f \in Slots : flights[f] = NoFlight /\ (delivery = "protocol" => Idle)}

\* emit: publish, buffer, and start a flush when the batch is full or two seconds have
\* passed and a flight is free.
Emit ==
    /\ phase = "streaming" /\ emitted < scope.events
    /\ emitted' = emitted + 1
    /\ Publish(emitted')
    /\ LET pending == Append(buffer, emitted')
       IN  \/ /\ Len(pending) < FlushBatch \/ FreeSlots = {}
              /\ buffer' = pending
              /\ UNCHANGED flights
           \/ /\ FreeSlots # {}
              /\ buffer' = <<>>
              /\ flights' = [flights EXCEPT
                    ![CHOOSE f \in FreeSlots : \A g \in FreeSlots : f <= g] = Started(pending, FALSE)]
    /\ UNCHANGED <<scope, phase, status, retry, caches, seen, gaveUp, rowVars, failures>>

\* The callback opens its session; without a cache it selects the saved ids.
Begin(f) ==
    /\ flights[f].step = "started"
    /\ flights' = [flights EXCEPT ![f] =
          IF seen = 0
          THEN [step |-> "loading", chunk |-> @.chunk, final |-> @.final, loaded |-> StoredIds]
          ELSE [step |-> "ready", chunk |-> @.chunk, final |-> @.final, cache |-> seen]]
    /\ UNCHANGED <<scope, emitted, phase, status, brokerVars, buffer, retry, caches, seen,
                   gaveUp, rowVars, failures>>

\* The ids it selected become the cache, over the one another flight may have set.
Loaded(f) ==
    /\ flights[f].step = "loading"
    /\ caches' = Append(caches, flights[f].loaded)
    /\ seen' = Len(caches')
    /\ flights' = [flights EXCEPT ![f] =
          [step |-> "ready", chunk |-> @.chunk, final |-> @.final, cache |-> Len(caches')]]
    /\ UNCHANGED <<scope, emitted, phase, status, brokerVars, buffer, retry, gaveUp, rowVars,
                   failures>>

\* append_events: the new events and their place, from the ids the cache has by now.
AppendEvents(f) ==
    /\ flights[f].step = "ready"
    /\ LET known == caches[flights[f].cache]
       IN  flights' = [flights EXCEPT ![f] =
              [step |-> "written", chunk |-> @.chunk, final |-> @.final, cache |-> @.cache,
               new |-> NotKnown(@.chunk, known),
               seq |-> Cardinality(known) + 1, rowSeen |-> hasRow]]
    /\ UNCHANGED <<scope, emitted, phase, status, brokerVars, buffer, retry, seen, gaveUp,
                   rowVars, failures>>

\* Mutant of Write: the cache takes the chunk in before its commit.
WriteCaching(f) ==
    /\ AppendEvents(f)
    /\ caches' = [caches EXCEPT ![flights[f].cache] = @ \cup ToSet(flights[f].chunk)]

\* The cache does not change before the commit.
Write(f) == AppendEvents(f) /\ UNCHANGED caches

\* Two transactions inserted the row of the turn, or a chunk with the same first event.
Conflict(f) ==
    /\ flights[f].step = "written"
    /\ \/ ~ flights[f].rowSeen /\ hasRow
       \/ /\ flights[f].new # <<>>
          /\ \E i \in DOMAIN chunks : Head(chunks[i].events) = Head(flights[f].new)

CommitRow(f) ==
    /\ flights[f].step = "written" /\ ~ Conflict(f)
    /\ Stored(flights[f].new, flights[f].seq)
    /\ hasRow' = TRUE /\ rowOpen' = TRUE
    /\ UNCHANGED base

\* The commit, after which the ids join the cache this flight used.
Commit(f) ==
    /\ CommitRow(f)
    /\ caches' = [caches EXCEPT ![flights[f].cache] = @ \cup ToSet(flights[f].chunk)]
    /\ flights' = [flights EXCEPT ![f] = NoFlight]
    /\ UNCHANGED <<scope, emitted, phase, status, brokerVars, buffer, retry, seen, gaveUp,
                   failures>>

\* Mutant of Capped: the retry buffer has no limit.
Uncapped(events) == events

\* del buffer[:overflow]
Capped(events) ==
    SubSeq(events, IF Len(events) > RetryCap THEN Len(events) - RetryCap + 1 ELSE 1, Len(events))

\* Mutant of Requeued: a failed chunk goes to the end of the buffer.
RequeuedLast(chunk) == Capped(buffer \o chunk)

\* _persist_chunk puts a failed chunk before the events that came after it.
Requeued(chunk) == Capped(chunk \o buffer)

\* The callback raises: the cache is dropped and the chunk kept for a retry, in the retry
\* buffer of a chat run; the last flush is not retried.
Raised(f) ==
    LET chunk == flights[f].chunk
    IN  /\ seen' = 0
        /\ flights' = [flights EXCEPT ![f] = NoFlight]
        /\ \/ /\ flights[f].final
              /\ gaveUp' = TRUE
              /\ UNCHANGED <<buffer, retry>>
           \/ /\ ~ flights[f].final /\ delivery = "chat"
              /\ retry' = Capped(retry \o chunk)
              /\ gaveUp' = (gaveUp \/ Len(retry \o chunk) > RetryCap)
              /\ UNCHANGED buffer
           \/ /\ ~ flights[f].final /\ delivery = "protocol"
              /\ buffer' = Requeued(chunk)
              /\ gaveUp' = (gaveUp \/ Len(chunk \o buffer) > RetryCap)
              /\ UNCHANGED retry
        /\ UNCHANGED <<scope, emitted, phase, status, brokerVars, caches>>

\* A statement or the commit fails.
Fail(f) ==
    /\ flights[f] # NoFlight
    /\ \/ Conflict(f) /\ UNCHANGED failures
       \/ ~ Conflict(f) /\ failures < scope.failures /\ failures' = failures + 1
    /\ Raised(f)
    /\ UNCHANGED rowVars

\* The commit is done but its answer is lost, which raises too.
CommitUnanswered(f) ==
    /\ failures < scope.failures /\ failures' = failures + 1
    /\ CommitRow(f)
    /\ Raised(f)

-----------------------------------------------------------------------------
(* The end of the run (conversation_run_execution.py). *)

\* The executor is exhausted; its finally block begins.
EndStream ==
    /\ phase = "streaming"
    /\ phase' = "flushing"
    /\ UNCHANGED <<scope, emitted, status, brokerVars, flushVars, rowVars, failures>>

\* Mutant of Joined: the last flush waits only for a free flight.
JoinedOne == flights[1] = NoFlight

\* gather: the last flush waits for the ones under way.
Joined == Idle

\* The last flush: the retry buffer, then what is left, then on to the trace.
FinalFlush ==
    /\ phase = "flushing" /\ Joined
    /\ \/ /\ retry # <<>>
          /\ flights' = [flights EXCEPT ![1] = Started(retry, TRUE)]
          /\ retry' = <<>>
          /\ UNCHANGED <<phase, buffer>>
       \/ /\ retry = <<>> /\ buffer # <<>>
          /\ flights' = [flights EXCEPT ![1] = Started(buffer, TRUE)]
          /\ buffer' = <<>>
          /\ UNCHANGED <<phase, retry>>
       \/ /\ retry = <<>> /\ buffer = <<>>
          /\ phase' = "finalizing"
          /\ UNCHANGED <<flights, buffer, retry>>
    /\ UNCHANGED <<scope, emitted, status, brokerVars, caches, seen, gaveUp, rowVars, failures>>

\* finalize_trace: closes the row.  Without one it records the whole sink: under the run's
\* id in a chat run, whose message_start names it, under a fresh id in a protocol run.
FinalizeTrace ==
    /\ phase = "finalizing"
    /\ phase' = "committing"
    /\ \/ /\ hasRow
          /\ rowOpen' = FALSE
          /\ UNCHANGED <<hasRow, base, failures>>
       \/ /\ ~ hasRow /\ delivery = "chat" /\ emitted > 0
          /\ hasRow' = TRUE
          /\ base' = [n \in 1 .. emitted |-> n]
          /\ UNCHANGED <<rowOpen, failures>>
       \/ /\ ~ hasRow /\ (delivery = "protocol" \/ emitted = 0)
          /\ UNCHANGED <<hasRow, rowOpen, base, failures>>
       \/ /\ failures < scope.failures /\ failures' = failures + 1
          /\ UNCHANGED <<hasRow, rowOpen, base>>
    /\ UNCHANGED <<scope, emitted, status, brokerVars, flushVars, chunks>>

\* _transition: the status and the terminal event in one transaction.
CommitStatus ==
    /\ phase = "committing"
    /\ \/ /\ status' = "ended"
          /\ Stored(<<End>>, Cardinality(StoredIds) + 1)
          /\ hasRow' = TRUE /\ rowOpen' = FALSE
          /\ phase' = "announcing"
          /\ UNCHANGED failures
       \/ /\ failures < scope.failures /\ failures' = failures + 1
          /\ phase' = "closing"
          /\ UNCHANGED <<status, chunks, hasRow, rowOpen>>
    /\ UNCHANGED <<scope, emitted, brokerVars, flushVars, base>>

\* publish_terminal
Announce ==
    /\ phase = "announcing"
    /\ Publish(End)
    /\ phase' = "closing"
    /\ UNCHANGED <<scope, emitted, status, flushVars, rowVars, failures>>

\* ctx.broker.close()
Finish ==
    /\ phase = "closing"
    /\ CloseBroker
    /\ phase' = "done"
    /\ UNCHANGED <<scope, emitted, status, flushVars, rowVars, failures>>

\* The process dies: its broker, its buffers, its open transactions and its connections.
Crash ==
    /\ phase \notin {"done", "crashed"}
    /\ phase' = "crashed"
    /\ closed' = TRUE /\ ring' = <<>>
    /\ buffer' = <<>> /\ retry' = <<>> /\ flights' = [f \in Slots |-> NoFlight]
    /\ caches' = <<>> /\ seen' = 0
    /\ client' = [c \in Clients |->
          [client[c] EXCEPT !.mode = "away", !.listed = FALSE, !.replay = <<>>, !.queue = <<>>]]
    /\ UNCHANGED <<scope, emitted, status, gaveUp, rowVars, failures>>

-----------------------------------------------------------------------------
(* Attaching a client. *)

UnchangedButClient ==
    UNCHANGED <<scope, emitted, phase, status, ring, closed, flushVars, rowVars, failures>>

\* A client has not used up its attachments; it sends the id it received last.
Away(c) == client[c].mode = "away" /\ client[c].attaches < scope.attaches

\* stream_conversation_run and stream_resume find an open broker.
AttachLive(c, route) ==
    /\ Away(c) /\ delivery = "chat" /\ ~ closed
    /\ client' = [client EXCEPT ![c].mode = "opening", ![c].route = route, ![c].attaches = @ + 1]
    /\ UnchangedButClient

\* stream_conversation_run finds an active run without a broker whose heartbeat has
\* stopped: it marks the run stale and says so.
AttachStale(c) ==
    /\ Away(c) /\ delivery = "chat" /\ closed
    /\ status = "running" /\ phase \in {"done", "crashed"}
    /\ status' = "stale" /\ rowOpen' = FALSE
    /\ client' = [client EXCEPT ![c].told = TRUE, ![c].attaches = @ + 1]
    /\ UNCHANGED <<scope, emitted, phase, ring, closed, flushVars, hasRow, base, chunks,
                   failures>>

\* A replay of the tables: the history of the client notes when they are not whole.
Replaying(c, route, events) ==
    client' = [client EXCEPT
        ![c].mode = "reading", ![c].route = route, ![c].replay = events, ![c].attaches = @ + 1,
        ![c].cut = @ \cup (IF Whole(LoadEvents) THEN {} ELSE {"torn"})]

\* stream_conversation_run of a run that is over: the stored events, or the stale marker
\* when there are none.
AttachReplay(c) ==
    /\ Away(c) /\ delivery = "chat" /\ closed
    /\ \/ /\ status # "running" /\ hasRow
          /\ Replaying(c, "runs", SliceAfter(LoadEvents, client[c].last))
       \/ /\ status = "stale" /\ ~ hasRow
          /\ client' = [client EXCEPT ![c].told = TRUE, ![c].attaches = @ + 1]
    /\ UnchangedButClient

\* stream_resume without a broker: the stored events, whatever the status of the run, and
\* the marker at the end when the row is still "streaming".
AttachResume(c) ==
    /\ Away(c) /\ delivery = "chat" /\ closed /\ hasRow
    /\ Replaying(c, "resume", SliceAfter(LoadEvents, client[c].last)
                              \o (IF rowOpen THEN <<Marker>> ELSE <<>>))
    /\ UnchangedButClient

\* protocol_thread_stream_generator reads the stored events first, or none when the read fails.
AttachThread(c) ==
    /\ Away(c) /\ delivery = "protocol"
    /\ \E events \in {EventsAfterCursor(LoadEvents, client[c].last), <<>>} :
          Replaying(c, "thread", events)
    /\ UnchangedButClient

\* _broker_run_generator: a cursor the ring has dropped is announced before subscribing.
MarkGap(c) ==
    /\ client[c].mode = "opening" /\ client[c].route = "runs"
    /\ client[c].last # 0 /\ client[c].last \notin ToSet(ring)
    /\ client' = [client EXCEPT ![c].mode = "marked", ![c].told = TRUE]
    /\ UnchangedButClient

\* The published events after the client's cursor that a snapshot of the ring leaves out.
Skipped(c, snapshot) ==
    {e \in 1 .. emitted : e > client[c].last /\ \E r \in ToSet(ring) : e <= r}
        \ ToSet(snapshot)

\* The cursor an attachment subscribes from: none when its gap was announced, or when a
\* thread stream does not find it in the ring.
SubscribeFrom(c) ==
    LET last == client[c].last
    IN  IF client[c].mode = "marked" \/ (client[c].mode = "waiting" /\ last \notin ToSet(ring))
        THEN 0 ELSE last

\* subscribe: the listener and the snapshot of the ring in one step.
Subscribe(c) ==
    /\ \/ /\ client[c].mode = "opening"
          /\ client[c].route = "runs" => client[c].last = 0 \/ client[c].last \in ToSet(ring)
       \/ client[c].mode = "marked"
       \/ client[c].mode = "waiting" /\ ~ closed
    /\ LET snapshot == SliceAfter(ring, SubscribeFrom(c))
       IN  client' = [client EXCEPT
              ![c].mode = "live", ![c].listed = ~ closed, ![c].replay = snapshot,
              ![c].queue = IF closed THEN <<Sentinel>> ELSE <<>>,
              ![c].cut = @ \cup (IF Skipped(c, snapshot) # {} THEN {"evicted"} ELSE {})]
    /\ UnchangedButClient

\* A thread stream whose broker is gone polls the stored events.
Poll(c) ==
    /\ client[c].mode = "waiting" /\ closed
    /\ EventsAfterCursor(LoadEvents, client[c].last) # <<>>
    /\ client' = [client EXCEPT ![c].mode = "reading",
          ![c].replay = EventsAfterCursor(LoadEvents, client[c].last),
          ![c].cut = @ \cup (IF Whole(LoadEvents) THEN {} ELSE {"torn"})]
    /\ UnchangedButClient

Received(cl, e) ==
    IF e = Marker THEN [cl EXCEPT !.told = TRUE] ELSE [cl EXCEPT !.last = e, !.got = @ \cup {e}]

\* The attachment is over; a thread stream goes on with the next source.
Ended(cl) == [cl EXCEPT !.mode = IF cl.route = "thread" THEN "waiting" ELSE "away"]

\* The client takes the next event of the replay, then of its queue.
Receive(c) ==
    LET cl == client[c]
    IN  /\ cl.mode \in {"live", "reading"}
        /\ \/ /\ cl.replay # <<>>
              /\ client' = [client EXCEPT
                    ![c] = [Received(cl, Head(cl.replay)) EXCEPT !.replay = Tail(@)]]
           \/ /\ cl.replay = <<>> /\ cl.mode = "reading"
              /\ client' = [client EXCEPT ![c] = Ended(cl)]
           \/ /\ cl.replay = <<>> /\ cl.mode = "live" /\ cl.queue # <<>>
              /\ client' = [client EXCEPT
                    ![c] = IF Head(cl.queue) = Sentinel
                           THEN [Ended(cl) EXCEPT !.queue = <<>>]
                           ELSE [Received(cl, Head(cl.queue)) EXCEPT !.queue = Tail(@)]]
        /\ UnchangedButClient

\* The connection drops.
Disconnect(c) ==
    /\ client[c].mode # "away"
    /\ client' = [client EXCEPT ![c].mode = "away", ![c].listed = FALSE, ![c].replay = <<>>,
          ![c].queue = <<>>]
    /\ UnchangedButClient

-----------------------------------------------------------------------------
FlightStep(f) == Begin(f) \/ Loaded(f) \/ Write(f) \/ Commit(f)
OwnerStep == FinalFlush \/ FinalizeTrace \/ CommitStatus \/ Announce \/ Finish
ClientStep(c) == MarkGap(c) \/ Subscribe(c) \/ Poll(c) \/ Receive(c)

Next ==
    \/ Emit \/ EndStream \/ OwnerStep \/ ForceClose \/ Crash
    \/ \E f \in Slots : FlightStep(f) \/ Fail(f) \/ CommitUnanswered(f)
    \/ \E c \in Clients :
          \/ \E route \in {"runs", "resume"} : AttachLive(c, route)
          \/ AttachStale(c) \/ AttachReplay(c) \/ AttachResume(c) \/ AttachThread(c)
          \/ ClientStep(c) \/ Disconnect(c)

Spec == Init /\ [][Next]_vars

\* A task that is ready runs; the executor may emit for ever, or hang.
Fairness ==
    /\ WF_vars(OwnerStep)
    /\ WF_vars(\E f \in Slots : FlightStep(f))
    /\ \A c \in Clients : WF_vars(ClientStep(c))

FairSpec == Spec /\ Fairness

-----------------------------------------------------------------------------
(* Properties. *)

InOrder(events) == \A i, j \in DOMAIN events : i < j => events[i] < events[j]
Complete(c) == \A e \in client[c].got : \A d \in 1 .. emitted : d < e => d \in client[c].got

\* A client that has an event has every earlier one, over any number of attachments, or was
\* sent the stale marker; unless its queue overflowed, the ring had dropped what it asked
\* for without a check, or the tables it read were not whole.
EveryGapIsTold ==
    \A c \in Clients : Complete(c) \/ client[c].told \/ client[c].cut # {}

\* What the callback believes saved is saved, whatever flights fail or overtake each other
\* ("cache is a subset of the DB", conversation_stream_persistence.py).
CacheBehindStore == \A i \in DOMAIN caches : caches[i] \subseteq StoredIds

\* Once the last flush is over, every event is in the tables unless the run gave some up.
SavedUnlessGivenUp ==
    phase \in {"finalizing", "committing", "announcing", "closing", "done"} /\ ~ gaveUp
        => 1 .. emitted \subseteq StoredIds

\* A protocol run stores its events in the order it emitted them, however flushes fail.
ProtocolStoresInOrder == delivery = "protocol" => InOrder(LoadEvents)

\* Nothing is stored after the terminal event: no flush outlives the run.
TerminalIsLast ==
    End \in StoredIds => LoadEvents[Len(LoadEvents)] = End

\* After the broker is closed no attachment to it lasts: the sentinel always arrives.
AttachmentsEnd ==
    \A c \in Clients : closed /\ client[c].mode = "live" ~> client[c].mode # "live"

\* A thread stream that stays connected gets the terminal event of a run that ended.
ThreadCatchesUp ==
    \A c \in Clients :
        status = "ended" /\ client[c].route = "thread" /\ client[c].mode # "away"
            ~> End \in client[c].got \/ client[c].mode = "away"

\* streaming.py: the retry buffer keeps a chunk of a failed flush from disappearing silently.
RetriedChunkIsReplayed ==
    \A c \in Clients :
        End \in client[c].got /\ client[c].cut \subseteq {"torn"} /\ ~ gaveUp
            => Complete(c) \/ client[c].told

=============================================================================
