---------------------------- MODULE RunStream_proof ----------------------------
(***************************************************************************)
(* Theorems about RunStream, for any scopes and clients, any sizes of the  *)
(* ring, the queues, the batches and the retry buffer, and any number of   *)
(* events.                                                                 *)
(***************************************************************************)
EXTENDS RunStream, ListFacts

-----------------------------------------------------------------------------
(* The invariant *)

\* The flushes under way, and the phases in which the terminal event may be out.
Flying == {f \in Slots : flights[f] # NoFlight}
PastEnd == {"announcing", "closing", "done", "crashed"}

\* The tables hold emitted events, the terminal one in a last chunk of its own, and no chunk
\* has a place beyond the one a flush that knows them all would get.
TableInv ==
    /\ StoredIds \subseteq 1 .. emitted \cup {End}
    /\ ~ hasRow => base = <<>> /\ chunks = <<>>
    /\ End \in StoredIds => phase \in PastEnd
    /\ \A i \in DOMAIN chunks :
           End \in ToSet(chunks[i].events) => i = Len(chunks) /\ chunks[i].events = <<End>>
    /\ \A i \in DOMAIN chunks : chunks[i].seq <= Cardinality(StoredIds) + 1

\* What a flush believes saved is saved.
FlightInv(f) ==
    /\ ToSet(flights[f].chunk) \subseteq 1 .. emitted
    /\ flights[f].step = "loading" => flights[f].loaded \subseteq StoredIds
    /\ flights[f].step \in {"ready", "written"} => flights[f].cache \in DOMAIN caches
    /\ flights[f].step = "written" =>
           /\ ToSet(flights[f].new) \subseteq ToSet(flights[f].chunk)
           /\ ToSet(flights[f].chunk) \subseteq ToSet(flights[f].new) \cup StoredIds
           /\ flights[f].seq <= Cardinality(StoredIds) + 1

\* Buffers hold emitted events, and nothing is flushed once the trace is closed.
FlushInv ==
    /\ \A f \in Flying : FlightInv(f)
    /\ ToSet(buffer) \subseteq 1 .. emitted /\ ToSet(retry) \subseteq 1 .. emitted
    /\ phase \notin {"streaming", "flushing"} => Flying = {} /\ buffer = <<>> /\ retry = <<>>

\* An event is in the tables, in a buffer or in a flush, unless the run gave some up.
KeptInv ==
    phase # "crashed" /\ ~ gaveUp =>
        \A e \in 1 .. emitted :
            e \in StoredIds \cup ToSet(buffer) \cup ToSet(retry)
            \/ \E f \in Flying : e \in ToSet(flights[f].chunk)

\* A protocol run has one flush at a time, which knows everything that is saved; what it
\* and the buffer hold is in order, and follows what is saved unless it is saved itself.
AheadOfStore(events) == \A e \in ToSet(events) : e \in StoredIds \/ \A s \in StoredIds : s < e

KnowsStore(f) ==
    /\ flights[f].step = "loading" => flights[f].loaded = StoredIds
    /\ flights[f].step \in {"ready", "written"} =>
           flights[f].cache = seen /\ caches[seen] = StoredIds
    /\ flights[f].step = "written" =>
           /\ Ascending(flights[f].new)
           /\ ToSet(flights[f].new) \cap StoredIds = {}
           /\ flights[f].seq = Cardinality(StoredIds) + 1

OrderedFlight(f) ==
    /\ \A g \in Flying : g = f
    /\ Ascending(flights[f].chunk) /\ AheadOfStore(flights[f].chunk)
    /\ \A e \in ToSet(flights[f].chunk), d \in ToSet(buffer) : e < d
    /\ KnowsStore(f)

ProtocolInv ==
    delivery = "protocol" =>
        /\ base = <<>> /\ retry = <<>>
        /\ \A f \in Flying : OrderedFlight(f)
        /\ Ascending(buffer) /\ AheadOfStore(buffer)
        /\ phase \in {"streaming", "flushing"} /\ seen # 0 => caches[seen] = StoredIds
        /\ \A i \in DOMAIN chunks : Ascending(chunks[i].events)
        /\ \A i, j \in DOMAIN chunks : i < j =>
               \A e \in ToSet(chunks[i].events), d \in ToSet(chunks[j].events) : e < d

StoreInv == TableInv /\ FlushInv /\ KeptInv /\ CacheBehindStore /\ ProtocolInv

\* The ring holds the newest events in order, up to the last one while the broker is open.
RingInv ==
    /\ Ascending(ring) /\ ToSet(ring) \subseteq 1 .. emitted \cup {End}
    /\ End \in ToSet(ring) => phase \in {"closing", "done"}
    /\ ~ closed /\ emitted > 0 => \E r \in ToSet(ring) : emitted <= r
    /\ phase \in {"done", "crashed"} => closed

\* Only an attachment to the broker holds a place and a queue.
ClientShape(cl) ==
    /\ cl.listed => ~ closed /\ Sentinel \notin ToSet(cl.queue)
    /\ cl.mode # "live" => ~ cl.listed /\ cl.queue = <<>>
    /\ cl.mode \notin {"live", "reading"} => cl.replay = <<>>
    /\ \A e \in cl.got \cup ToSet(cl.replay) \cup ToSet(cl.queue) :
           \/ e \in 1 .. emitted \/ e \in {Sentinel, Marker}
           \/ e = End /\ phase \in PastEnd

\* What precedes an event that waits for a client was received, or waits before it.
Follows(cl) ==
    /\ \A e \in cl.got, d \in 1 .. emitted : d < e => d \in cl.got
    /\ cl.last \in cl.got \cup {0}
    /\ \A i \in DOMAIN cl.replay, d \in 1 .. emitted :
           d < cl.replay[i] /\ cl.replay[i] # Marker =>
               d \in cl.got \/ \E j \in 1 .. i - 1 : cl.replay[j] = d
    /\ \A i \in DOMAIN cl.queue, d \in 1 .. emitted :
           d < cl.queue[i] =>
               d \in cl.got \cup ToSet(cl.replay) \/ \E j \in 1 .. i - 1 : cl.queue[j] = d
    /\ cl.listed =>
           \A d \in 1 .. emitted : d \in cl.got \cup ToSet(cl.replay) \cup ToSet(cl.queue)

-----------------------------------------------------------------------------
(* Reading the tables *)

\* The filter of append_events leaves the unknown events, in their order.
LEMMA NotKnownFacts ==
    ASSUME NEW S, NEW events \in Seq(S), NEW known
    PROVE  /\ NotKnown(events, known) \in Seq(S)
           /\ ToSet(NotKnown(events, known)) = ToSet(events) \ known
           /\ S = Nat /\ Ascending(events) => Ascending(NotKnown(events, known))
<1> DEFINE N == Len(events)
           Rec(h) == [n \in 0 .. N |->
                         IF n = 0 THEN <<>>
                         ELSE IF events[n] \in known THEN h[n - 1]
                         ELSE Append(h[n - 1], events[n])]
           piece == [n \in 1 .. N |-> IF events[n] \in known THEN <<>> ELSE <<events[n]>>]
<1>1. N \in Nat /\ DOMAIN events = 1 .. N /\ <<>> \in Seq(S) /\ \A n \in 1 .. N : events[n] \in S
  BY LenProperties, ElementOfSeq
<1>2. \A n \in 1 .. N : piece[n] = IF events[n] \in known THEN <<>> ELSE <<events[n]>>
  OBVIOUS
<1>3. \A n \in 1 .. N : piece[n] \in Seq(S)
  <2> TAKE n \in 1 .. N
  <2>1. <<events[n]>> \in Seq(S)
    BY <1>1, OneElement
  <2> QED BY <1>1, <1>2, <2>1
<1>4. PICK g \in [0 .. N -> Seq(S)] : Grows(S, g, <<>>, piece, N)
  <2> HIDE DEF piece, N
  <2> QED BY <1>1, <1>3, GrowthExists
<1>5. g[0] = <<>>
  BY <1>4 DEF Grows
<1>6. ASSUME NEW n \in 0 .. N, n # 0
      PROVE  g[n] = IF events[n] \in known THEN g[n - 1] ELSE Append(g[n - 1], events[n])
  <2>1. n \in 1 .. N /\ n - 1 \in 0 .. N
    BY <1>1, <1>6
  <2>2. g[n] = g[n - 1] \o piece[n]
    BY <1>4, <2>1 DEF Grows
  <2>3. g[n - 1] \in Seq(S) /\ events[n] \in S
    BY <1>1, <1>4, <2>1
  <2>4. g[n - 1] \o <<>> = g[n - 1]
    BY <2>3, ConcatEmptySeq
  <2>5. Append(g[n - 1], events[n]) = g[n - 1] \o <<events[n]>>
    BY <2>3, AppendIsConcat
  <2> QED BY <1>2, <2>1, <2>2, <2>4, <2>5
<1>7. PICK h : h = Rec(h) /\ NotKnown(events, known) = h[N]
  <2> DEFINE h == CHOOSE f : f = Rec(f)
  <2>1. g = Rec(g)
    BY <1>4, <1>5, <1>6
  <2>2. h = Rec(h)
    BY <2>1
  <2>3. NotKnown(events, known) = h[N]
    BY DEF NotKnown
  <2> HIDE DEF h
  <2> QED BY <2>2, <2>3
<1>8. \A n \in 0 .. N : h[n] = g[n]
  <2> DEFINE P == {n \in 0 .. N : h[n] = g[n]}
  <2>1. 0 \in P
    BY <1>1, <1>5, <1>7
  <2>2. ASSUME NEW n \in 1 .. N, n - 1 \in P PROVE n \in P
    <3>1. n \in 0 .. N /\ n # 0 /\ h[n - 1] = g[n - 1]
      BY <1>1, <2>2
    <3>2. h[n] = IF events[n] \in known THEN h[n - 1] ELSE Append(h[n - 1], events[n])
      BY <1>7, <3>1
    <3>3. h[n] = g[n]
      BY <1>6, <3>1, <3>2
    <3> QED BY <3>1, <3>3
  <2>3. 0 .. N \subseteq P
    <3> HIDE DEF P, N
    <3> QED BY <1>1, <2>1, <2>2, Climb
  <2> QED BY <2>3
<1>9. NotKnown(events, known) = g[N]
  BY <1>1, <1>7, <1>8
<1>10. Sieves(S, events, g, piece)
  <2> HIDE DEF piece
  <2> QED BY <1>2, <1>4 DEF Sieves
<1>11. ASSUME S = Nat, Ascending(events) PROVE Ascending(NotKnown(events, known))
  <2>1. Sieves(Nat, events, g, piece) /\ N \in 0 .. Len(events)
    BY <1>1, <1>10, <1>11
  <2>2. Ascending(g[N])
    <3> HIDE DEF piece, N
    <3> QED BY <1>11, <2>1, SieveAscending
  <2> QED BY <1>9, <2>2
<1>12. /\ g[N] \in Seq(S) /\ ToSet(g[N]) = ElementsTo(piece, N)
       /\ \A e \in ElementsTo(piece, N) : \E m \in 1 .. N : e = events[m]
  <2>1. N \in 0 .. Len(events)
    BY <1>1
  <2> HIDE DEF piece, N
  <2> QED BY <1>10, <2>1, SieveElements
<1>13. \A n \in 1 .. N : \A e : e \in ToSet(piece[n]) <=> ~ (events[n] \in known) /\ e = events[n]
  <2> TAKE n \in 1 .. N
  <2> TAKE e
  <2>1. <<events[n]>> \in Seq(S) /\ ToSet(<<events[n]>>) = {events[n]} /\ ToSet(<<>>) = {}
    BY <1>1, OneElement DEF ToSet
  <2> HIDE DEF piece
  <2> QED BY <1>2, <2>1
<1> HIDE DEF piece
<1>14. ASSUME NEW e \in ToSet(events) \ known PROVE e \in ElementsTo(piece, N)
  <2>1. PICK n \in 1 .. N : e = events[n]
    BY <1>1 DEF ToSet
  <2> QED BY <1>13, <2>1 DEF ElementsTo
<1>15. ASSUME NEW e \in ElementsTo(piece, N) PROVE e \in ToSet(events) \ known
  <2>1. PICK n \in 1 .. N : e \in ToSet(piece[n])
    BY DEF ElementsTo
  <2> QED BY <1>1, <1>13, <2>1 DEF ToSet
<1> QED BY <1>9, <1>11, <1>12, <1>14, <1>15

\* _dedupe_events loses no id, keeps the order, and ends with an event met for the first time.
LEMMA DedupeFacts ==
    ASSUME NEW S, NEW events \in Seq(S)
    PROVE  /\ DedupeEvents(events) \in Seq(S)
           /\ ToSet(DedupeEvents(events)) = ToSet(events)
           /\ S = Nat /\ Ascending(events) => Ascending(DedupeEvents(events))
           /\ Len(events) # 0 /\ (\A i \in 1 .. Len(events) - 1 : events[i] # events[Len(events)]) =>
                 /\ Len(DedupeEvents(events)) # 0
                 /\ DedupeEvents(events)[Len(DedupeEvents(events))] = events[Len(events)]
<1> DEFINE N == Len(events)
           Rec(h) == [n \in 0 .. N |->
                         IF n = 0 THEN <<>>
                         ELSE IF \E i \in 1 .. n - 1 : events[i] = events[n] THEN h[n - 1]
                         ELSE Append(h[n - 1], events[n])]
           piece == [n \in 1 .. N |->
                         IF \E i \in 1 .. n - 1 : events[i] = events[n] THEN <<>> ELSE <<events[n]>>]
<1>1. N \in Nat /\ DOMAIN events = 1 .. N /\ <<>> \in Seq(S) /\ \A n \in 1 .. N : events[n] \in S
  BY LenProperties, ElementOfSeq
<1>2. \A n \in 1 .. N : piece[n] = IF \E i \in 1 .. n - 1 : events[i] = events[n] THEN <<>> ELSE <<events[n]>>
  OBVIOUS
<1>3. \A n \in 1 .. N : piece[n] \in Seq(S)
  <2> TAKE n \in 1 .. N
  <2>1. <<events[n]>> \in Seq(S)
    BY <1>1, OneElement
  <2> QED BY <1>1, <1>2, <2>1
<1>4. PICK g \in [0 .. N -> Seq(S)] : Grows(S, g, <<>>, piece, N)
  <2> HIDE DEF piece, N
  <2> QED BY <1>1, <1>3, GrowthExists
<1>5. g[0] = <<>>
  BY <1>4 DEF Grows
<1>6. ASSUME NEW n \in 0 .. N, n # 0
      PROVE  g[n] = IF \E i \in 1 .. n - 1 : events[i] = events[n] THEN g[n - 1]
                     ELSE Append(g[n - 1], events[n])
  <2>1. n \in 1 .. N /\ n - 1 \in 0 .. N
    BY <1>1, <1>6
  <2>2. g[n] = g[n - 1] \o piece[n]
    BY <1>4, <2>1 DEF Grows
  <2>3. g[n - 1] \in Seq(S) /\ events[n] \in S
    BY <1>1, <1>4, <2>1
  <2>4. g[n - 1] \o <<>> = g[n - 1]
    BY <2>3, ConcatEmptySeq
  <2>5. Append(g[n - 1], events[n]) = g[n - 1] \o <<events[n]>>
    BY <2>3, AppendIsConcat
  <2> QED BY <1>2, <2>1, <2>2, <2>4, <2>5
<1>7. PICK h : h = Rec(h) /\ DedupeEvents(events) = h[N]
  <2> DEFINE h == CHOOSE f : f = Rec(f)
  <2>1. g = Rec(g)
    BY <1>4, <1>5, <1>6
  <2>2. h = Rec(h)
    BY <2>1
  <2>3. DedupeEvents(events) = h[N]
    BY DEF DedupeEvents
  <2> HIDE DEF h
  <2> QED BY <2>2, <2>3
<1>8. \A n \in 0 .. N : h[n] = g[n]
  <2> DEFINE P == {n \in 0 .. N : h[n] = g[n]}
  <2>1. 0 \in P
    BY <1>1, <1>5, <1>7
  <2>2. ASSUME NEW n \in 1 .. N, n - 1 \in P PROVE n \in P
    <3>1. n \in 0 .. N /\ n # 0 /\ h[n - 1] = g[n - 1]
      BY <1>1, <2>2
    <3>2. h[n] = IF \E i \in 1 .. n - 1 : events[i] = events[n] THEN h[n - 1] ELSE Append(h[n - 1], events[n])
      BY <1>7, <3>1
    <3>3. h[n] = g[n]
      BY <1>6, <3>1, <3>2
    <3> QED BY <3>1, <3>3
  <2>3. 0 .. N \subseteq P
    <3> HIDE DEF P, N
    <3> QED BY <1>1, <2>1, <2>2, Climb
  <2> QED BY <2>3
<1>9. DedupeEvents(events) = g[N]
  BY <1>1, <1>7, <1>8
<1>10. Sieves(S, events, g, piece)
  <2> HIDE DEF piece
  <2> QED BY <1>2, <1>4 DEF Sieves
<1>11. ASSUME S = Nat, Ascending(events) PROVE Ascending(DedupeEvents(events))
  <2>1. Sieves(Nat, events, g, piece) /\ N \in 0 .. Len(events)
    BY <1>1, <1>10, <1>11
  <2>2. Ascending(g[N])
    <3> HIDE DEF piece, N
    <3> QED BY <1>11, <2>1, SieveAscending
  <2> QED BY <1>9, <2>2
<1>12. /\ g[N] \in Seq(S) /\ ToSet(g[N]) = ElementsTo(piece, N)
       /\ \A e \in ElementsTo(piece, N) : \E m \in 1 .. N : e = events[m]
  <2>1. N \in 0 .. Len(events)
    BY <1>1
  <2> HIDE DEF piece, N
  <2> QED BY <1>10, <2>1, SieveElements
<1>13. \A n \in 1 .. N : \A e :
           e \in ToSet(piece[n]) <=> ~ (\E i \in 1 .. n - 1 : events[i] = events[n]) /\ e = events[n]
  <2> TAKE n \in 1 .. N
  <2> TAKE e
  <2>1. <<events[n]>> \in Seq(S) /\ ToSet(<<events[n]>>) = {events[n]} /\ ToSet(<<>>) = {}
    BY <1>1, OneElement DEF ToSet
  <2> HIDE DEF piece
  <2> QED BY <1>2, <2>1
<1> HIDE DEF piece
<1>14. ASSUME NEW e \in ToSet(events) PROVE e \in ElementsTo(piece, N)
  <2> DEFINE places == {n \in 1 .. N : events[n] = e}
  <2>1. places \in SUBSET Nat /\ places # {}
    BY <1>1 DEF ToSet
  <2>2. PICK n \in places : \A m \in places : n <= m
    BY <2>1, SmallestOf
  <2>3. ~ (\E i \in 1 .. n - 1 : events[i] = events[n])
    BY <1>1, <2>2
  <2> QED BY <1>13, <2>2, <2>3 DEF ElementsTo
<1>15. ASSUME NEW e \in ElementsTo(piece, N) PROVE e \in ToSet(events)
  <2>1. PICK n \in 1 .. N : e = events[n]
    BY <1>12
  <2> QED BY <1>1, <2>1 DEF ToSet
<1>16. ASSUME N # 0, \A i \in 1 .. N - 1 : events[i] # events[N]
       PROVE  /\ Len(DedupeEvents(events)) # 0
              /\ DedupeEvents(events)[Len(DedupeEvents(events))] = events[N]
  <2>1. N \in 0 .. N /\ N - 1 \in 0 .. N /\ N \in 1 .. N
    BY <1>1, <1>16
  <2>2. g[N] = Append(g[N - 1], events[N])
    BY <1>6, <1>16, <2>1
  <2>3. g[N - 1] \in Seq(S) /\ events[N] \in S
    BY <1>1, <1>4, <2>1
  <2>4. Len(g[N]) = Len(g[N - 1]) + 1 /\ g[N][Len(g[N - 1]) + 1] = events[N] /\ Len(g[N - 1]) \in Nat
    BY <2>2, <2>3, AppendProperties, LenProperties
  <2> QED BY <1>9, <2>4
<1> QED BY <1>9, <1>11, <1>12, <1>14, <1>15, <1>16

\* The sizes are numbers, and an event or the terminal one is a positive number.
LEMMA Sizes ==
    /\ MaxEvents \in Nat /\ End \in Nat /\ Marker \in Nat /\ Events \subseteq 1 .. End
    /\ 1 .. End \subseteq Nat /\ Events \subseteq Nat /\ End \notin Events /\ Marker > End /\ End > 0
  BY BoundAssumption DEF End, Events, Marker

\* load_events returns what the row and its chunks hold: in order when they are, and ending
\* with the terminal event when only the last chunk holds it.
LEMMA LoadFacts ==
    ASSUME base \in Seq(Events), chunks \in Seq([seq : Nat, events : Seq(1 .. End)])
    PROVE  /\ LoadEvents \in Seq(1 .. End)
           /\ ToSet(LoadEvents) = StoredIds
           /\ /\ base = <<>>
              /\ \A i \in DOMAIN chunks : Ascending(chunks[i].events)
              /\ \A i, j \in DOMAIN chunks : i < j =>
                    \A e \in ToSet(chunks[i].events), d \in ToSet(chunks[j].events) : e < d
              => Ascending(LoadEvents)
           /\ /\ chunks # <<>> /\ chunks[Len(chunks)].events = <<End>>
              /\ \A i \in DOMAIN chunks : End \in ToSet(chunks[i].events) => i = Len(chunks)
              => LoadEvents # <<>> /\ LoadEvents[Len(LoadEvents)] = End
<1> DEFINE N == Len(chunks)
           S == 1 .. End
           Rec(h) == [n \in 0 .. N |-> IF n = 0 THEN base ELSE h[n - 1] \o chunks[n].events]
           piece == [n \in 1 .. N |-> chunks[n].events]
<1>1. /\ N \in Nat /\ DOMAIN chunks = 1 .. N
      /\ \A n \in 1 .. N : chunks[n] \in [seq : Nat, events : Seq(S)]
  BY LenProperties, ElementOfSeq
<1>2. \A n \in 1 .. N : chunks[n].events \in Seq(S) /\ piece[n] = chunks[n].events
  BY <1>1
<1>3. base \in Seq(S)
  BY Sizes, SeqMonotonic
<1>4. PICK g : g \in [0 .. N -> Seq(S)] /\ Grows(S, g, base, piece, N)
  <2> HIDE DEF piece, N, S
  <2> QED BY <1>1, <1>2, <1>3, GrowthExists
<1>5. g[0] = base /\ \A n \in 1 .. N : g[n] = g[n - 1] \o chunks[n].events
  <2>1. g[0] = base /\ \A n \in 1 .. N : g[n] = g[n - 1] \o piece[n]
    <3> HIDE DEF piece, S
    <3> QED BY <1>4 DEF Grows
  <2> HIDE DEF piece
  <2> QED BY <1>2, <2>1
<1>6. PICK h : h = Rec(h) /\ LoadEvents = DedupeEvents(h[N])
  <2> DEFINE h == CHOOSE f : f = Rec(f)
  <2>1. g = Rec(g)
    <3> HIDE DEF S, N
    <3>1. \A n \in 0 .. N : g[n] = IF n = 0 THEN base ELSE g[n - 1] \o chunks[n].events
      <4> TAKE n \in 0 .. N
      <4>1. n = 0 \/ n \in 1 .. N
        BY <1>1
      <4>2. CASE n = 0
        BY <1>5, <4>2
      <4>3. CASE n \in 1 .. N
        <5>1. g[n] = g[n - 1] \o chunks[n].events
          BY <1>5, <4>3
        <5>2. n # 0
          BY <1>1, <4>3
        <5> QED BY <5>1, <5>2
      <4> QED BY <4>1, <4>2, <4>3
    <3> QED BY <1>4, <3>1
  <2>2. h = Rec(h)
    BY <2>1
  <2>3. LoadEvents = DedupeEvents(h[N])
    BY DEF LoadEvents
  <2> HIDE DEF h
  <2> QED BY <2>2, <2>3
<1>7. \A n \in 0 .. N : h[n] = g[n]
  <2> DEFINE P == {n \in 0 .. N : h[n] = g[n]}
  <2>1. 0 \in P
    BY <1>1, <1>5, <1>6
  <2>2. ASSUME NEW n \in 1 .. N, n - 1 \in P PROVE n \in P
    <3>1. n \in 0 .. N /\ n # 0 /\ h[n - 1] = g[n - 1]
      BY <1>1, <2>2
    <3>2. h[n] = h[n - 1] \o chunks[n].events
      BY <1>6, <3>1
    <3>3. h[n] = g[n]
      BY <1>5, <3>1, <3>2
    <3> QED BY <3>1, <3>3
  <2>3. 0 .. N \subseteq P
    <3> HIDE DEF P, N
    <3> QED BY <1>1, <2>1, <2>2, Climb
  <2> QED BY <2>3
<1> HIDE DEF piece, S, N
<1>8. N \in 0 .. N /\ LoadEvents = DedupeEvents(g[N])
  BY <1>1, <1>6, <1>7
<1>a. ASSUME NEW k \in 0 .. N
      PROVE  g[k] \in Seq(S) /\ ToSet(g[k]) = ToSet(base) \cup ElementsTo(piece, k)
  <2>1. Grows(S, g, base, piece, N)
    BY <1>4
  <2> QED BY <2>1, GrowthElements
<1>9. g[N] \in Seq(S) /\ ToSet(g[N]) = ToSet(base) \cup ElementsTo(piece, N)
  BY <1>8, <1>a
<1>10. ToSet(base) \cup ElementsTo(piece, N) = StoredIds
  <2>1. {ToSet(piece[m]) : m \in 1 .. N} = {ToSet(chunks[i].events) : i \in DOMAIN chunks}
    BY <1>1, <1>2
  <2> QED BY <2>1 DEF ElementsTo, StoredIds
<1>11. LoadEvents \in Seq(S) /\ ToSet(LoadEvents) = StoredIds
  BY <1>8, <1>9, <1>10, DedupeFacts
<1>12. ASSUME base = <<>>, \A i \in DOMAIN chunks : Ascending(chunks[i].events),
              \A i, j \in DOMAIN chunks : i < j =>
                  \A e \in ToSet(chunks[i].events), d \in ToSet(chunks[j].events) : e < d
       PROVE  Ascending(LoadEvents)
  <2>1. \A n \in 1 .. N : piece[n] \in Seq(Nat) /\ Ascending(piece[n])
    BY <1>1, <1>2, <1>12, Sizes, SeqMonotonic DEF S
  <2>2. base \in Seq(Nat) /\ ToSet(base) = {} /\ Ascending(base)
    BY <1>12 DEF ToSet, Ascending
  <2>3. Grows(Nat, g, base, piece, N)
    <3>1. g[0] = base /\ \A n \in 1 .. N : g[n] = g[n - 1] \o piece[n]
      BY <1>4 DEF Grows
    <3> QED BY <1>1, <2>1, <2>2, <3>1 DEF Grows
  <2>4. ASSUME NEW m \in 1 .. N, NEW x \in ToSet(g[m - 1]), NEW y \in ToSet(piece[m])
        PROVE  x < y
    <3> DEFINE k == m - 1
    <3>1. k \in 0 .. N /\ k = m - 1
      BY <1>1
    <3> HIDE DEF k
    <3>a. ToSet(g[k]) = ToSet(base) \cup ElementsTo(piece, k)
      BY <1>a, <3>1
    <3>2. x \in ToSet(base) \cup ElementsTo(piece, k)
      BY <3>1, <3>a
    <3>3. PICK i \in 1 .. k : x \in ToSet(piece[i])
      BY <2>2, <3>2 DEF ElementsTo
    <3>4. i \in DOMAIN chunks /\ m \in DOMAIN chunks /\ i < m
      BY <1>1, <3>1
    <3> QED BY <1>1, <1>2, <1>12, <3>3, <3>4
  <2>5. Ascending(g[N])
    BY <1>8, <2>1, <2>2, <2>3, <2>4, GrowthAscending
  <2>6. g[N] \in Seq(Nat)
    BY <1>8, <2>3, GrowthElements
  <2> QED BY <1>8, <2>5, <2>6, DedupeFacts
<1>13. ASSUME chunks # <<>>, chunks[Len(chunks)].events = <<End>>,
              \A i \in DOMAIN chunks : End \in ToSet(chunks[i].events) => i = Len(chunks)
       PROVE  LoadEvents # <<>> /\ LoadEvents[Len(LoadEvents)] = End
  <2>1. N \in 1 .. N /\ N - 1 \in 0 .. N
    <3>1. N # 0
      BY <1>13, EmptySeq DEF N
    <3> QED BY <1>1, <3>1
  <2> DEFINE whole == g[N]
             before == g[N - 1]
  <2>2. whole = before \o <<End>>
    BY <1>5, <1>13, <2>1 DEF N
  <2>a. End \in S
    BY Sizes DEF S
  <2>b. <<End>> \in Seq(S) /\ Len(<<End>>) = 1 /\ <<End>>[1] = End
    BY <2>a
  <2>c. before \in Seq(S) /\ whole \in Seq(S)
    BY <1>4, <2>1
  <2>3. /\ before \in Seq(S) /\ <<End>> \in Seq(S) /\ Len(<<End>>) = 1 /\ <<End>>[1] = End
        /\ End \in S /\ whole \in Seq(S)
    BY <2>a, <2>b, <2>c
  <2>4. End \notin ToSet(before)
    <3> DEFINE k == N - 1
    <3>1. k \in 0 .. N /\ k = N - 1
      BY <2>1
    <3> HIDE DEF k
    <3>2. g[k] \in Seq(S) /\ ToSet(g[k]) = ToSet(base) \cup ElementsTo(piece, k)
      BY <1>a, <3>1
    <3>3. End \notin ToSet(base)
      BY Sizes, ElementsOf
    <3>4. ASSUME End \in ElementsTo(piece, k) PROVE FALSE
      <4>1. PICK i \in 1 .. k : End \in ToSet(piece[i])
        BY <3>4 DEF ElementsTo
      <4>2. i \in DOMAIN chunks /\ i # N
        BY <1>1, <3>1
      <4> QED BY <1>1, <1>2, <1>13, <4>1, <4>2 DEF N
    <3> QED BY <3>1, <3>2, <3>3, <3>4
  <2> HIDE DEF whole, before
  <2>5. /\ Len(whole) = Len(before) + 1 /\ Len(before) \in Nat /\ whole[Len(whole)] = End
        /\ \A i \in 1 .. Len(before) : whole[i] = before[i]
    BY <2>2, <2>3, ConcatProperties, LenProperties
  <2>6. \A i \in 1 .. Len(whole) - 1 : whole[i] # whole[Len(whole)]
    <3>1. \A i \in 1 .. Len(before) : before[i] \in ToSet(before)
      BY <2>3, LenProperties DEF ToSet
    <3>2. Len(whole) - 1 = Len(before)
      BY <2>5
    <3> QED BY <2>4, <2>5, <3>1, <3>2
  <2>7. Len(whole) # 0
    BY <2>5
  <2>8. Len(DedupeEvents(whole)) # 0 /\ DedupeEvents(whole)[Len(DedupeEvents(whole))] = End
    BY <2>3, <2>5, <2>6, <2>7, DedupeFacts
  <2>9. LoadEvents = DedupeEvents(whole)
    BY <1>8 DEF whole
  <2>10. LoadEvents # <<>>
    BY <2>8, <2>9, EmptySeq
  <2> QED BY <2>8, <2>9, <2>10
<1> QED BY <1>11, <1>12, <1>13 DEF S

-----------------------------------------------------------------------------
(* Writing the tables *)

ChunkRow == [seq : Nat, events : Seq(1 .. End)]

\* append_events: a chunk adds its events to what is stored, and goes last when no chunk has
\* a later place.
LEMMA StoredFacts ==
    ASSUME chunks \in Seq(ChunkRow), NEW events \in Seq(1 .. End), NEW seq \in Nat,
           Stored(events, seq), base' = base
    PROVE  /\ chunks' \in Seq(ChunkRow)
           /\ StoredIds' = StoredIds \cup ToSet(events)
           /\ \A i \in DOMAIN chunks' :
                 \/ chunks'[i] = [seq |-> seq, events |-> events]
                 \/ \E j \in DOMAIN chunks : chunks'[i] = chunks[j]
           /\ events # <<>> /\ (\A i \in DOMAIN chunks : chunks[i].seq <= seq) =>
                 chunks' = Append(chunks, [seq |-> seq, events |-> events])
<1> DEFINE N == Len(chunks)
           row == [seq |-> seq, events |-> events]
           places == {i \in DOMAIN chunks : chunks[i].seq <= seq}
           before == Cardinality(places)
           left == SubSeq(chunks, 1, before)
           right == SubSeq(chunks, before + 1, N)
<1>1. N \in Nat /\ DOMAIN chunks = 1 .. N /\ row \in ChunkRow
  BY LenProperties DEF ChunkRow
<1>0. events # <<>> => chunks' = InsertAt(chunks, before + 1, row)
  BY DEF Stored
<1> HIDE DEF N
<1>2. before \in 0 .. N
  <2>1. IsFiniteSet(1 .. N) /\ Cardinality(1 .. N) = N
    BY <1>1, FS_Interval
  <2>2. places \in SUBSET (1 .. N)
    BY <1>1
  <2>3. IsFiniteSet(places) /\ Cardinality(places) <= N
    <3> HIDE DEF places
    <3> QED BY <2>1, <2>2, FS_Subset
  <2>4. Cardinality(places) \in Nat
    <3> HIDE DEF places
    <3> QED BY <2>3, FS_CardinalityType
  <2> HIDE DEF places
  <2> QED BY <1>1, <2>3, <2>4
<1>3. (\A i \in DOMAIN chunks : chunks[i].seq <= seq) => before = N
  <2> SUFFICES ASSUME \A i \in DOMAIN chunks : chunks[i].seq <= seq PROVE before = N
    OBVIOUS
  <2>1. places = 1 .. N
    BY <1>1
  <2>2. Cardinality(1 .. N) = N
    BY <1>1, FS_Interval
  <2> QED BY <2>1, <2>2
<1> HIDE DEF before, places
<1>4. /\ left \in Seq(ChunkRow) /\ right \in Seq(ChunkRow) /\ Len(left) = before
      /\ Len(right) = N - before /\ chunks = left \o right
      /\ before = N => left = chunks /\ right = <<>>
  <2>1. \A i \in 1 .. before : chunks[i] \in ChunkRow
    BY <1>1, <1>2, ElementOfSeq
  <2>2. left \in Seq(ChunkRow) /\ Len(left) = before
    BY <1>2, <2>1, SubSeqProperties
  <2>3. \A i \in before + 1 .. N : chunks[i] \in ChunkRow
    BY <1>1, <1>2, ElementOfSeq
  <2>4. right \in Seq(ChunkRow) /\ Len(right) = N - before
    <3>1. before + 1 \in 1 .. Len(chunks) + 1 /\ right = SubSeq(chunks, before + 1, Len(chunks))
      BY <1>1, <1>2 DEF N
    <3>2. right \in Seq(ChunkRow) /\ Len(right) = Len(chunks) - (before + 1) + 1
      BY <3>1, SuffixFacts
    <3>3. Len(chunks) = N /\ N - (before + 1) + 1 = N - before
      BY <1>1, <1>2 DEF N
    <3> HIDE DEF right
    <3> QED BY <3>2, <3>3
  <2>5. chunks = left \o right
    <3>1. SubSeq(chunks, 1, N) = chunks
      BY SubSeqFull DEF N
    <3>2. SubSeq(chunks, 1, before) \o SubSeq(chunks, before + 1, N) = SubSeq(chunks, 1, N)
      <4>1. /\ 1 \in 1 .. Len(chunks) + 1 /\ before \in 1 - 1 .. Len(chunks)
            /\ N \in before .. Len(chunks)
        BY <1>1, <1>2 DEF N
      <4> QED BY <4>1, ConcatAdjacentSubSeq
    <3>3. N = Len(chunks)
      BY DEF N
    <3> QED BY <3>1, <3>2, <3>3
  <2>6. before = N => left = chunks /\ right = <<>>
    <3> SUFFICES ASSUME before = N PROVE left = chunks /\ right = <<>>
      OBVIOUS
    <3>1. left = chunks
      BY SubSeqFull DEF N
    <3>2. right = <<>>
      BY <1>1, SubSeqEmpty
    <3> QED BY <3>1, <3>2
  <2> QED BY <2>2, <2>4, <2>5, <2>6
<1>5. CASE events = <<>>
  <2>1. chunks' = chunks
    BY <1>5 DEF Stored
  <2>2. ToSet(events) = {}
    BY <1>5 DEF ToSet
  <2>3. StoredIds' = StoredIds
    BY <2>1 DEF StoredIds
  <2> QED BY <1>5, <2>1, <2>2, <2>3
<1>6. CASE events # <<>>
  <2>1. /\ chunks' = (SubSeq(chunks, 1, (before + 1) - 1) \o <<row>>)
                     \o SubSeq(chunks, before + 1, Len(chunks))
        /\ (before + 1) - 1 = before /\ N = Len(chunks)
    <3>1. chunks' = InsertAt(chunks, before + 1, row)
      BY <1>0, <1>6
    <3>2. InsertAt(chunks, before + 1, row)
          = (SubSeq(chunks, 1, (before + 1) - 1) \o <<row>>) \o SubSeq(chunks, before + 1, Len(chunks))
      BY DEF InsertAt
    <3>3. (before + 1) - 1 = before /\ N = Len(chunks)
      BY <1>2 DEF N
    <3> QED BY <3>1, <3>2, <3>3
  <2>2. chunks' = (left \o <<row>>) \o right
    <3> HIDE DEF row
    <3> QED BY <2>1
  <2> HIDE DEF left, right, row
  <2> DEFINE added == Append(left, row)
  <2>3. added = left \o <<row>>
    BY <1>1, <1>4, AppendIsConcat
  <2>4. added \in Seq(ChunkRow) /\ ToSet(added) = ToSet(left) \cup {row}
    BY <1>1, <1>4, AppendElements
  <2>5. chunks' = added \o right
    BY <2>2, <2>3
  <2> HIDE DEF added, left, right, row
  <2>6. chunks' \in Seq(ChunkRow) /\ ToSet(chunks') = ToSet(added) \cup ToSet(right)
    BY <1>4, <2>4, <2>5, ConcatElements
  <2>7. ToSet(chunks) = ToSet(left) \cup ToSet(right)
    BY <1>4, ConcatElements
  <2>8. ToSet(chunks') = ToSet(chunks) \cup {row}
    BY <2>4, <2>6, <2>7
  <2>9. StoredIds' = StoredIds \cup ToSet(events)
    <3>1. StoredIds = ToSet(base) \cup UNION {ToSet(c.events) : c \in ToSet(chunks)}
      BY DEF StoredIds, ToSet
    <3>2. StoredIds' = ToSet(base) \cup UNION {ToSet(c.events) : c \in ToSet(chunks')}
      BY DEF StoredIds, ToSet
    <3>3. row.events = events
      BY DEF row
    <3> QED BY <2>8, <3>1, <3>2, <3>3
  <2>10. ASSUME NEW i \in DOMAIN chunks'
         PROVE  chunks'[i] = row \/ \E j \in DOMAIN chunks : chunks'[i] = chunks[j]
    BY <2>8 DEF ToSet
  <2>11. ASSUME \A i \in DOMAIN chunks : chunks[i].seq <= seq
         PROVE  chunks' = Append(chunks, row)
    <3>1. left = chunks /\ right = <<>>
      BY <1>3, <1>4, <2>11
    <3>2. added \o right = added
      BY <2>4, <3>1, ConcatEmptySeq
    <3> QED BY <2>5, <3>1, <3>2 DEF added
  <2> QED BY <2>6, <2>9, <2>10, <2>11 DEF row
<1> QED BY <1>5, <1>6

\* del buffer[:overflow] keeps the newest events, all of them when they fit.
LEMMA CappedFacts ==
    ASSUME NEW S, NEW events \in Seq(S)
    PROVE  /\ Capped(events) \in Seq(S) /\ Len(Capped(events)) <= RetryCap
           /\ ToSet(Capped(events)) \subseteq ToSet(events)
           /\ Len(events) <= RetryCap => Capped(events) = events
           /\ Ascending(events) => Ascending(Capped(events))
<1> DEFINE first == IF Len(events) > RetryCap THEN Len(events) - RetryCap + 1 ELSE 1
           kept == SubSeq(events, first, Len(events))
<1>1. Len(events) \in Nat /\ RetryCap \in Nat
  BY LenProperties, BoundAssumption
<1>2. first \in 1 .. Len(events) + 1
  BY <1>1
<1>3. Len(events) - first + 1 <= RetryCap
  BY <1>1
<1>4. Len(events) <= RetryCap => first = 1
  BY <1>1
<1>5. Capped(events) = kept
  BY DEF Capped
<1> HIDE DEF first
<1>6. /\ kept \in Seq(S) /\ Len(kept) = Len(events) - first + 1
      /\ ToSet(kept) \subseteq ToSet(events)
      /\ Ascending(events) => Ascending(kept)
  BY <1>2, SuffixFacts
<1>7. Len(events) <= RetryCap => kept = events
  BY <1>4, SubSeqFull
<1> HIDE DEF kept
<1> QED BY <1>3, <1>5, <1>6, <1>7

-----------------------------------------------------------------------------
(* The broker *)

\* publish_nowait on an open broker: the ring holds the event and the newest before it, in
\* their order.
LEMMA PublishFacts ==
    ASSUME ring \in Seq(1 .. End), NEW e \in 1 .. End, ~ closed, Publish(e)
    PROVE  /\ ring' \in Seq(1 .. End) /\ Len(ring') <= RingSize
           /\ e \in ToSet(ring') /\ ToSet(ring') \subseteq ToSet(ring) \cup {e}
           /\ Ascending(ring) /\ (\A r \in ToSet(ring) : r < e) => Ascending(ring')
           /\ client' = [c \in Clients |-> Offer(client[c], e)] /\ closed' = closed
<1> DEFINE all == Append(ring, e)
           first == IF Len(all) > RingSize THEN Len(all) - RingSize + 1 ELSE 1
           kept == SubSeq(all, first, Len(all))
<1>1. ring' = kept /\ client' = [c \in Clients |-> Offer(client[c], e)] /\ closed' = closed
  BY DEF Publish
<1> DEFINE S == 1 .. End
<1>a. ring \in Seq(S) /\ e \in S /\ S \subseteq Nat
  BY Sizes
<1> HIDE DEF S
<1>2. /\ all \in Seq(S) /\ ToSet(all) = ToSet(ring) \cup {e} /\ Len(all) = Len(ring) + 1
      /\ Len(ring) \in Nat /\ all[Len(ring) + 1] = e
  <2>1. Append(ring, e) \in Seq(S) /\ ToSet(Append(ring, e)) = ToSet(ring) \cup {e}
    BY <1>a, AppendElements
  <2>2. Len(Append(ring, e)) = Len(ring) + 1 /\ Append(ring, e)[Len(ring) + 1] = e
    BY <1>a, AppendProperties
  <2>3. Len(ring) \in Nat
    BY <1>a, LenProperties
  <2> QED BY <2>1, <2>2, <2>3
<1>3. first \in 1 .. Len(all) + 1 /\ first <= Len(all) /\ Len(all) - first + 1 <= RingSize
  BY <1>2, BoundAssumption
<1>4. Ascending(ring) /\ (\A r \in ToSet(ring) : r < e) => Ascending(all)
  <2>1. ring \in Seq(Nat) /\ e \in Nat
    BY <1>a, SeqMonotonic
  <2> HIDE DEF all
  <2> QED BY <2>1, AppendAscending DEF all
<1> HIDE DEF all, first
<1>5. /\ kept \in Seq(S) /\ Len(kept) = Len(all) - first + 1
      /\ \A i \in 1 .. Len(all) - first + 1 : kept[i] = all[first + i - 1]
      /\ ToSet(kept) \subseteq ToSet(all)
      /\ Ascending(all) => Ascending(kept)
  BY <1>2, <1>3, SuffixFacts
<1> HIDE DEF kept
<1>6. e \in ToSet(kept)
  <2> DEFINE i == Len(all) - first + 1
  <2>1. i \in 1 .. i /\ first + i - 1 = Len(ring) + 1 /\ i \in DOMAIN kept
    BY <1>2, <1>3, <1>5, LenProperties
  <2>2. kept[i] = e
    BY <1>2, <1>5, <2>1
  <2> HIDE DEF i
  <2> QED BY <2>1, <2>2 DEF ToSet
<1> QED BY <1>1, <1>2, <1>3, <1>4, <1>5, <1>6 DEF S

\* slice_events_after: everything, nothing, or what follows the place of the cursor.
LEMMA SliceFacts ==
    ASSUME NEW S, NEW events \in Seq(S), NEW after
    PROVE  /\ SliceAfter(events, after) \in Seq(S)
           /\ ToSet(SliceAfter(events, after)) \subseteq ToSet(events)
           /\ Ascending(events) => Ascending(SliceAfter(events, after))
           /\ \/ SliceAfter(events, after) \in {events, <<>>}
              \/ \E p \in DOMAIN events : 
                    /\ events[p] = after
                    /\ Len(SliceAfter(events, after)) = Len(events) - p
                    /\ \A i \in 1 .. Len(events) - p : SliceAfter(events, after)[i] = events[p + i]
<1> DEFINE slice == SliceAfter(events, after)
<1>1. Len(events) \in Nat /\ DOMAIN events = 1 .. Len(events)
  BY LenProperties
<1>2. CASE after = 0
  BY <1>2 DEF SliceAfter
<1>3. CASE after # 0 /\ ~ \E i \in DOMAIN events : events[i] = after
  <2>1. slice = <<>>
    BY <1>3 DEF SliceAfter
  <2>2. <<>> \in Seq(S) /\ ToSet(<<>>) = {} /\ Ascending(<<>>)
    BY DEF ToSet, Ascending
  <2> QED BY <2>1, <2>2
<1>4. CASE after # 0 /\ \E i \in DOMAIN events : events[i] = after
  <2> DEFINE p == CHOOSE i \in DOMAIN events : events[i] = after
  <2>1. p \in DOMAIN events /\ events[p] = after
    BY <1>4
  <2>2. slice = SubSeq(events, p + 1, Len(events))
    BY <1>4 DEF SliceAfter
  <2> HIDE DEF p, slice
  <2>3. p + 1 \in 1 .. Len(events) + 1
    BY <1>1, <2>1
  <2>4. /\ slice \in Seq(S) /\ Len(slice) = Len(events) - (p + 1) + 1
        /\ \A i \in 1 .. Len(events) - (p + 1) + 1 : slice[i] = events[(p + 1) + i - 1]
        /\ ToSet(slice) \subseteq ToSet(events)
        /\ Ascending(events) => Ascending(slice)
    BY <2>2, <2>3, SuffixFacts
  <2>5. Len(events) - (p + 1) + 1 = Len(events) - p /\ \A i \in Nat : (p + 1) + i - 1 = p + i
    BY <1>1, <2>1
  <2>6. Len(slice) = Len(events) - p
    BY <2>4, <2>5
  <2>7. ASSUME NEW i \in 1 .. Len(events) - p PROVE slice[i] = events[p + i]
    <3>1. i \in 1 .. Len(events) - (p + 1) + 1 /\ i \in Nat
      BY <1>1, <2>1, <2>5
    <3> QED BY <2>4, <2>5, <3>1
  <2> QED BY <2>1, <2>4, <2>6, <2>7 DEF slice
<1> QED BY <1>2, <1>3, <1>4

\* What precedes an event of a replay of whole tables was received, or is replayed before it.
LEMMA ReplayFollows ==
    ASSUME NEW events \in Seq(1 .. End), Whole(events), emitted \in Nat, emitted <= MaxEvents,
           NEW got \in SUBSET (1 .. End), NEW last \in got \cup {0},
           \A e \in got, d \in 1 .. emitted : d < e => d \in got,
           NEW replay, replay \in {SliceAfter(events, last), events, <<>>},
           NEW i \in DOMAIN replay, NEW d \in 1 .. emitted, d < replay[i]
    PROVE  d \in got \/ \E j \in 1 .. i - 1 : replay[j] = d
<1>1. Len(events) \in Nat /\ DOMAIN events = 1 .. Len(events) /\ End > emitted /\ End \in Nat
  BY LenProperties, Sizes, BoundAssumption DEF End
<1>2. ASSUME NEW k \in DOMAIN events, d < events[k] PROVE d < k /\ d \in DOMAIN events /\ events[d] = d
  <2>1. events[k] = k \/ (events[k] = End /\ k = emitted + 1)
    BY DEF Whole
  <2>2. d < k /\ d \in DOMAIN events
    BY <1>1, <1>2, <2>1
  <2>3. events[d] = d \/ d = emitted + 1
    BY <2>2 DEF Whole
  <2> QED BY <2>2, <2>3
<1>3. CASE replay = events
  <2>1. d < i /\ events[d] = d
    BY <1>2, <1>3
  <2>2. d \in 1 .. i - 1
    BY <1>1, <1>3, <2>1
  <2> QED BY <1>3, <2>1, <2>2
<1>4. CASE replay = <<>>
  BY <1>4
<1>5. CASE replay = SliceAfter(events, last) /\ replay \notin {events, <<>>}
  <2>1. PICK p \in DOMAIN events :
            /\ events[p] = last /\ Len(replay) = Len(events) - p
            /\ \A k \in 1 .. Len(events) - p : replay[k] = events[p + k]
    BY <1>5, SliceFacts
  <2>2. replay \in Seq(1 .. End)
    BY <1>5, SliceFacts
  <2>a. DOMAIN replay = 1 .. Len(replay)
    <3> DEFINE S == 1 .. End
    <3>1. replay \in Seq(S)
      BY <2>2
    <3> HIDE DEF S
    <3> QED BY <3>1, LenProperties
  <2>b. i \in 1 .. Len(events) - p /\ p \in 1 .. Len(events)
    BY <1>1, <2>1, <2>a
  <2>3. i \in 1 .. Len(events) - p /\ p + i \in DOMAIN events /\ replay[i] = events[p + i]
    <3>1. p + i \in 1 .. Len(events)
      BY <1>1, <2>b
    <3> QED BY <1>1, <2>1, <2>b, <3>1
  <2>4. d < p + i /\ d \in DOMAIN events /\ events[d] = d
    BY <1>2, <2>3
  <2>5. CASE d > p
    <3>1. d - p \in 1 .. i - 1 /\ d - p \in 1 .. Len(events) - p /\ p + (d - p) = d
      BY <1>1, <2>3, <2>4, <2>5
    <3> QED BY <2>1, <2>4, <3>1
  <2>6. CASE d = p
    <3>1. last = d /\ d # 0
      BY <2>1, <2>4, <2>6
    <3> QED BY <3>1
  <2>7. CASE d < p
    <3>1. events[p] = p \/ events[p] = End
      BY DEF Whole
    <3>2. d < last
      BY <1>1, <2>1, <2>7, <3>1
    <3>3. last \in got
      BY <2>1, <3>2
    <3> QED BY <3>2, <3>3
  <2> QED BY <1>1, <2>5, <2>6, <2>7
<1> QED BY <1>3, <1>4, <1>5

-----------------------------------------------------------------------------
(* Types *)

\* The part of TypeOK about the run, and the part about its clients.
StoreTypes ==
    /\ scope \in Scopes /\ emitted \in 0 .. scope.events
    /\ phase \in {"streaming", "flushing", "finalizing", "committing", "announcing", "closing",
                  "done", "crashed"}
    /\ status \in {"running", "ended", "stale"}
    /\ ring \in Seq(1 .. End) /\ Len(ring) <= RingSize /\ closed \in BOOLEAN
    /\ buffer \in Seq(Events) /\ retry \in Seq(Events) /\ Len(retry) <= RetryCap
    /\ flights \in [Slots -> Flight]
    /\ caches \in Seq(SUBSET (1 .. End)) /\ seen \in 0 .. Len(caches)
    /\ hasRow \in BOOLEAN /\ rowOpen \in BOOLEAN /\ base \in Seq(Events)
    /\ chunks \in Seq(ChunkRow)
    /\ gaveUp \in BOOLEAN /\ failures \in 0 .. scope.failures

ClientTypes ==
    /\ client \in [Clients -> Client]
    /\ \A c \in Clients : Len(client[c].queue) <= QueueMax

\* TypeOK in its two parts.
LEMMA TwoTypes == TypeOK <=> StoreTypes /\ ClientTypes
  BY DEF TypeOK, StoreTypes, ClientTypes, ChunkRow

\* An empty list.
LEMMA EmptyList ==
    ASSUME NEW s, s = <<>>
    PROVE  Len(s) = 0 /\ ToSet(s) = {} /\ Ascending(s) /\ \A S : s \in Seq(S)
  BY DEF ToSet, Ascending

\* The numbers of a run, of emit and of its flights.
LEMMA RunNumbers ==
    ASSUME StoreTypes
    PROVE  /\ emitted \in Nat /\ emitted <= MaxEvents /\ 1 .. emitted \subseteq Events
           /\ emitted < scope.events => emitted + 1 \in Events
           /\ Slots \subseteq Nat /\ 1 \in Slots
           /\ delivery \in {"chat", "protocol"}
           /\ scope.events \in Nat /\ scope.failures \in Nat
<1>1. /\ scope.delivery \in {"chat", "protocol"} /\ scope.events \in 0 .. MaxEvents
      /\ scope.inflight \in Nat \ {0} /\ scope.failures \in Nat
  BY ScopesAssumption DEF StoreTypes
<1>2. MaxEvents \in Nat /\ emitted \in 0 .. scope.events
  BY BoundAssumption DEF StoreTypes
<1> QED BY <1>1, <1>2 DEF Slots, delivery, Events

\* What a flight of each step carries (ConversationEventPersistenceCallback).
LEMMA FlightShape ==
    ASSUME NEW fl \in Flight
    PROVE  /\ fl.step \in {"none", "started", "loading", "ready", "written"}
           /\ fl = NoFlight <=> fl.step = "none"
           /\ fl # NoFlight => fl.chunk \in Seq(Events) /\ fl.final \in BOOLEAN
           /\ fl.step = "loading" => fl.loaded \in SUBSET (1 .. End)
           /\ fl.step \in {"ready", "written"} => fl.cache \in Nat
           /\ fl.step = "written" => fl.new \in Seq(Events) /\ fl.seq \in Nat /\ fl.rowSeen \in BOOLEAN
<1> DEFINE S == Seq(Events)
           U == SUBSET (1 .. End)
<1>1. fl \in {NoFlight}
      \cup [step : {"started"}, chunk : S, final : BOOLEAN]
      \cup [step : {"loading"}, chunk : S, final : BOOLEAN, loaded : U]
      \cup [step : {"ready"}, chunk : S, final : BOOLEAN, cache : Nat]
      \cup [step : {"written"}, chunk : S, final : BOOLEAN, cache : Nat,
            new : S, seq : Nat, rowSeen : BOOLEAN]
  BY DEF Flight
<1> HIDE DEF S, U
<1>2. fl.step = "none" => fl = NoFlight
  BY <1>1
<1>3. fl = NoFlight => fl.step = "none"
  BY DEF NoFlight
<1>4. /\ fl.step \in {"none", "started", "loading", "ready", "written"}
      /\ fl # NoFlight => fl.chunk \in S /\ fl.final \in BOOLEAN
      /\ fl.step = "loading" => fl.loaded \in U
      /\ fl.step \in {"ready", "written"} => fl.cache \in Nat
      /\ fl.step = "written" => fl.new \in S /\ fl.seq \in Nat /\ fl.rowSeen \in BOOLEAN
  BY <1>1, <1>3
<1> QED BY <1>2, <1>3, <1>4 DEF S, U

\* Sets of ids are finite, and a set that grows gets no smaller.
LEMMA IdSets ==
    ASSUME NEW S \in SUBSET (1 .. End), NEW T \in SUBSET S
    PROVE  Cardinality(S) \in Nat /\ Cardinality(T) \in Nat /\ Cardinality(T) <= Cardinality(S)
<1>1. IsFiniteSet(1 .. End)
  BY Sizes, FS_Interval
<1>2. IsFiniteSet(S)
  BY <1>1, FS_Subset
<1>3. IsFiniteSet(T) /\ Cardinality(T) <= Cardinality(S)
  BY <1>2, FS_Subset
<1> QED BY <1>2, <1>3, FS_CardinalityType

\* The tables hold ids of events and of the terminal event.
LEMMA StoredTypes ==
    StoreTypes => StoredIds \in SUBSET (1 .. End) /\ Cardinality(StoredIds) \in Nat
<1> SUFFICES ASSUME StoreTypes
             PROVE  StoredIds \in SUBSET (1 .. End) /\ Cardinality(StoredIds) \in Nat
  OBVIOUS
<1>1. ToSet(base) \subseteq Events
  BY ElementsOf DEF StoreTypes
<1>2. ASSUME NEW i \in DOMAIN chunks PROVE ToSet(chunks[i].events) \subseteq 1 .. End
  <2>1. chunks[i] \in ChunkRow
    BY ElementOfSeq, LenProperties DEF StoreTypes
  <2>2. chunks[i].events \in Seq(1 .. End)
    BY <2>1 DEF ChunkRow
  <2> QED BY <2>2, ElementsOf
<1>3. StoredIds \in SUBSET (1 .. End)
  BY <1>1, <1>2, Sizes DEF StoredIds
<1> QED BY <1>3, IdSets

-----------------------------------------------------------------------------
(* Every step keeps the types of the run *)

\* A run starts with empty buffers and tables.
LEMMA InitTypes == Init => StoreTypes
<1> SUFFICES ASSUME Init PROVE StoreTypes
  OBVIOUS
<1>1. scope.events \in Nat /\ scope.failures \in Nat
  BY ScopesAssumption DEF Init
<1>2. Len(ring) = 0 /\ Len(retry) = 0 /\ Len(caches) = 0
  BY EmptyList DEF Init
<1>3. flights \in [Slots -> Flight]
  BY DEF Init, Flight
<1>4. /\ ring \in Seq(1 .. End) /\ buffer \in Seq(Events) /\ retry \in Seq(Events)
      /\ caches \in Seq(SUBSET (1 .. End)) /\ base \in Seq(Events) /\ chunks \in Seq(ChunkRow)
  BY EmptyList DEF Init
<1>5. seen = 0 /\ failures = 0 /\ emitted = 0 /\ RingSize \in Nat /\ RetryCap \in Nat
  BY BoundAssumption DEF Init
<1>6. /\ scope \in Scopes /\ phase = "streaming" /\ status = "running" /\ closed = FALSE
      /\ hasRow = FALSE /\ rowOpen = FALSE /\ gaveUp = FALSE
  BY DEF Init
<1>7. /\ Len(ring) <= RingSize /\ Len(retry) <= RetryCap /\ seen \in 0 .. Len(caches)
      /\ failures \in 0 .. scope.failures /\ emitted \in 0 .. scope.events
  BY <1>1, <1>2, <1>5
<1> QED BY <1>3, <1>4, <1>6, <1>7 DEF StoreTypes

\* publish_nowait and close keep the ring within its size.
LEMMA PublishTypes ==
    ASSUME StoreTypes, NEW e \in 1 .. End, Publish(e)
    PROVE  ring' \in Seq(1 .. End) /\ Len(ring') <= RingSize /\ closed' = closed
<1>1. ring \in Seq(1 .. End) /\ Len(ring) <= RingSize
  BY DEF StoreTypes
<1>2. CASE closed
  <2>1. ring' = ring /\ closed' = closed
    BY <1>2 DEF Publish
  <2> QED BY <1>1, <2>1
<1>3. CASE ~ closed
  BY <1>1, <1>3, PublishFacts
<1> QED BY <1>2, <1>3

\* The flight a new flush takes is free.
LowestFree == CHOOSE f \in FreeSlots : \A g \in FreeSlots : f <= g

\* A new flush takes the lowest free slot.
LEMMA LowestIsFree ==
    ASSUME StoreTypes, FreeSlots # {}
    PROVE  /\ LowestFree \in Slots /\ flights[LowestFree] = NoFlight
           /\ delivery = "protocol" => Idle
<1>1. FreeSlots \in SUBSET Nat
  BY RunNumbers DEF FreeSlots
<1>2. \E f \in FreeSlots : \A g \in FreeSlots : f <= g
  <2> HIDE DEF FreeSlots
  <2> QED BY <1>1, SmallestOf
<1>3. LowestFree \in FreeSlots
  BY <1>2 DEF LowestFree
<1> QED BY <1>3 DEF FreeSlots

\* A flush that starts has its chunk.
LEMMA StartedTypes ==
    ASSUME NEW events \in Seq(Events), NEW final \in BOOLEAN
    PROVE  Started(events, final) \in Flight
  BY DEF Started, Flight

\* emit buffers the event or starts a flush.
LEMMA EmitTypes == StoreTypes /\ Emit => StoreTypes'
<1> SUFFICES ASSUME StoreTypes, Emit PROVE StoreTypes'
  OBVIOUS
<1>1. emitted' = emitted + 1 /\ emitted' \in Events /\ emitted' \in 0 .. scope.events
  BY RunNumbers DEF Emit, StoreTypes
<1>2. emitted' \in 1 .. End
  BY <1>1, Sizes
<1>3. ring' \in Seq(1 .. End) /\ Len(ring') <= RingSize /\ closed' = closed
  BY <1>2, PublishTypes DEF Emit
<1>4. Append(buffer, emitted') \in Seq(Events) /\ <<>> \in Seq(Events)
  BY <1>1, AppendElements DEF StoreTypes
<1>5. buffer' \in Seq(Events) /\ flights' \in [Slots -> Flight]
  <2>1. CASE buffer' = Append(buffer, emitted') /\ flights' = flights
    BY <1>4, <2>1 DEF StoreTypes
  <2>2. CASE FreeSlots # {} /\ buffer' = <<>>
             /\ flights' = [flights EXCEPT ![LowestFree] = Started(Append(buffer, emitted'), FALSE)]
    <3>1. Started(Append(buffer, emitted'), FALSE) \in Flight
      BY <1>4, StartedTypes
    <3> QED BY <1>4, <2>2, <3>1 DEF StoreTypes
  <2> QED BY <2>1, <2>2 DEF Emit, LowestFree
<1>6. UNCHANGED <<scope, phase, status, retry, caches, seen, gaveUp, rowVars, failures>>
  BY DEF Emit
<1> QED BY <1>1, <1>3, <1>5, <1>6 DEF StoreTypes, Slots, rowVars

\* One flight takes a new value.
LEMMA FlightTypes ==
    ASSUME StoreTypes, NEW f \in Slots, NEW fl \in Flight, flights' = [flights EXCEPT ![f] = fl],
           scope' = scope
    PROVE  /\ flights' \in [Slots' -> Flight]
           /\ flights'[f] = fl /\ \A g \in Slots : g # f => flights'[g] = flights[g]
  BY DEF StoreTypes, Slots

\* The callback opens its session.
LEMMA BeginTypes ==
    ASSUME StoreTypes, NEW f \in Slots, Begin(f)
    PROVE  StoreTypes'
<1>1. flights[f] \in Flight /\ flights[f].step = "started" /\ seen \in Nat
  BY LenProperties DEF Begin, StoreTypes
<1>2. flights[f].chunk \in Seq(Events) /\ flights[f].final \in BOOLEAN
  BY <1>1, FlightShape
<1> DEFINE fl == IF seen = 0
                 THEN [step |-> "loading", chunk |-> flights[f].chunk, final |-> flights[f].final,
                       loaded |-> StoredIds]
                 ELSE [step |-> "ready", chunk |-> flights[f].chunk, final |-> flights[f].final,
                       cache |-> seen]
<1>3. fl \in Flight
  BY <1>1, <1>2, StoredTypes DEF Flight
<1>4. flights' = [flights EXCEPT ![f] = fl]
  BY DEF Begin
<1>5. UNCHANGED <<scope, emitted, phase, status, brokerVars, buffer, retry, caches, seen,
                  gaveUp, rowVars, failures>>
  BY DEF Begin
<1> HIDE DEF fl
<1>6. flights' \in [Slots' -> Flight]
  BY <1>3, <1>4, <1>5, FlightTypes
<1> QED BY <1>5, <1>6 DEF StoreTypes, rowVars, brokerVars

\* The ids it selected become the cache.
LEMMA LoadedTypes ==
    ASSUME StoreTypes, NEW f \in Slots, Loaded(f)
    PROVE  StoreTypes'
<1>1. flights[f] \in Flight /\ flights[f].step = "loading"
  BY DEF Loaded, StoreTypes
<1>2. flights[f].chunk \in Seq(Events) /\ flights[f].final \in BOOLEAN
      /\ flights[f].loaded \in SUBSET (1 .. End)
  BY <1>1, FlightShape
<1>3. caches' = Append(caches, flights[f].loaded) /\ seen' = Len(caches')
  BY DEF Loaded
<1>4. caches' \in Seq(SUBSET (1 .. End)) /\ Len(caches') \in Nat
  <2> DEFINE U == SUBSET (1 .. End)
  <2>1. caches \in Seq(U) /\ flights[f].loaded \in U
    BY <1>2 DEF StoreTypes
  <2> HIDE DEF U
  <2>2. caches' \in Seq(U)
    BY <1>3, <2>1, AppendProperties
  <2>3. Len(caches') \in Nat
    BY <2>2, LenProperties
  <2> QED BY <2>2, <2>3 DEF U
<1> DEFINE fl == [step |-> "ready", chunk |-> flights[f].chunk, final |-> flights[f].final,
                  cache |-> Len(caches')]
<1>5. fl \in Flight
  BY <1>2, <1>4 DEF Flight
<1>6. flights' = [flights EXCEPT ![f] = fl]
  BY DEF Loaded
<1>7. UNCHANGED <<scope, emitted, phase, status, brokerVars, buffer, retry, gaveUp, rowVars,
                  failures>>
  BY DEF Loaded
<1> HIDE DEF fl
<1>8. flights' \in [Slots' -> Flight]
  BY <1>5, <1>6, <1>7, FlightTypes
<1>9. seen' \in 0 .. Len(caches')
  BY <1>3, <1>4
<1> QED BY <1>4, <1>7, <1>8, <1>9 DEF StoreTypes, rowVars, brokerVars

\* append_events computes the new events of a chunk.
LEMMA WriteTypes ==
    ASSUME StoreTypes, NEW f \in Slots, Write(f), flights[f].cache \in DOMAIN caches
    PROVE  StoreTypes'
<1>1. flights[f] \in Flight /\ flights[f].step = "ready"
  BY DEF Write, AppendEvents, StoreTypes
<1>2. flights[f].chunk \in Seq(Events) /\ flights[f].final \in BOOLEAN /\ flights[f].cache \in Nat
  BY <1>1, FlightShape
<1> DEFINE known == caches[flights[f].cache]
<1>3. known \in SUBSET (1 .. End)
  <2> DEFINE U == SUBSET (1 .. End)
  <2>1. caches \in Seq(U)
    BY DEF StoreTypes
  <2> HIDE DEF U
  <2>2. known \in U
    BY <2>1, ElementOfSeq, LenProperties
  <2> QED BY <2>2 DEF U
<1> HIDE DEF known
<1>4. NotKnown(flights[f].chunk, known) \in Seq(Events) /\ Cardinality(known) + 1 \in Nat
  BY <1>2, <1>3, IdSets, NotKnownFacts
<1> DEFINE fl == [step |-> "written", chunk |-> flights[f].chunk, final |-> flights[f].final,
                  cache |-> flights[f].cache, new |-> NotKnown(flights[f].chunk, known),
                  seq |-> Cardinality(known) + 1, rowSeen |-> hasRow]
<1>5. fl \in Flight
  BY <1>2, <1>4 DEF Flight, StoreTypes
<1>6. flights' = [flights EXCEPT ![f] = fl]
  BY DEF Write, AppendEvents, known
<1>7. UNCHANGED <<scope, emitted, phase, status, brokerVars, buffer, retry, seen, gaveUp,
                  rowVars, failures>> /\ UNCHANGED caches
  BY DEF Write, AppendEvents
<1> HIDE DEF fl
<1>8. flights' \in [Slots' -> Flight]
  BY <1>5, <1>6, <1>7, FlightTypes
<1> QED BY <1>7, <1>8 DEF StoreTypes, rowVars, brokerVars

\* The commit of a flush writes its new events.
LEMMA CommitRowTypes ==
    ASSUME StoreTypes, NEW f \in Slots, CommitRow(f)
    PROVE  /\ hasRow' \in BOOLEAN /\ rowOpen' \in BOOLEAN /\ base' \in Seq(Events)
           /\ chunks' \in Seq(ChunkRow) /\ base' = base
           /\ flights[f].step = "written" /\ flights[f] # NoFlight
           /\ flights[f].new \in Seq(1 .. End) /\ flights[f].seq \in Nat
           /\ Stored(flights[f].new, flights[f].seq)
<1>1. flights[f] \in Flight /\ flights[f].step = "written"
  BY DEF CommitRow, StoreTypes
<1>2. flights[f].new \in Seq(Events) /\ flights[f].seq \in Nat /\ flights[f] # NoFlight
  BY <1>1, FlightShape
<1>3. flights[f].new \in Seq(1 .. End)
  BY <1>2, Sizes, SeqMonotonic
<1>4. /\ Stored(flights[f].new, flights[f].seq) /\ base' = base /\ base \in Seq(Events)
      /\ hasRow' = TRUE /\ rowOpen' = TRUE /\ chunks \in Seq(ChunkRow)
  BY DEF CommitRow, StoreTypes
<1>5. chunks' \in Seq(ChunkRow)
  BY <1>2, <1>3, <1>4, StoredFacts
<1> QED BY <1>1, <1>2, <1>3, <1>4, <1>5

\* The commit of a flush.
LEMMA CommitTypes ==
    ASSUME StoreTypes, NEW f \in Slots, Commit(f)
    PROVE  StoreTypes'
<1>1. CommitRow(f)
  BY DEF Commit
<1>2. /\ hasRow' \in BOOLEAN /\ rowOpen' \in BOOLEAN /\ base' \in Seq(Events)
      /\ chunks' \in Seq(ChunkRow) /\ flights[f] # NoFlight
  BY <1>1, CommitRowTypes
<1>3. flights[f].chunk \in Seq(Events)
  BY <1>2, FlightShape DEF StoreTypes
<1>4. ToSet(flights[f].chunk) \subseteq 1 .. End
  BY <1>3, Sizes, ElementsOf
<1>5. caches' \in Seq(SUBSET (1 .. End)) /\ Len(caches') = Len(caches)
  <2> DEFINE added == ToSet(flights[f].chunk)
             U == SUBSET (1 .. End)
             i == flights[f].cache
  <2>1. caches' = [caches EXCEPT ![i] = @ \cup added]
    BY DEF Commit
  <2>2. caches \in Seq(U) /\ \A u \in U : u \cup added \in U
    BY <1>4 DEF StoreTypes
  <2> HIDE DEF added, U, i
  <2>3. Len(caches) \in Nat /\ caches \in [1 .. Len(caches) -> U]
    BY <2>2, LenProperties
  <2>4. caches' \in [1 .. Len(caches) -> U]
    BY <2>1, <2>2, <2>3
  <2>5. caches' \in Seq(U)
    BY <2>3, <2>4, SeqDef
  <2>6. Len(caches') = Len(caches)
    BY <2>3, <2>4, <2>5, LenProperties
  <2> QED BY <2>5, <2>6 DEF U
<1>6. flights' = [flights EXCEPT ![f] = NoFlight] /\ NoFlight \in Flight
  BY DEF Commit, Flight
<1>7. UNCHANGED <<scope, emitted, phase, status, brokerVars, buffer, retry, seen, gaveUp,
                  failures>>
  BY DEF Commit
<1>8. flights' \in [Slots' -> Flight]
  BY <1>6, <1>7, FlightTypes
<1> QED BY <1>2, <1>5, <1>7, <1>8 DEF StoreTypes, brokerVars

\* A failed chunk is kept within the cap of the retry buffer.
LEMMA RaisedTypes ==
    ASSUME StoreTypes, NEW f \in Slots, Raised(f), flights[f] # NoFlight
    PROVE  /\ flights' \in [Slots' -> Flight] /\ seen' = 0 /\ gaveUp' \in BOOLEAN
           /\ buffer' \in Seq(Events) /\ retry' \in Seq(Events) /\ Len(retry') <= RetryCap
           /\ UNCHANGED <<scope, emitted, phase, status, brokerVars, caches>>
           /\ flights[f].chunk \in Seq(Events)
           /\ flights'[f] = NoFlight /\ \A g \in Slots : g # f => flights'[g] = flights[g]
<1>1. UNCHANGED <<scope, emitted, phase, status, brokerVars, caches>> /\ seen' = 0
  BY DEF Raised
<1>2. flights' = [flights EXCEPT ![f] = NoFlight] /\ NoFlight \in Flight
  BY DEF Raised, Flight
<1>3. /\ flights' \in [Slots' -> Flight]
      /\ flights'[f] = NoFlight /\ \A g \in Slots : g # f => flights'[g] = flights[g]
  BY <1>1, <1>2, FlightTypes
<1>4. flights[f].chunk \in Seq(Events) /\ flights[f].final \in BOOLEAN
  BY FlightShape DEF StoreTypes
<1>5. buffer \in Seq(Events) /\ retry \in Seq(Events) /\ Len(retry) <= RetryCap /\ gaveUp \in BOOLEAN
  BY DEF StoreTypes
<1> DEFINE chunk == flights[f].chunk
           r == retry \o chunk
           b == chunk \o buffer
<1>6. r \in Seq(Events) /\ b \in Seq(Events)
  BY <1>4, <1>5, ConcatProperties
<1>7. \/ gaveUp' = TRUE /\ UNCHANGED <<buffer, retry>>
      \/ retry' = Capped(r) /\ gaveUp' = (gaveUp \/ Len(r) > RetryCap) /\ UNCHANGED buffer
      \/ buffer' = Capped(b) /\ gaveUp' = (gaveUp \/ Len(b) > RetryCap) /\ UNCHANGED retry
  BY DEF Raised, Requeued
<1> HIDE DEF chunk, r, b
<1>8. /\ Capped(r) \in Seq(Events) /\ Capped(b) \in Seq(Events) /\ Len(Capped(r)) <= RetryCap
  BY <1>6, CappedFacts
<1>9. buffer' \in Seq(Events) /\ retry' \in Seq(Events) /\ Len(retry') <= RetryCap /\ gaveUp' \in BOOLEAN
  BY <1>5, <1>7, <1>8
<1> QED BY <1>1, <1>3, <1>4, <1>9

\* A statement of a flush, or its commit, fails.
LEMMA FailTypes ==
    ASSUME StoreTypes, NEW f \in Slots, Fail(f)
    PROVE  StoreTypes'
<1>1. flights[f] # NoFlight /\ Raised(f) /\ UNCHANGED rowVars
  BY DEF Fail
<1>2. failures' \in 0 .. scope.failures
  BY RunNumbers DEF Fail, StoreTypes
<1>3. /\ flights' \in [Slots' -> Flight] /\ seen' = 0 /\ gaveUp' \in BOOLEAN
      /\ buffer' \in Seq(Events) /\ retry' \in Seq(Events) /\ Len(retry') <= RetryCap
      /\ UNCHANGED <<scope, emitted, phase, status, brokerVars, caches>>
  BY <1>1, RaisedTypes
<1>4. 0 \in 0 .. Len(caches)
  BY LenProperties DEF StoreTypes
<1> QED BY <1>1, <1>2, <1>3, <1>4 DEF StoreTypes, rowVars, brokerVars

\* A commit whose answer is lost.
LEMMA CommitUnansweredTypes ==
    ASSUME StoreTypes, NEW f \in Slots, CommitUnanswered(f)
    PROVE  StoreTypes'
<1>1. CommitRow(f) /\ Raised(f)
  BY DEF CommitUnanswered
<1>2. failures' \in 0 .. scope.failures
  BY RunNumbers DEF CommitUnanswered, StoreTypes
<1>3. /\ hasRow' \in BOOLEAN /\ rowOpen' \in BOOLEAN /\ base' \in Seq(Events)
      /\ chunks' \in Seq(ChunkRow) /\ flights[f] # NoFlight
  BY <1>1, CommitRowTypes
<1>4. /\ flights' \in [Slots' -> Flight] /\ seen' = 0 /\ gaveUp' \in BOOLEAN
      /\ buffer' \in Seq(Events) /\ retry' \in Seq(Events) /\ Len(retry') <= RetryCap
      /\ UNCHANGED <<scope, emitted, phase, status, brokerVars, caches>>
  BY <1>1, <1>3, RaisedTypes
<1>5. 0 \in 0 .. Len(caches)
  BY LenProperties DEF StoreTypes
<1> QED BY <1>2, <1>3, <1>4, <1>5 DEF StoreTypes, brokerVars

\* The last flush takes what the buffers hold.
LEMMA FinalFlushTypes == StoreTypes /\ FinalFlush => StoreTypes'
<1> SUFFICES ASSUME StoreTypes, FinalFlush PROVE StoreTypes'
  OBVIOUS
<1>1. UNCHANGED <<scope, emitted, status, brokerVars, caches, seen, gaveUp, rowVars, failures>>
  BY DEF FinalFlush
<1>2. <<>> \in Seq(Events) /\ Len(<<>>) = 0 /\ 1 \in Slots /\ RetryCap \in Nat
  BY RunNumbers, BoundAssumption
<1>3. /\ Started(retry, TRUE) \in Flight /\ Started(buffer, TRUE) \in Flight
      /\ retry \in Seq(Events) /\ buffer \in Seq(Events) /\ flights \in [Slots -> Flight]
  BY StartedTypes DEF StoreTypes
<1>4. /\ buffer' \in Seq(Events) /\ retry' \in Seq(Events) /\ Len(retry') <= RetryCap
      /\ flights' \in [Slots -> Flight] /\ phase' \in {phase, "finalizing"}
  <2>1. CASE flights' = [flights EXCEPT ![1] = Started(retry, TRUE)]
             /\ retry' = <<>> /\ UNCHANGED <<phase, buffer>>
    <3>1. Len(retry') = 0 /\ retry' \in Seq(Events)
      BY <2>1, EmptyList
    <3>2. Len(retry') <= RetryCap
      BY <1>2, <3>1
    <3>3. flights' \in [Slots -> Flight]
      BY <1>3, <2>1
    <3> QED BY <1>3, <2>1, <3>1, <3>2, <3>3
  <2>2. CASE flights' = [flights EXCEPT ![1] = Started(buffer, TRUE)]
             /\ buffer' = <<>> /\ UNCHANGED <<phase, retry>>
    BY <1>2, <1>3, <2>2 DEF StoreTypes
  <2>3. CASE phase' = "finalizing" /\ UNCHANGED <<flights, buffer, retry>>
    BY <1>3, <2>3 DEF StoreTypes
  <2> QED BY <2>1, <2>2, <2>3 DEF FinalFlush
<1>5. Slots' = Slots
  BY <1>1 DEF Slots
<1> QED BY <1>1, <1>4, <1>5 DEF StoreTypes, rowVars, brokerVars

\* finalize_trace closes the row or records the sink.
LEMMA FinalizeTypes == StoreTypes /\ FinalizeTrace => StoreTypes'
<1> SUFFICES ASSUME StoreTypes, FinalizeTrace PROVE StoreTypes'
  OBVIOUS
<1>1. phase' = "committing" /\ UNCHANGED <<scope, emitted, status, brokerVars, flushVars, chunks>>
  BY DEF FinalizeTrace
<1> DEFINE all == [n \in 1 .. emitted |-> n]
<1>2. all \in Seq(Events)
  <2>1. emitted \in Nat /\ all \in [1 .. emitted -> Events]
    BY RunNumbers
  <2> QED BY <2>1, SeqDef
<1>3. base' \in {base, all} /\ hasRow' \in BOOLEAN /\ rowOpen' \in BOOLEAN
  BY DEF FinalizeTrace, StoreTypes
<1>4. failures' \in 0 .. scope.failures
  BY RunNumbers DEF FinalizeTrace, StoreTypes
<1> HIDE DEF all
<1>5. base' \in Seq(Events)
  BY <1>2, <1>3 DEF StoreTypes
<1> QED BY <1>1, <1>3, <1>4, <1>5 DEF StoreTypes, brokerVars, flushVars, Slots

\* The terminal event is stored as a chunk of its own.
LEMMA CommitStatusTypes == StoreTypes /\ CommitStatus => StoreTypes'
<1> SUFFICES ASSUME StoreTypes, CommitStatus PROVE StoreTypes'
  OBVIOUS
<1>1. UNCHANGED <<scope, emitted, brokerVars, flushVars, base>>
  BY DEF CommitStatus
<1> DEFINE last == <<End>>
           seq == Cardinality(StoredIds) + 1
<1>2. last \in Seq(1 .. End) /\ seq \in Nat
  BY Sizes, StoredTypes
<1>3. Stored(last, seq) \/ chunks' = chunks
  BY DEF CommitStatus
<1> HIDE DEF last, seq
<1>4. chunks' \in Seq(ChunkRow)
  BY <1>1, <1>2, <1>3, StoredFacts DEF StoreTypes
<1>5. failures' \in 0 .. scope.failures /\ hasRow' \in BOOLEAN /\ rowOpen' \in BOOLEAN
  <2>1. \/ hasRow' = TRUE /\ rowOpen' = FALSE /\ failures' = failures
        \/ /\ failures < scope.failures /\ failures' = failures + 1
           /\ UNCHANGED <<hasRow, rowOpen>>
    BY DEF CommitStatus
  <2>2. failures \in 0 .. scope.failures /\ hasRow \in BOOLEAN /\ rowOpen \in BOOLEAN
    BY DEF StoreTypes
  <2>3. scope.failures \in Nat
    BY RunNumbers
  <2>4. failures' \in 0 .. scope.failures
    BY <2>1, <2>2, <2>3
  <2>5. hasRow' \in BOOLEAN /\ rowOpen' \in BOOLEAN
    BY <2>1, <2>2
  <2> QED BY <2>4, <2>5
<1>6. phase' \in {"announcing", "closing"} /\ status' \in {status, "ended"}
  BY DEF CommitStatus
<1> QED BY <1>1, <1>4, <1>5, <1>6 DEF StoreTypes, brokerVars, flushVars, Slots

\* publish_terminal changes the ring.
LEMMA AnnounceTypes == StoreTypes /\ Announce => StoreTypes'
<1> SUFFICES ASSUME StoreTypes, Announce PROVE StoreTypes'
  OBVIOUS
<1>1. phase' = "closing" /\ UNCHANGED <<scope, emitted, status, flushVars, rowVars, failures>>
  BY DEF Announce
<1>2. ring' \in Seq(1 .. End) /\ Len(ring') <= RingSize /\ closed' = closed
  BY Sizes, PublishTypes DEF Announce
<1> QED BY <1>1, <1>2 DEF StoreTypes, rowVars, flushVars, Slots

\* A process that dies leaves its buffers empty.
LEMMA CrashTypes == StoreTypes /\ Crash => StoreTypes'
<1> SUFFICES ASSUME StoreTypes, Crash PROVE StoreTypes'
  OBVIOUS
<1>1. phase' = "crashed" /\ closed' = TRUE /\ seen' = 0
      /\ UNCHANGED <<scope, emitted, status, gaveUp, rowVars, failures>>
  BY DEF Crash
<1>2. ring' \in Seq(1 .. End) /\ Len(ring') <= RingSize
  <2>1. ring' = <<>> /\ RingSize \in Nat
    BY BoundAssumption DEF Crash
  <2>2. Len(ring') = 0 /\ ring' \in Seq(1 .. End)
    BY <2>1, EmptyList
  <2> QED BY <2>1, <2>2
<1>3. buffer' \in Seq(Events) /\ retry' \in Seq(Events) /\ Len(retry') <= RetryCap
  <2>1. buffer' = <<>> /\ retry' = <<>> /\ RetryCap \in Nat
    BY BoundAssumption DEF Crash
  <2>2. Len(retry') = 0 /\ buffer' \in Seq(Events) /\ retry' \in Seq(Events)
    BY <2>1, EmptyList
  <2> QED BY <2>1, <2>2
<1>4. caches' \in Seq(SUBSET (1 .. End)) /\ seen' \in 0 .. Len(caches')
  <2>1. caches' = <<>>
    BY DEF Crash
  <2>2. Len(caches') = 0 /\ caches' \in Seq(SUBSET (1 .. End))
    BY <2>1, EmptyList
  <2> QED BY <1>1, <2>2
<1>5. flights' \in [Slots' -> Flight]
  BY <1>1 DEF Crash, Slots, Flight
<1> QED BY <1>1, <1>2, <1>3, <1>4, <1>5 DEF StoreTypes, rowVars

\* EndStream, Finish and ForceClose change the phase or close the broker.
LEMMA PlainTypes == StoreTypes /\ (EndStream \/ Finish \/ ForceClose) => StoreTypes'
<1> SUFFICES ASSUME StoreTypes, EndStream \/ Finish \/ ForceClose PROVE StoreTypes'
  OBVIOUS
<1>1. /\ phase' \in {phase, "flushing", "done"} /\ closed' \in {closed, TRUE}
      /\ UNCHANGED <<scope, emitted, status, ring, flushVars, rowVars, failures>>
  BY DEF EndStream, Finish, ForceClose, CloseBroker, brokerVars
<1> QED BY <1>1 DEF StoreTypes, rowVars, flushVars, Slots

\* A client touches nothing of the run, but for the status of one that it finds stale.
ClientSteps(c) ==
    \/ \E route \in {"runs", "resume"} : AttachLive(c, route)
    \/ AttachStale(c) \/ AttachReplay(c) \/ AttachResume(c) \/ AttachThread(c)
    \/ ClientStep(c) \/ Disconnect(c)

\* What no client touches: all of the run but the status and the row of a stale one.
LEMMA ClientFrame ==
    ASSUME NEW c \in Clients, ClientSteps(c)
    PROVE  /\ UNCHANGED <<scope, emitted, phase, ring, closed, flushVars, hasRow, base, chunks,
                          failures>>
           /\ status' \in {status, "stale"} /\ rowOpen' \in {rowOpen, FALSE}
  BY DEF ClientSteps, AttachLive, AttachStale, AttachReplay, AttachResume, AttachThread, ClientStep,
         MarkGap, Subscribe, Poll, Receive, Disconnect, UnchangedButClient, rowVars

\* A client leaves the run well typed.
LEMMA ClientStoreTypes ==
    ASSUME StoreTypes, NEW c \in Clients, ClientSteps(c)
    PROVE  StoreTypes'
<1>1. /\ UNCHANGED <<scope, emitted, phase, ring, closed, flushVars, hasRow, base, chunks, failures>>
      /\ status' \in {status, "stale"} /\ rowOpen' \in {rowOpen, FALSE}
  BY ClientFrame
<1> QED BY <1>1 DEF StoreTypes, flushVars, Slots

-----------------------------------------------------------------------------
(* The tables and the flushes: what a step keeps *)

\* The tables hold their ids when a step leaves the rows alone.
LEMMA TablesKept ==
    ASSUME StoreTypes, TableInv, UNCHANGED <<base, chunks, hasRow>>,
           emitted' \in {emitted, emitted + 1}, phase \in PastEnd => phase' \in PastEnd
    PROVE  TableInv' /\ StoredIds' = StoredIds
<1>1. StoredIds' = StoredIds
  BY DEF StoredIds
<1>2. 1 .. emitted \subseteq 1 .. emitted'
  BY RunNumbers
<1>3. (StoredIds \subseteq 1 .. emitted \cup {End})'
  BY <1>1, <1>2 DEF TableInv, End
<1>4. (~ hasRow => base = <<>> /\ chunks = <<>>)'
  BY DEF TableInv
<1>5. (End \in StoredIds => phase \in PastEnd)'
  BY <1>1 DEF TableInv, End, PastEnd
<1>6. (\A i \in DOMAIN chunks :
           End \in ToSet(chunks[i].events) => i = Len(chunks) /\ chunks[i].events = <<End>>)'
  BY DEF TableInv, End
<1>7. (\A i \in DOMAIN chunks : chunks[i].seq <= Cardinality(StoredIds) + 1)'
  BY <1>1 DEF TableInv
<1> QED BY <1>1, <1>3, <1>4, <1>5, <1>6, <1>7 DEF TableInv

\* A flight that a step leaves alone still believes saved what is saved.
LEMMA FlightKept ==
    ASSUME StoreTypes, StoreTypes', NEW f \in Slots, flights[f] # NoFlight, FlightInv(f),
           flights'[f] = flights[f], StoredIds \subseteq StoredIds',
           emitted' \in {emitted, emitted + 1}, DOMAIN caches \subseteq DOMAIN caches'
    PROVE  FlightInv(f)'
<1>1. 1 .. emitted \subseteq 1 .. emitted'
  BY RunNumbers
<1>2. StoredIds' \in SUBSET (1 .. End)
  <2>1. (StoredIds \in SUBSET (1 .. End) /\ Cardinality(StoredIds) \in Nat)'
    BY StoredTypes, PTL
  <2> QED BY <2>1 DEF End
<1>3. /\ Cardinality(StoredIds) <= Cardinality(StoredIds')
      /\ Cardinality(StoredIds) \in Nat /\ Cardinality(StoredIds') \in Nat
  <2> DEFINE S == StoredIds
             T == StoredIds'
  <2>1. S \in SUBSET T /\ T \in SUBSET (1 .. End)
    BY <1>2
  <2> HIDE DEF S, T
  <2>2. Cardinality(S) <= Cardinality(T) /\ Cardinality(S) \in Nat /\ Cardinality(T) \in Nat
    BY <2>1, IdSets
  <2> QED BY <2>2 DEF S, T
<1>4. flights[f].step = "written" => flights[f].seq \in Nat
  BY FlightShape DEF StoreTypes
<1>5. (ToSet(flights[f].chunk) \subseteq 1 .. emitted)'
  BY <1>1 DEF FlightInv
<1>6. (flights[f].step = "loading" => flights[f].loaded \subseteq StoredIds)'
  BY DEF FlightInv
<1>7. (flights[f].step \in {"ready", "written"} => flights[f].cache \in DOMAIN caches)'
  BY DEF FlightInv
<1>8. (flights[f].step = "written" =>
           /\ ToSet(flights[f].new) \subseteq ToSet(flights[f].chunk)
           /\ ToSet(flights[f].chunk) \subseteq ToSet(flights[f].new) \cup StoredIds
           /\ flights[f].seq <= Cardinality(StoredIds) + 1)'
  BY <1>3, <1>4 DEF FlightInv
<1> QED BY <1>5, <1>6, <1>7, <1>8 DEF FlightInv

\* What only reads the rows, the caches and the flights keeps the store, when the phase does
\* not go back before the last flush.
LEMMA QuietStore ==
    ASSUME StoreTypes, StoreTypes', StoreInv,
           UNCHANGED <<scope, emitted, flushVars, hasRow, base, chunks>>,
           \/ phase' = phase
           \/ phase = "streaming" /\ phase' = "flushing"
           \/ /\ phase \notin {"streaming", "flushing", "crashed"}
              /\ phase' \notin {"streaming", "flushing", "crashed"}
              /\ phase \in PastEnd => phase' \in PastEnd
    PROVE  StoreInv'
<1>1. /\ UNCHANGED <<scope, emitted, buffer, retry, flights, caches, seen, gaveUp, hasRow, base, chunks>>
  BY DEF flushVars
<1>2. phase \in PastEnd => phase' \in PastEnd
  BY DEF PastEnd
<1>3. TableInv' /\ StoredIds' = StoredIds
  BY <1>1, <1>2, TablesKept DEF StoreInv
<1>4. Slots' = Slots /\ Flying' = Flying /\ delivery' = delivery
  BY <1>1 DEF Slots, Flying, delivery
<1>5. FlushInv'
  <2>1. ASSUME NEW f \in Flying PROVE FlightInv(f)'
    BY <1>1, <1>3, <2>1 DEF StoreInv, FlushInv, FlightInv
  <2>2. (ToSet(buffer) \subseteq 1 .. emitted /\ ToSet(retry) \subseteq 1 .. emitted)'
    BY <1>1 DEF StoreInv, FlushInv
  <2>3. phase' \notin {"streaming", "flushing"} => phase \notin {"streaming", "flushing"}
    OBVIOUS
  <2>4. (phase \notin {"streaming", "flushing"} => Flying = {} /\ buffer = <<>> /\ retry = <<>>)'
    BY <1>1, <1>4, <2>3 DEF StoreInv, FlushInv
  <2> QED BY <1>4, <2>1, <2>2, <2>4 DEF FlushInv
<1>6. KeptInv'
  BY <1>1, <1>3, <1>4 DEF StoreInv, KeptInv
<1>7. CacheBehindStore'
  BY <1>1, <1>3 DEF StoreInv, CacheBehindStore
<1>8. ProtocolInv'
  <2> SUFFICES ASSUME delivery = "protocol" PROVE ProtocolInv'
    BY <1>4 DEF ProtocolInv
  <2>1. ProtocolInv
    BY DEF StoreInv
  <2>2. ASSUME NEW f \in Flying PROVE OrderedFlight(f)'
    BY <1>1, <1>3, <1>4, <2>1 DEF ProtocolInv, OrderedFlight, KnowsStore, AheadOfStore
  <2>3. (base = <<>> /\ retry = <<>>)'
    BY <1>1, <2>1 DEF ProtocolInv
  <2>4. (Ascending(buffer) /\ AheadOfStore(buffer))'
    BY <1>1, <1>3, <2>1 DEF ProtocolInv, AheadOfStore
  <2>5. (phase \in {"streaming", "flushing"} /\ seen # 0 => caches[seen] = StoredIds)'
    BY <1>1, <1>3, <2>1 DEF ProtocolInv
  <2>6. (\A i \in DOMAIN chunks : Ascending(chunks[i].events))'
    BY <1>1, <2>1 DEF ProtocolInv
  <2>7. (\A i, j \in DOMAIN chunks : i < j =>
             \A e \in ToSet(chunks[i].events), d \in ToSet(chunks[j].events) : e < d)'
    BY <1>1, <2>1 DEF ProtocolInv
  <2> QED BY <1>4, <2>2, <2>3, <2>4, <2>5, <2>6, <2>7 DEF ProtocolInv
<1> QED BY <1>3, <1>5, <1>6, <1>7, <1>8 DEF StoreInv

\* Nothing is saved and nothing is buffered at first.
LEMMA InitStore == Init => StoreInv
<1> SUFFICES ASSUME Init PROVE StoreInv
  OBVIOUS
<1>1. /\ emitted = 0 /\ phase = "streaming" /\ buffer = <<>> /\ retry = <<>>
      /\ flights = [f \in Slots |-> NoFlight] /\ caches = <<>> /\ seen = 0
      /\ base = <<>> /\ chunks = <<>>
  BY DEF Init
<1>2. ToSet(buffer) = {} /\ ToSet(retry) = {} /\ ToSet(base) = {} /\ Ascending(buffer)
  BY <1>1, EmptyList
<1>3. DOMAIN chunks = {} /\ DOMAIN caches = {}
  BY <1>1
<1>4. StoredIds = {} /\ Flying = {} /\ 1 .. emitted = {}
  BY <1>1, <1>2, <1>3 DEF StoredIds, Flying
<1>5. TableInv
  BY <1>1, <1>3, <1>4 DEF TableInv
<1>6. FlushInv
  BY <1>1, <1>2, <1>4 DEF FlushInv
<1>7. KeptInv
  BY <1>4 DEF KeptInv
<1>8. CacheBehindStore
  BY <1>3 DEF CacheBehindStore
<1>9. ProtocolInv
  BY <1>1, <1>2, <1>3, <1>4 DEF ProtocolInv, AheadOfStore
<1> QED BY <1>5, <1>6, <1>7, <1>8, <1>9 DEF StoreInv

-----------------------------------------------------------------------------
(* The steps of a flush *)

\* A statement of a flush keeps the store, when what the flush then believes is true.
LEMMA FlightMoves ==
    ASSUME StoreTypes, StoreTypes', StoreInv, NEW f \in Slots,
           flights[f] # NoFlight, flights'[f] # NoFlight, flights'[f].chunk = flights[f].chunk,
           \A g \in Slots : g # f => flights'[g] = flights[g],
           UNCHANGED <<scope, emitted, phase, buffer, retry, gaveUp, rowVars>>,
           DOMAIN caches \subseteq DOMAIN caches', FlightInv(f)', CacheBehindStore',
           delivery = "protocol" =>
               KnowsStore(f)' /\ (seen' # 0 => caches'[seen'] = StoredIds)
    PROVE  StoreInv'
<1>1. UNCHANGED <<scope, emitted, phase, buffer, retry, gaveUp, hasRow, rowOpen, base, chunks>>
  BY DEF rowVars
<1>2. TableInv' /\ StoredIds' = StoredIds
  BY <1>1, TablesKept DEF StoreInv
<1>3. Slots' = Slots /\ delivery' = delivery
  BY <1>1 DEF Slots, delivery
<1>4. Flying' = Flying /\ f \in Flying
  <2>1. \A g \in Slots : flights'[g] = NoFlight <=> flights[g] = NoFlight
    OBVIOUS
  <2>2. NoFlight' = NoFlight
    BY DEF NoFlight
  <2> QED BY <1>3, <2>1, <2>2 DEF Flying
<1>5. FlushInv'
  <2>1. ASSUME NEW g \in Flying PROVE FlightInv(g)'
    <3>1. CASE g # f
      BY <1>1, <1>2, <2>1, <3>1, FlightKept DEF Flying, StoreInv, FlushInv
    <3> QED BY <3>1
  <2>2. (ToSet(buffer) \subseteq 1 .. emitted /\ ToSet(retry) \subseteq 1 .. emitted)'
    BY <1>1 DEF StoreInv, FlushInv
  <2>3. (phase \notin {"streaming", "flushing"} => Flying = {} /\ buffer = <<>> /\ retry = <<>>)'
    BY <1>1, <1>4 DEF StoreInv, FlushInv
  <2> QED BY <1>4, <2>1, <2>2, <2>3 DEF FlushInv
<1>6. KeptInv'
  <2>1. \A g \in Flying : flights'[g].chunk = flights[g].chunk
    BY DEF Flying
  <2>2. KeptInv
    BY DEF StoreInv
  <2> QED BY <1>1, <1>2, <1>4, <2>1, <2>2 DEF KeptInv
<1>7. ProtocolInv'
  <2> SUFFICES ASSUME delivery = "protocol" PROVE ProtocolInv'
    BY <1>3 DEF ProtocolInv
  <2>1. ProtocolInv
    BY DEF StoreInv
  <2>2. OrderedFlight(f)
    BY <1>4, <2>1 DEF ProtocolInv
  <2>3. OrderedFlight(f)'
    BY <1>1, <1>2, <1>4, <2>2 DEF OrderedFlight, AheadOfStore
  <2>4. \A g \in Flying : OrderedFlight(g)'
    BY <2>2, <2>3 DEF OrderedFlight
  <2>5. (base = <<>> /\ retry = <<>>)'
    BY <1>1, <2>1 DEF ProtocolInv
  <2>6. (Ascending(buffer) /\ AheadOfStore(buffer))'
    BY <1>1, <1>2, <2>1 DEF ProtocolInv, AheadOfStore
  <2>7. (\A i \in DOMAIN chunks : Ascending(chunks[i].events))'
    BY <1>1, <2>1 DEF ProtocolInv
  <2>8. (\A i, j \in DOMAIN chunks : i < j =>
             \A e \in ToSet(chunks[i].events), d \in ToSet(chunks[j].events) : e < d)'
    BY <1>1, <2>1 DEF ProtocolInv
  <2> QED BY <1>2, <1>4, <2>4, <2>5, <2>6, <2>7, <2>8 DEF ProtocolInv
<1> QED BY <1>2, <1>5, <1>6, <1>7 DEF StoreInv

\* A flush is under way only before the trace is closed, when the terminal event is not stored.
LEMMA FlyingPhase ==
    ASSUME StoreTypes, StoreInv, NEW f \in Slots, flights[f] # NoFlight
    PROVE  /\ phase \in {"streaming", "flushing"} /\ f \in Flying /\ FlightInv(f)
           /\ End \notin StoredIds /\ StoredIds \subseteq 1 .. emitted
           /\ delivery = "protocol" => OrderedFlight(f)
<1>1. f \in Flying
  BY DEF Flying
<1>2. phase \in {"streaming", "flushing"}
  BY <1>1 DEF StoreInv, FlushInv
<1>3. End \notin StoredIds /\ StoredIds \subseteq 1 .. emitted
  BY <1>2 DEF StoreInv, TableInv, PastEnd
<1>4. FlightInv(f)
  BY <1>1 DEF StoreInv, FlushInv
<1>5. delivery = "protocol" => OrderedFlight(f)
  BY <1>1 DEF StoreInv, ProtocolInv
<1> QED BY <1>1, <1>2, <1>3, <1>4, <1>5

\* The ids a flush selects are saved.
LEMMA BeginStore ==
    ASSUME StoreTypes, StoreInv, NEW f \in Slots, Begin(f)
    PROVE  StoreInv'
<1> DEFINE fl == IF seen = 0
                 THEN [step |-> "loading", chunk |-> flights[f].chunk, final |-> flights[f].final,
                       loaded |-> StoredIds]
                 ELSE [step |-> "ready", chunk |-> flights[f].chunk, final |-> flights[f].final,
                       cache |-> seen]
<1>1. /\ flights[f].step = "started" /\ flights' = [flights EXCEPT ![f] = fl]
      /\ UNCHANGED <<scope, emitted, phase, status, brokerVars, buffer, retry, caches, seen,
                     gaveUp, rowVars, failures>>
  BY DEF Begin
<1>2. flights \in [Slots -> Flight]
  BY DEF StoreTypes
<1>3. flights[f] # NoFlight
  BY <1>1 DEF NoFlight
<1>4. flights'[f] = fl /\ \A g \in Slots : g # f => flights'[g] = flights[g]
  BY <1>1, <1>2
<1>5. StoreTypes'
  BY BeginTypes
<1>6. /\ fl # NoFlight /\ fl.chunk = flights[f].chunk
      /\ fl.step = IF seen = 0 THEN "loading" ELSE "ready"
      /\ seen = 0 => fl.loaded = StoredIds
      /\ seen # 0 => fl.cache = seen
  <2>1. fl.step = IF seen = 0 THEN "loading" ELSE "ready"
    OBVIOUS
  <2>2. fl # NoFlight
    BY <2>1 DEF NoFlight
  <2> QED BY <2>1, <2>2
<1> HIDE DEF fl
<1>7. StoredIds' = StoredIds
  BY <1>1 DEF rowVars, StoredIds
<1>8. FlightInv(f) /\ phase \in {"streaming", "flushing"} /\ (delivery = "protocol" => OrderedFlight(f))
  BY <1>3, FlyingPhase
<1>9. seen # 0 => seen \in DOMAIN caches
  BY LenProperties DEF StoreTypes
<1>10. FlightInv(f)'
  BY <1>1, <1>4, <1>6, <1>7, <1>8, <1>9 DEF FlightInv
<1>11. CacheBehindStore'
  BY <1>1, <1>7 DEF StoreInv, CacheBehindStore
<1>12. delivery = "protocol" => KnowsStore(f)' /\ (seen' # 0 => caches'[seen'] = StoredIds)
  <2> SUFFICES ASSUME delivery = "protocol"
               PROVE  KnowsStore(f)' /\ (seen' # 0 => caches'[seen'] = StoredIds)
    OBVIOUS
  <2>1. seen # 0 => caches[seen] = StoredIds
    BY <1>8 DEF StoreInv, ProtocolInv
  <2> QED BY <1>1, <1>4, <1>6, <1>7, <2>1 DEF KnowsStore
<1> QED BY <1>1, <1>3, <1>4, <1>5, <1>6, <1>10, <1>11, <1>12, FlightMoves

\* A cache of ids that were selected is behind the tables.
LEMMA LoadedStore ==
    ASSUME StoreTypes, StoreInv, NEW f \in Slots, Loaded(f)
    PROVE  StoreInv'
<1> DEFINE fl == [step |-> "ready", chunk |-> flights[f].chunk, final |-> flights[f].final,
                  cache |-> Len(caches')]
<1>1. /\ flights[f].step = "loading" /\ flights' = [flights EXCEPT ![f] = fl]
      /\ caches' = Append(caches, flights[f].loaded) /\ seen' = Len(caches')
      /\ UNCHANGED <<scope, emitted, phase, status, brokerVars, buffer, retry, gaveUp, rowVars,
                     failures>>
  BY DEF Loaded
<1>2. flights \in [Slots -> Flight]
  BY DEF StoreTypes
<1>3. flights[f] # NoFlight
  BY <1>1 DEF NoFlight
<1>4. flights'[f] = fl /\ \A g \in Slots : g # f => flights'[g] = flights[g]
  BY <1>1, <1>2
<1>5. StoreTypes'
  BY LoadedTypes
<1>6. fl # NoFlight /\ fl.chunk = flights[f].chunk /\ fl.step = "ready" /\ fl.cache = Len(caches')
  <2>1. fl.step = "ready"
    OBVIOUS
  <2>2. fl # NoFlight
    BY <2>1 DEF NoFlight
  <2> QED BY <2>1, <2>2
<1> HIDE DEF fl
<1>7. StoredIds' = StoredIds
  BY <1>1 DEF rowVars, StoredIds
<1>8. FlightInv(f) /\ (delivery = "protocol" => OrderedFlight(f))
  BY <1>3, FlyingPhase
<1>9. /\ DOMAIN caches = 1 .. Len(caches) /\ Len(caches) \in Nat
      /\ DOMAIN caches' = 1 .. Len(caches) + 1 /\ Len(caches') = Len(caches) + 1
      /\ \A i \in 1 .. Len(caches) : caches'[i] = caches[i]
      /\ caches'[Len(caches')] = flights[f].loaded
  <2> DEFINE U == SUBSET (1 .. End)
             loaded == flights[f].loaded
  <2>1. caches \in Seq(U) /\ loaded \in U
    BY <1>1, FlightShape DEF StoreTypes
  <2> HIDE DEF U, loaded
  <2>2. caches' = Append(caches, loaded)
    BY <1>1 DEF loaded
  <2> QED BY <2>1, <2>2, AppendProperties, LenProperties DEF loaded
<1>10. Len(caches') \in DOMAIN caches' /\ DOMAIN caches \subseteq DOMAIN caches'
  BY <1>9
<1>11. FlightInv(f)'
  BY <1>1, <1>4, <1>6, <1>7, <1>8, <1>10 DEF FlightInv
<1>12. CacheBehindStore'
  <2>1. flights[f].loaded \subseteq StoredIds
    BY <1>1, <1>8 DEF FlightInv
  <2>2. \A i \in DOMAIN caches' : i \in DOMAIN caches \/ i = Len(caches')
    BY <1>9
  <2>3. \A i \in DOMAIN caches' : caches'[i] \subseteq StoredIds
    BY <1>9, <2>1, <2>2 DEF StoreInv, CacheBehindStore
  <2> QED BY <1>7, <2>3 DEF CacheBehindStore
<1>13. delivery = "protocol" => KnowsStore(f)' /\ (seen' # 0 => caches'[seen'] = StoredIds)
  <2> SUFFICES ASSUME delivery = "protocol"
               PROVE  KnowsStore(f)' /\ (seen' # 0 => caches'[seen'] = StoredIds)
    OBVIOUS
  <2>1. flights[f].loaded = StoredIds
    BY <1>1, <1>8 DEF OrderedFlight, KnowsStore
  <2> QED BY <1>1, <1>4, <1>6, <1>7, <1>9, <2>1 DEF KnowsStore
<1> QED BY <1>1, <1>3, <1>4, <1>5, <1>6, <1>10, <1>11, <1>12, <1>13, FlightMoves

\* The place of a chunk is one more than the ids its flush knows.
LEMMA WriteStore ==
    ASSUME StoreTypes, StoreInv, NEW f \in Slots, Write(f)
    PROVE  StoreInv'
<1> DEFINE known == caches[flights[f].cache]
           fl == [step |-> "written", chunk |-> flights[f].chunk, final |-> flights[f].final,
                  cache |-> flights[f].cache, new |-> NotKnown(flights[f].chunk, known),
                  seq |-> Cardinality(known) + 1, rowSeen |-> hasRow]
<1>1. /\ flights[f].step = "ready" /\ flights' = [flights EXCEPT ![f] = fl]
      /\ UNCHANGED caches
      /\ UNCHANGED <<scope, emitted, phase, status, brokerVars, buffer, retry, seen, gaveUp,
                     rowVars, failures>>
  BY DEF Write, AppendEvents
<1>2. flights \in [Slots -> Flight]
  BY DEF StoreTypes
<1>3. flights[f] # NoFlight /\ flights[f].chunk \in Seq(Events)
  <2>1. flights[f] # NoFlight
    BY <1>1 DEF NoFlight
  <2> QED BY <1>2, <2>1, FlightShape
<1>4. flights'[f] = fl /\ \A g \in Slots : g # f => flights'[g] = flights[g]
  BY <1>1, <1>2
<1>6. /\ fl # NoFlight /\ fl.chunk = flights[f].chunk /\ fl.step = "written"
      /\ fl.cache = flights[f].cache /\ fl.new = NotKnown(flights[f].chunk, known)
      /\ fl.seq = Cardinality(known) + 1
  <2>1. fl.step = "written"
    OBVIOUS
  <2>2. fl # NoFlight
    BY <2>1 DEF NoFlight
  <2> QED BY <2>1, <2>2
<1> HIDE DEF fl
<1>7. StoredIds' = StoredIds
  BY <1>1 DEF rowVars, StoredIds
<1>8. FlightInv(f) /\ phase \in {"streaming", "flushing"} /\ (delivery = "protocol" => OrderedFlight(f))
  BY <1>3, FlyingPhase
<1>9. flights[f].cache \in DOMAIN caches
  BY <1>1, <1>8 DEF FlightInv
<1>5. StoreTypes'
  BY <1>9, WriteTypes
<1>10. known \subseteq StoredIds
  BY <1>9 DEF StoreInv, CacheBehindStore
<1>11. /\ Cardinality(known) \in Nat /\ Cardinality(StoredIds) \in Nat
       /\ Cardinality(known) <= Cardinality(StoredIds)
  <2> HIDE DEF known
  <2> QED BY <1>10, StoredTypes, IdSets
<1>12. /\ ToSet(fl.new) = ToSet(flights[f].chunk) \ known
       /\ Ascending(flights[f].chunk) => Ascending(fl.new)
  <2> DEFINE chunk == flights[f].chunk
  <2>1. chunk \in Seq(Nat)
    BY <1>3, Sizes, SeqMonotonic
  <2> HIDE DEF known, chunk
  <2>2. /\ ToSet(NotKnown(chunk, known)) = ToSet(chunk) \ known
        /\ Ascending(chunk) => Ascending(NotKnown(chunk, known))
    BY <2>1, NotKnownFacts
  <2> QED BY <1>6, <2>2 DEF chunk
<1>13. FlightInv(f)'
  <2>1. ToSet(fl.new) \subseteq ToSet(fl.chunk) /\ ToSet(fl.chunk) \subseteq ToSet(fl.new) \cup StoredIds
    BY <1>6, <1>10, <1>12
  <2>2. fl.seq <= Cardinality(StoredIds) + 1
    BY <1>6, <1>11
  <2>3. ToSet(fl.chunk) \subseteq 1 .. emitted /\ fl.cache \in DOMAIN caches
    BY <1>6, <1>8, <1>9 DEF FlightInv
  <2> QED BY <1>1, <1>4, <1>6, <1>7, <2>1, <2>2, <2>3 DEF FlightInv
<1>14. CacheBehindStore'
  BY <1>1, <1>7 DEF StoreInv, CacheBehindStore
<1>15. delivery = "protocol" => KnowsStore(f)' /\ (seen' # 0 => caches'[seen'] = StoredIds)
  <2> SUFFICES ASSUME delivery = "protocol"
               PROVE  KnowsStore(f)' /\ (seen' # 0 => caches'[seen'] = StoredIds)
    OBVIOUS
  <2>1. flights[f].cache = seen /\ known = StoredIds /\ Ascending(flights[f].chunk)
    BY <1>1, <1>8 DEF OrderedFlight, KnowsStore
  <2>2. /\ Ascending(fl.new) /\ ToSet(fl.new) \cap StoredIds = {}
        /\ fl.seq = Cardinality(StoredIds) + 1 /\ fl.cache = seen
    BY <1>6, <1>12, <2>1
  <2>3. caches[seen] = StoredIds
    BY <2>1 DEF known
  <2> HIDE DEF known
  <2> QED BY <1>1, <1>4, <1>6, <1>7, <2>2, <2>3 DEF KnowsStore
<1> QED BY <1>1, <1>3, <1>4, <1>5, <1>6, <1>13, <1>14, <1>15, FlightMoves

-----------------------------------------------------------------------------
(* Emitting *)

\* The flushes under way once one more has started.
LEMMA StartedIs ==
    ASSUME NEW events, NEW final
    PROVE  /\ Started(events, final).step = "started" /\ Started(events, final).chunk = events
           /\ Started(events, final) # NoFlight
  BY DEF Started, NoFlight

\* What emit has pending: the buffer and the new event, which follows everything stored.
LEMMA Pending ==
    ASSUME StoreTypes, StoreInv, Emit
    PROVE  /\ emitted' = emitted + 1 /\ 1 .. emitted' = 1 .. emitted \cup {emitted'}
           /\ Append(buffer, emitted') \in Seq(Events)
           /\ ToSet(Append(buffer, emitted')) = ToSet(buffer) \cup {emitted'}
           /\ \A e \in 1 .. emitted : e < emitted'
           /\ StoredIds \subseteq 1 .. emitted /\ StoredIds' = StoredIds /\ TableInv'
           /\ delivery = "protocol" =>
                  /\ Ascending(Append(buffer, emitted'))
                  /\ \A e \in ToSet(Append(buffer, emitted')) :
                         e \in StoredIds \/ \A s \in StoredIds : s < e
<1>1. /\ emitted' = emitted + 1 /\ phase = "streaming" /\ emitted < scope.events
      /\ UNCHANGED <<scope, phase, status, retry, caches, seen, gaveUp, rowVars, failures>>
  BY DEF Emit
<1>2. emitted' \in Events /\ emitted \in Nat
  BY <1>1, RunNumbers
<1>3. 1 .. emitted' = 1 .. emitted \cup {emitted'} /\ \A e \in 1 .. emitted : e < emitted'
  BY <1>1, <1>2
<1> DEFINE n == emitted'
           pending == Append(buffer, n)
<1>4. buffer \in Seq(Events) /\ n \in Events
  BY <1>2 DEF StoreTypes
<1>5. ToSet(buffer) \subseteq 1 .. emitted
  BY DEF StoreInv, FlushInv
<1>6. StoredIds \subseteq 1 .. emitted
  BY <1>1 DEF StoreInv, TableInv, PastEnd
<1>7. StoredIds' = StoredIds /\ TableInv'
  BY <1>1, TablesKept DEF StoreInv, rowVars
<1>8. \A e \in 1 .. emitted : e < n
  BY <1>3
<1>9. n \in Nat
  BY <1>1, <1>2
<1> HIDE DEF n, pending
<1>10. pending \in Seq(Events) /\ ToSet(pending) = ToSet(buffer) \cup {n}
  BY <1>4, AppendElements DEF pending
<1>11. delivery = "protocol" =>
           Ascending(pending) /\ \A e \in ToSet(pending) : e \in StoredIds \/ \A s \in StoredIds : s < e
  <2> SUFFICES ASSUME delivery = "protocol"
               PROVE  /\ Ascending(pending)
                      /\ \A e \in ToSet(pending) : e \in StoredIds \/ \A s \in StoredIds : s < e
    OBVIOUS
  <2>1. Ascending(buffer) /\ AheadOfStore(buffer)
    BY DEF StoreInv, ProtocolInv
  <2>2. buffer \in Seq(Nat)
    BY <1>4, Sizes, SeqMonotonic
  <2>3. \A x \in ToSet(buffer) : x < n
    BY <1>5, <1>8
  <2>4. Ascending(pending)
    BY <1>9, <2>1, <2>2, <2>3, AppendAscending DEF pending
  <2>5. \A e \in ToSet(pending) : e \in StoredIds \/ \A s \in StoredIds : s < e
    BY <1>6, <1>8, <1>10, <2>1 DEF AheadOfStore
  <2> QED BY <2>4, <2>5
<1> QED BY <1>1, <1>3, <1>6, <1>7, <1>10, <1>11 DEF n, pending

\* The event waits in the buffer.
LEMMA EmitBuffers ==
    ASSUME StoreTypes, StoreInv, Emit, buffer' = Append(buffer, emitted'), UNCHANGED flights
    PROVE  StoreInv'
<1>1. /\ phase = "streaming"
      /\ UNCHANGED <<scope, phase, status, retry, caches, seen, gaveUp, hasRow, rowOpen, base,
                     chunks, failures>>
  BY DEF Emit, rowVars
<1>2. /\ emitted' = emitted + 1 /\ 1 .. emitted' = 1 .. emitted \cup {emitted'}
      /\ ToSet(buffer') = ToSet(buffer) \cup {emitted'}
      /\ \A e \in 1 .. emitted : e < emitted'
      /\ StoredIds' = StoredIds /\ TableInv'
      /\ delivery = "protocol" =>
             /\ Ascending(buffer')
             /\ \A e \in ToSet(buffer') : e \in StoredIds \/ \A s \in StoredIds : s < e
  BY Pending
<1>3. Slots' = Slots /\ delivery' = delivery /\ Flying' = Flying
  BY <1>1 DEF Slots, delivery, Flying, NoFlight
<1>4. StoreTypes'
  BY EmitTypes
<1>5. FlushInv'
  <2>1. ASSUME NEW f \in Flying PROVE FlightInv(f)'
    BY <1>1, <1>2, <1>4, FlightKept DEF Flying, StoreInv, FlushInv
  <2>2. (ToSet(buffer) \subseteq 1 .. emitted /\ ToSet(retry) \subseteq 1 .. emitted)'
    BY <1>1, <1>2 DEF StoreInv, FlushInv
  <2> QED BY <1>1, <1>3, <2>1, <2>2 DEF FlushInv
<1>6. KeptInv'
  <2>1. KeptInv
    BY DEF StoreInv
  <2> QED BY <1>1, <1>2, <1>3, <2>1 DEF KeptInv
<1>7. CacheBehindStore'
  BY <1>1, <1>2 DEF StoreInv, CacheBehindStore
<1>8. ProtocolInv'
  <2> SUFFICES ASSUME delivery = "protocol" PROVE ProtocolInv'
    BY <1>3 DEF ProtocolInv
  <2>1. ProtocolInv /\ FlushInv
    BY DEF StoreInv
  <2>2. ASSUME NEW f \in Flying PROVE OrderedFlight(f)'
    <3>1. OrderedFlight(f) /\ ToSet(flights[f].chunk) \subseteq 1 .. emitted
      BY <2>1 DEF ProtocolInv, FlushInv, FlightInv
    <3>2. (KnowsStore(f))'
      BY <1>1, <1>2, <3>1 DEF OrderedFlight, KnowsStore
    <3>3. \A e \in ToSet(flights[f].chunk), d \in ToSet(buffer') : e < d
      BY <1>2, <3>1 DEF OrderedFlight
    <3> QED BY <1>2, <1>3, <3>1, <3>2, <3>3 DEF OrderedFlight, AheadOfStore
  <2>3. (base = <<>> /\ retry = <<>>)'
    BY <1>1, <2>1 DEF ProtocolInv
  <2>4. (Ascending(buffer) /\ AheadOfStore(buffer))'
    BY <1>2 DEF AheadOfStore
  <2>5. (phase \in {"streaming", "flushing"} /\ seen # 0 => caches[seen] = StoredIds)'
    BY <1>1, <1>2, <2>1 DEF ProtocolInv
  <2>6. (\A i \in DOMAIN chunks : Ascending(chunks[i].events))'
    BY <1>1, <2>1 DEF ProtocolInv
  <2>7. (\A i, j \in DOMAIN chunks : i < j =>
             \A e \in ToSet(chunks[i].events), d \in ToSet(chunks[j].events) : e < d)'
    BY <1>1, <2>1 DEF ProtocolInv
  <2> QED BY <1>3, <2>2, <2>3, <2>4, <2>5, <2>6, <2>7 DEF ProtocolInv
<1> QED BY <1>2, <1>5, <1>6, <1>7, <1>8 DEF StoreInv

\* The event leaves with the buffer in a new flush.
LEMMA EmitFlushes ==
    ASSUME StoreTypes, StoreInv, Emit, FreeSlots # {}, buffer' = <<>>,
           flights' = [flights EXCEPT ![LowestFree] = Started(Append(buffer, emitted'), FALSE)]
    PROVE  StoreInv'
<1> DEFINE pending == Append(buffer, emitted')
<1>0. PICK s \in Slots : s = LowestFree
  BY LowestIsFree
<1>1. /\ phase = "streaming"
      /\ UNCHANGED <<scope, phase, status, retry, caches, seen, gaveUp, hasRow, rowOpen, base,
                     chunks, failures>>
  BY DEF Emit, rowVars
<1>2. /\ emitted' = emitted + 1 /\ 1 .. emitted' = 1 .. emitted \cup {emitted'}
      /\ ToSet(pending) = ToSet(buffer) \cup {emitted'}
      /\ StoredIds' = StoredIds /\ TableInv'
      /\ delivery = "protocol" =>
             /\ Ascending(pending)
             /\ \A e \in ToSet(pending) : e \in StoredIds \/ \A t \in StoredIds : t < e
  BY Pending
<1>3. Slots' = Slots /\ delivery' = delivery
  BY <1>1 DEF Slots, delivery
<1>4. StoreTypes'
  BY EmitTypes
<1>5. flights[s] = NoFlight /\ (delivery = "protocol" => Idle)
  BY <1>0, LowestIsFree
<1>6. /\ flights'[s].step = "started" /\ flights'[s].chunk = pending /\ flights'[s] # NoFlight
      /\ \A g \in Slots : g # s => flights'[g] = flights[g]
  <2>1. flights \in [Slots -> Flight]
    BY DEF StoreTypes
  <2>2. flights'[s] = Started(pending, FALSE) /\ \A g \in Slots : g # s => flights'[g] = flights[g]
    BY <1>0, <2>1
  <2>3. \A x : Started(x, FALSE).step = "started" /\ Started(x, FALSE).chunk = x
               /\ Started(x, FALSE) # NoFlight
    BY StartedIs
  <2> HIDE DEF pending
  <2> QED BY <2>2, <2>3
<1>7. ToSet(buffer') = {} /\ Ascending(buffer')
  BY EmptyList
<1> HIDE DEF pending
<1>8. Flying' = Flying \cup {s} /\ s \notin Flying
  <2>1. NoFlight' = NoFlight
    BY DEF NoFlight
  <2> QED BY <1>3, <1>5, <1>6, <2>1 DEF Flying
<1>9. FlushInv'
  <2>1. ASSUME NEW f \in Flying PROVE FlightInv(f)'
    <3>1. f \in Slots /\ flights[f] # NoFlight /\ FlightInv(f) /\ flights'[f] = flights[f]
      BY <1>6, <1>8 DEF Flying, StoreInv, FlushInv
    <3> QED BY <1>1, <1>2, <1>4, <3>1, FlightKept
  <2>2. FlightInv(s)'
    <3>1. ToSet(pending) \subseteq 1 .. emitted'
      BY <1>2 DEF StoreInv, FlushInv
    <3> QED BY <1>6, <3>1 DEF FlightInv
  <2>3. (ToSet(buffer) \subseteq 1 .. emitted /\ ToSet(retry) \subseteq 1 .. emitted)'
    BY <1>1, <1>2, <1>7 DEF StoreInv, FlushInv
  <2> QED BY <1>1, <1>8, <2>1, <2>2, <2>3 DEF FlushInv
<1>10. KeptInv'
  <2> SUFFICES ASSUME ~ gaveUp, NEW e \in 1 .. emitted'
               PROVE  \/ e \in StoredIds' \cup ToSet(buffer') \cup ToSet(retry')
                      \/ \E f \in Flying' : e \in ToSet(flights'[f].chunk)
    BY <1>1 DEF KeptInv
  <2>1. CASE e \in ToSet(pending)
    BY <1>6, <1>8, <2>1
  <2>2. CASE e \notin ToSet(pending)
    <3>1. e \in 1 .. emitted /\ e \notin ToSet(buffer)
      BY <1>2, <2>2
    <3>2. e \in StoredIds \cup ToSet(retry) \/ \E f \in Flying : e \in ToSet(flights[f].chunk)
      BY <1>1, <3>1 DEF StoreInv, KeptInv
    <3>3. \A f \in Flying : f \in Flying' /\ flights'[f] = flights[f]
      BY <1>6, <1>8 DEF Flying
    <3> QED BY <1>1, <1>2, <3>2, <3>3
  <2> QED BY <2>1, <2>2
<1>11. CacheBehindStore'
  BY <1>1, <1>2 DEF StoreInv, CacheBehindStore
<1>12. ProtocolInv'
  <2> SUFFICES ASSUME delivery = "protocol" PROVE ProtocolInv'
    BY <1>3 DEF ProtocolInv
  <2>1. ProtocolInv
    BY DEF StoreInv
  <2>2. Flying' = {s}
    BY <1>5, <1>8 DEF Idle, Flying
  <2>3. OrderedFlight(s)'
    <3>1. KnowsStore(s)'
      BY <1>6 DEF KnowsStore
    <3>2. AheadOfStore(flights[s].chunk)'
      BY <1>2, <1>6 DEF AheadOfStore
    <3>3. (\A e \in ToSet(flights[s].chunk), d \in ToSet(buffer) : e < d)'
      BY <1>7
    <3>4. Ascending(flights'[s].chunk)
      BY <1>2, <1>6
    <3>5. \A g \in Flying' : g = s
      BY <2>2
    <3> QED BY <3>1, <3>2, <3>3, <3>4, <3>5 DEF OrderedFlight
  <2>4. (base = <<>> /\ retry = <<>>)'
    BY <1>1, <2>1 DEF ProtocolInv
  <2>5. (Ascending(buffer) /\ AheadOfStore(buffer))'
    BY <1>7 DEF AheadOfStore
  <2>6. (phase \in {"streaming", "flushing"} /\ seen # 0 => caches[seen] = StoredIds)'
    BY <1>1, <1>2, <2>1 DEF ProtocolInv
  <2>7. (\A i \in DOMAIN chunks : Ascending(chunks[i].events))'
    BY <1>1, <2>1 DEF ProtocolInv
  <2>8. (\A i, j \in DOMAIN chunks : i < j =>
             \A e \in ToSet(chunks[i].events), d \in ToSet(chunks[j].events) : e < d)'
    BY <1>1, <2>1 DEF ProtocolInv
  <2>9. \A f \in Flying' : OrderedFlight(f)'
    BY <2>2, <2>3
  <2> QED BY <1>3, <2>4, <2>5, <2>6, <2>7, <2>8, <2>9 DEF ProtocolInv
<1> QED BY <1>2, <1>9, <1>10, <1>11, <1>12 DEF StoreInv

\* The event emitted is in the buffer or in the flush that starts.
LEMMA EmitStore == StoreTypes /\ StoreInv /\ Emit => StoreInv'
<1> SUFFICES ASSUME StoreTypes, StoreInv, Emit PROVE StoreInv'
  OBVIOUS
<1>1. \/ buffer' = Append(buffer, emitted') /\ UNCHANGED flights
      \/ /\ FreeSlots # {} /\ buffer' = <<>>
         /\ flights' = [flights EXCEPT ![LowestFree] = Started(Append(buffer, emitted'), FALSE)]
  BY DEF Emit, LowestFree
<1> QED BY <1>1, EmitBuffers, EmitFlushes

-----------------------------------------------------------------------------
(* The commit of a flush *)

\* The chunk of a protocol flush goes after the chunks that are saved.
LEMMA AppendedChunk ==
    ASSUME chunks \in Seq(ChunkRow), NEW row \in ChunkRow, chunks' = Append(chunks, row)
    PROVE  /\ Len(chunks) \in Nat /\ DOMAIN chunks = 1 .. Len(chunks)
           /\ Len(chunks') = Len(chunks) + 1 /\ DOMAIN chunks' = 1 .. Len(chunks) + 1
           /\ \A i \in DOMAIN chunks : chunks'[i] = chunks[i]
           /\ chunks'[Len(chunks) + 1] = row
<1> DEFINE S == ChunkRow
<1>1. chunks \in Seq(S) /\ row \in S
  OBVIOUS
<1> HIDE DEF S
<1>2. chunks' \in Seq(S) /\ Len(chunks') = Len(chunks) + 1 /\ chunks'[Len(chunks) + 1] = row
      /\ \A i \in 1 .. Len(chunks) : chunks'[i] = chunks[i]
  BY <1>1, AppendProperties
<1>3. Len(chunks) \in Nat /\ DOMAIN chunks = 1 .. Len(chunks) /\ DOMAIN chunks' = 1 .. Len(chunks')
  BY <1>1, <1>2, LenProperties
<1> QED BY <1>2, <1>3

\* A chunk of ids beyond what is stored, written last, keeps the rows in order.
LEMMA OrderedAppend ==
    ASSUME StoreTypes, NEW row \in ChunkRow, chunks' = Append(chunks, row),
           Ascending(row.events),
           \A e \in ToSet(row.events), s \in StoredIds : s < e,
           \A i \in DOMAIN chunks : Ascending(chunks[i].events),
           \A i, j \in DOMAIN chunks : i < j =>
               \A e \in ToSet(chunks[i].events), d \in ToSet(chunks[j].events) : e < d
    PROVE  /\ \A i \in DOMAIN chunks' : Ascending(chunks'[i].events)
           /\ \A i, j \in DOMAIN chunks' : i < j =>
                  \A e \in ToSet(chunks'[i].events), d \in ToSet(chunks'[j].events) : e < d
<1>1. /\ Len(chunks) \in Nat /\ DOMAIN chunks = 1 .. Len(chunks)
      /\ DOMAIN chunks' = 1 .. Len(chunks) + 1
      /\ \A i \in DOMAIN chunks : chunks'[i] = chunks[i]
      /\ chunks'[Len(chunks) + 1] = row
  BY AppendedChunk DEF StoreTypes
<1>2. \A i \in DOMAIN chunks' : i \in DOMAIN chunks \/ i = Len(chunks) + 1
  BY <1>1
<1>3. \A i \in DOMAIN chunks' : Ascending(chunks'[i].events)
  BY <1>1, <1>2
<1>4. ASSUME NEW i \in DOMAIN chunks', NEW j \in DOMAIN chunks', i < j,
             NEW e \in ToSet(chunks'[i].events), NEW d \in ToSet(chunks'[j].events)
      PROVE  e < d
  <2>1. i \in DOMAIN chunks
    BY <1>1, <1>4
  <2>2. CASE j \in DOMAIN chunks
    BY <1>1, <1>4, <2>1, <2>2
  <2>3. CASE j = Len(chunks) + 1
    <3>1. e \in ToSet(chunks[i].events) /\ d \in ToSet(row.events)
      BY <1>1, <2>1, <2>3
    <3>2. e \in StoredIds
      BY <2>1, <3>1 DEF StoredIds
    <3> QED BY <3>1, <3>2
  <2> QED BY <1>2, <2>2, <2>3
<1> QED BY <1>3, <1>4

\* The commit of a chunk adds its ids to the tables.
LEMMA CommitRowStore ==
    ASSUME StoreTypes, StoreTypes', StoreInv, NEW f \in Slots, CommitRow(f),
           UNCHANGED <<scope, emitted, phase>>
    PROVE  /\ TableInv'
           /\ StoredIds' = StoredIds \cup ToSet(flights[f].new)
           /\ ToSet(flights[f].new) \subseteq ToSet(flights[f].chunk)
           /\ ToSet(flights[f].chunk) \subseteq StoredIds'
           /\ base' = base
           /\ delivery = "protocol" =>
                  /\ \A i \in DOMAIN chunks' : Ascending(chunks'[i].events)
                  /\ \A i, j \in DOMAIN chunks' : i < j =>
                         \A e \in ToSet(chunks'[i].events), d \in ToSet(chunks'[j].events) : e < d
<1> DEFINE new == flights[f].new
           seq == flights[f].seq
           row == [seq |-> seq, events |-> new]
<1>1. /\ flights[f].step = "written" /\ flights[f] # NoFlight /\ base' = base
      /\ new \in Seq(1 .. End) /\ seq \in Nat /\ Stored(new, seq)
  BY CommitRowTypes
<1>2. hasRow' = TRUE /\ chunks \in Seq(ChunkRow) /\ row \in ChunkRow
  BY <1>1 DEF CommitRow, StoreTypes, ChunkRow
<1>3. /\ phase \in {"streaming", "flushing"} /\ FlightInv(f)
      /\ End \notin StoredIds /\ StoredIds \subseteq 1 .. emitted
      /\ delivery = "protocol" => OrderedFlight(f)
  BY <1>1, FlyingPhase
<1>4. /\ ToSet(new) \subseteq ToSet(flights[f].chunk)
      /\ ToSet(flights[f].chunk) \subseteq ToSet(new) \cup StoredIds
      /\ seq <= Cardinality(StoredIds) + 1
      /\ ToSet(flights[f].chunk) \subseteq 1 .. emitted
  BY <1>1, <1>3 DEF FlightInv
<1>5. End \notin 1 .. emitted
  BY RunNumbers, Sizes DEF Events
<1> HIDE DEF new, seq
<1>6. StoredIds' = StoredIds \cup ToSet(new)
  BY <1>1, <1>2, StoredFacts
<1>7. \A i \in DOMAIN chunks' : chunks'[i] = row \/ \E j \in DOMAIN chunks : chunks'[i] = chunks[j]
  BY <1>1, <1>2, StoredFacts
<1>8. new # <<>> /\ (\A i \in DOMAIN chunks : chunks[i].seq <= seq) => chunks' = Append(chunks, row)
  BY <1>1, <1>2, StoredFacts
<1>9. StoredIds' \subseteq 1 .. emitted /\ End \notin StoredIds' /\ emitted' = emitted
  BY <1>3, <1>4, <1>5, <1>6
<1>10. TableInv'
  <2>1. (StoredIds \subseteq 1 .. emitted \cup {End})' /\ (End \in StoredIds => phase \in PastEnd)'
    BY <1>9 DEF End
  <2>2. ASSUME NEW i \in DOMAIN chunks' PROVE ToSet(chunks'[i].events) \subseteq StoredIds'
    BY <2>2 DEF StoredIds
  <2>3. (\A i \in DOMAIN chunks :
             End \in ToSet(chunks[i].events) => i = Len(chunks) /\ chunks[i].events = <<End>>)'
    BY <1>9, <2>2 DEF End
  <2>4. ASSUME NEW i \in DOMAIN chunks' PROVE chunks'[i].seq <= Cardinality(StoredIds') + 1
    <3>1. /\ Cardinality(StoredIds) <= Cardinality(StoredIds')
          /\ Cardinality(StoredIds) \in Nat /\ Cardinality(StoredIds') \in Nat
      <4> DEFINE S == StoredIds
                 T == StoredIds'
      <4>1. S \in SUBSET T /\ T \in SUBSET (1 .. End)
        <5>1. (StoredIds \in SUBSET (1 .. End) /\ Cardinality(StoredIds) \in Nat)'
          BY StoredTypes, PTL
        <5> QED BY <1>6, <5>1 DEF End
      <4> HIDE DEF S, T
      <4>2. Cardinality(S) <= Cardinality(T) /\ Cardinality(S) \in Nat /\ Cardinality(T) \in Nat
        BY <4>1, IdSets
      <4> QED BY <4>2 DEF S, T
    <3>2. CASE chunks'[i] = row
      BY <1>1, <1>4, <3>1, <3>2
    <3>3. CASE \E j \in DOMAIN chunks : chunks'[i] = chunks[j]
      <4>1. PICK j \in DOMAIN chunks : chunks'[i] = chunks[j]
        BY <3>3
      <4>2. chunks[j].seq <= Cardinality(StoredIds) + 1
        BY DEF StoreInv, TableInv
      <4>3. chunks[j].seq \in Nat
        <5>1. chunks[j] \in ChunkRow
          BY <1>2, ElementOfSeq, LenProperties
        <5> QED BY <5>1 DEF ChunkRow
      <4> QED BY <3>1, <4>1, <4>2, <4>3
    <3> QED BY <1>7, <3>2, <3>3
  <2> QED BY <1>2, <2>1, <2>3, <2>4 DEF TableInv
<1>11. ASSUME delivery = "protocol"
       PROVE  /\ \A i \in DOMAIN chunks' : Ascending(chunks'[i].events)
              /\ \A i, j \in DOMAIN chunks' : i < j =>
                     \A e \in ToSet(chunks'[i].events), d \in ToSet(chunks'[j].events) : e < d
  <2>1. /\ \A i \in DOMAIN chunks : Ascending(chunks[i].events)
        /\ \A i, j \in DOMAIN chunks : i < j =>
               \A e \in ToSet(chunks[i].events), d \in ToSet(chunks[j].events) : e < d
    BY <1>11 DEF StoreInv, ProtocolInv
  <2>2. CASE new = <<>>
    <3>1. chunks' = chunks
      BY <1>1, <2>2 DEF Stored
    <3> QED BY <2>1, <3>1
  <2>3. CASE new # <<>>
    <3>1. /\ Ascending(new) /\ ToSet(new) \cap StoredIds = {} /\ seq = Cardinality(StoredIds) + 1
          /\ AheadOfStore(flights[f].chunk)
      BY <1>1, <1>3, <1>11 DEF OrderedFlight, KnowsStore, new, seq
    <3>2. \A e \in ToSet(new), s \in StoredIds : s < e
      BY <1>4, <3>1 DEF AheadOfStore
    <3>3. \A i \in DOMAIN chunks : chunks[i].seq <= seq
      BY <3>1 DEF StoreInv, TableInv
    <3>4. chunks' = Append(chunks, row) /\ row.events = new
      BY <1>8, <2>3, <3>3
    <3> HIDE DEF row
    <3> QED BY <1>2, <2>1, <3>1, <3>2, <3>4, OrderedAppend
  <2> QED BY <2>2, <2>3
<1> QED BY <1>1, <1>4, <1>6, <1>10, <1>11 DEF new

\* The commit, and the cache that takes the chunk in after it.
LEMMA CommitStore ==
    ASSUME StoreTypes, StoreInv, NEW f \in Slots, Commit(f)
    PROVE  StoreInv'
<1>1. /\ CommitRow(f) /\ caches' = [caches EXCEPT ![flights[f].cache] = @ \cup ToSet(flights[f].chunk)]
      /\ flights' = [flights EXCEPT ![f] = NoFlight]
      /\ UNCHANGED <<scope, emitted, phase, status, brokerVars, buffer, retry, seen, gaveUp, failures>>
  BY DEF Commit
<1>2. StoreTypes'
  BY CommitTypes
<1>3. /\ TableInv' /\ StoredIds' = StoredIds \cup ToSet(flights[f].new) /\ base' = base
      /\ ToSet(flights[f].new) \subseteq ToSet(flights[f].chunk)
      /\ ToSet(flights[f].chunk) \subseteq StoredIds'
      /\ delivery = "protocol" =>
             /\ \A i \in DOMAIN chunks' : Ascending(chunks'[i].events)
             /\ \A i, j \in DOMAIN chunks' : i < j =>
                    \A e \in ToSet(chunks'[i].events), d \in ToSet(chunks'[j].events) : e < d
  BY <1>1, <1>2, CommitRowStore
<1>4. flights[f].step = "written" /\ flights[f] # NoFlight
  BY <1>1, CommitRowTypes
<1>5. phase \in {"streaming", "flushing"} /\ f \in Flying /\ FlightInv(f)
      /\ (delivery = "protocol" => OrderedFlight(f))
  BY <1>4, FlyingPhase
<1>6. Slots' = Slots /\ delivery' = delivery
  BY <1>1 DEF Slots, delivery
<1>7. flights'[f] = NoFlight /\ \A g \in Slots : g # f => flights'[g] = flights[g]
  BY <1>1 DEF StoreTypes
<1>8. Flying' = Flying \ {f}
  <2>1. NoFlight' = NoFlight
    BY DEF NoFlight
  <2> QED BY <1>6, <1>7, <2>1 DEF Flying
<1>9. flights[f].cache \in DOMAIN caches /\ DOMAIN caches' = DOMAIN caches
      /\ caches'[flights[f].cache] = caches[flights[f].cache] \cup ToSet(flights[f].chunk)
      /\ \A i \in DOMAIN caches : i # flights[f].cache => caches'[i] = caches[i]
  <2>1. flights[f].cache \in DOMAIN caches
    BY <1>4, <1>5 DEF FlightInv
  <2>2. caches \in [DOMAIN caches -> SUBSET (1 .. End)]
    <3> DEFINE U == SUBSET (1 .. End)
    <3>1. caches \in Seq(U)
      BY DEF StoreTypes
    <3> HIDE DEF U
    <3>2. caches \in [DOMAIN caches -> U]
      BY <3>1, LenProperties
    <3> QED BY <3>2 DEF U
  <2> QED BY <1>1, <2>1, <2>2
<1>10. FlushInv'
  <2>1. ASSUME NEW g \in Flying' PROVE FlightInv(g)'
    <3>1. g \in Slots /\ flights[g] # NoFlight /\ FlightInv(g) /\ flights'[g] = flights[g]
      BY <1>7, <1>8 DEF Flying, StoreInv, FlushInv
    <3> QED BY <1>1, <1>2, <1>3, <1>9, <3>1, FlightKept
  <2>2. (ToSet(buffer) \subseteq 1 .. emitted /\ ToSet(retry) \subseteq 1 .. emitted)'
    BY <1>1 DEF StoreInv, FlushInv
  <2> QED BY <1>1, <1>5, <2>1, <2>2 DEF FlushInv
<1>11. KeptInv'
  <2> SUFFICES ASSUME ~ gaveUp, NEW e \in 1 .. emitted
               PROVE  \/ e \in StoredIds' \cup ToSet(buffer) \cup ToSet(retry)
                      \/ \E g \in Flying' : e \in ToSet(flights'[g].chunk)
    BY <1>1 DEF KeptInv
  <2>1. \/ e \in StoredIds \cup ToSet(buffer) \cup ToSet(retry)
        \/ \E g \in Flying : e \in ToSet(flights[g].chunk)
    BY <1>5 DEF StoreInv, KeptInv
  <2>2. \A g \in Flying : g # f => g \in Flying' /\ flights'[g] = flights[g]
    BY <1>7, <1>8 DEF Flying
  <2> QED BY <1>3, <2>1, <2>2
<1>12. CacheBehindStore'
  <2>1. \A i \in DOMAIN caches : caches[i] \subseteq StoredIds
    BY DEF StoreInv, CacheBehindStore
  <2>2. \A i \in DOMAIN caches' : caches'[i] \subseteq StoredIds'
    BY <1>3, <1>9, <2>1
  <2> QED BY <2>2 DEF CacheBehindStore
<1>13. ProtocolInv'
  <2> SUFFICES ASSUME delivery = "protocol" PROVE ProtocolInv'
    BY <1>6 DEF ProtocolInv
  <2>1. ProtocolInv /\ OrderedFlight(f)
    BY <1>5 DEF StoreInv
  <2>2. Flying' = {}
    BY <1>8, <2>1 DEF OrderedFlight
  <2>3. (base = <<>> /\ retry = <<>>)'
    BY <1>1, <1>3, <2>1 DEF ProtocolInv
  <2>4. (Ascending(buffer) /\ AheadOfStore(buffer))'
    <3>1. \A e \in ToSet(flights[f].chunk), d \in ToSet(buffer) : e < d
      BY <2>1 DEF OrderedFlight
    <3>2. Ascending(buffer) /\ AheadOfStore(buffer)
      BY <2>1 DEF ProtocolInv
    <3> QED BY <1>1, <1>3, <3>1, <3>2 DEF AheadOfStore
  <2>5. seen' # 0 => caches'[seen'] = StoredIds'
    <3>1. flights[f].cache = seen /\ caches[seen] = StoredIds /\ seen' = seen
      BY <1>1, <1>4, <2>1 DEF OrderedFlight, KnowsStore
    <3>2. ToSet(flights[f].chunk) \cup StoredIds = StoredIds'
      BY <1>3
    <3> QED BY <1>9, <3>1, <3>2
  <2> QED BY <1>3, <2>2, <2>3, <2>4, <2>5 DEF ProtocolInv
<1> QED BY <1>3, <1>10, <1>11, <1>12, <1>13 DEF StoreInv

-----------------------------------------------------------------------------
(* The failure of a flush *)

\* What is requeued was in the flush or in the buffer it joins; nothing is lost but with gaveUp.
LEMMA RaisedFacts ==
    ASSUME StoreTypes, StoreInv, NEW f \in Slots, flights[f] # NoFlight, Raised(f)
    PROVE  /\ ToSet(buffer') \cup ToSet(retry')
                  \subseteq ToSet(buffer) \cup ToSet(retry) \cup ToSet(flights[f].chunk)
           /\ ~ gaveUp' => ~ gaveUp
                  /\ ToSet(buffer') \cup ToSet(retry')
                         = ToSet(buffer) \cup ToSet(retry) \cup ToSet(flights[f].chunk)
           /\ delivery = "protocol" =>
                  retry' = <<>> /\ Ascending(buffer')
<1>0. PICK chunk : chunk = flights[f].chunk
  OBVIOUS
<1> DEFINE r == retry \o chunk
           b == chunk \o buffer
<1>1. chunk \in Seq(Events) /\ buffer \in Seq(Events) /\ retry \in Seq(Events)
  BY <1>0, FlightShape DEF StoreTypes
<1>2. /\ \/ gaveUp' = TRUE /\ UNCHANGED <<buffer, retry>>
         \/ /\ delivery = "chat" /\ retry' = Capped(r) /\ UNCHANGED buffer
            /\ gaveUp' = (gaveUp \/ Len(r) > RetryCap)
         \/ /\ delivery = "protocol" /\ buffer' = Capped(b) /\ UNCHANGED retry
            /\ gaveUp' = (gaveUp \/ Len(b) > RetryCap)
  BY <1>0 DEF Raised, Requeued
<1>3. delivery = "protocol" => OrderedFlight(f) /\ retry = <<>> /\ Ascending(buffer)
  BY FlyingPhase DEF StoreInv, ProtocolInv
<1>4. delivery = "protocol" => Ascending(chunk) /\ \A x \in ToSet(chunk), y \in ToSet(buffer) : x < y
  BY <1>0, <1>3 DEF OrderedFlight
<1>5. /\ r \in Seq(Events) /\ ToSet(r) = ToSet(retry) \cup ToSet(chunk)
      /\ b \in Seq(Events) /\ ToSet(b) = ToSet(chunk) \cup ToSet(buffer)
  BY <1>1, ConcatElements
<1>6. delivery = "protocol" => Ascending(b)
  <2>1. chunk \in Seq(Nat) /\ buffer \in Seq(Nat)
    BY <1>1, Sizes, SeqMonotonic
  <2> QED BY <1>3, <1>4, <2>1, ConcatAscending
<1> HIDE DEF r, b
<1>7. /\ ToSet(Capped(r)) \subseteq ToSet(r) /\ ToSet(Capped(b)) \subseteq ToSet(b)
      /\ Len(r) <= RetryCap => Capped(r) = r
      /\ Len(b) <= RetryCap => Capped(b) = b
      /\ Ascending(b) => Ascending(Capped(b))
  BY <1>5, CappedFacts
<1>8. /\ Len(r) \in Nat /\ Len(b) \in Nat /\ RetryCap \in Nat
  BY <1>5, LenProperties, BoundAssumption
<1>9. /\ ~ (Len(r) > RetryCap) => Capped(r) = r
      /\ ~ (Len(b) > RetryCap) => Capped(b) = b
  BY <1>7, <1>8
<1>10. CASE gaveUp' = TRUE /\ UNCHANGED <<buffer, retry>>
  BY <1>3, <1>10
<1>11. CASE /\ delivery = "chat" /\ retry' = Capped(r) /\ UNCHANGED buffer
            /\ gaveUp' = (gaveUp \/ Len(r) > RetryCap)
  <2>1. ~ gaveUp' => ~ gaveUp /\ Capped(r) = r
    BY <1>9, <1>11
  <2>2. delivery # "protocol"
    BY <1>11
  <2>3. ToSet(retry') \subseteq ToSet(retry) \cup ToSet(chunk) /\ buffer' = buffer
    BY <1>5, <1>7, <1>11
  <2>4. ~ gaveUp' => ToSet(retry') = ToSet(retry) \cup ToSet(chunk)
    BY <1>5, <1>11, <2>1
  <2> QED BY <1>0, <2>1, <2>2, <2>3, <2>4
<1>12. CASE /\ delivery = "protocol" /\ buffer' = Capped(b) /\ UNCHANGED retry
            /\ gaveUp' = (gaveUp \/ Len(b) > RetryCap)
  <2>1. ~ gaveUp' => ~ gaveUp /\ Capped(b) = b
    BY <1>9, <1>12
  <2>2. retry' = retry /\ retry = <<>> /\ Ascending(buffer')
    BY <1>3, <1>6, <1>7, <1>12
  <2>3. ToSet(buffer') \subseteq ToSet(chunk) \cup ToSet(buffer)
    BY <1>5, <1>7, <1>12
  <2>4. ~ gaveUp' => ToSet(buffer') = ToSet(chunk) \cup ToSet(buffer)
    BY <1>5, <1>12, <2>1
  <2> QED BY <1>0, <2>1, <2>2, <2>3, <2>4
<1> QED BY <1>2, <1>10, <1>11, <1>12

\* A failed flush keeps the store, whether or not its rows were written.
LEMMA RaisedStore ==
    ASSUME StoreTypes, StoreTypes', StoreInv, NEW f \in Slots, flights[f] # NoFlight, Raised(f),
           TableInv', StoredIds \subseteq StoredIds',
           StoredIds' \subseteq StoredIds \cup ToSet(flights[f].chunk), base' = base,
           delivery = "protocol" =>
               /\ StoredIds' = StoredIds \/ ToSet(flights[f].chunk) \subseteq StoredIds'
               /\ \A i \in DOMAIN chunks' : Ascending(chunks'[i].events)
               /\ \A i, j \in DOMAIN chunks' : i < j =>
                      \A e \in ToSet(chunks'[i].events), d \in ToSet(chunks'[j].events) : e < d
    PROVE  StoreInv'
<1>1. /\ UNCHANGED <<scope, emitted, phase, status, brokerVars, caches>> /\ seen' = 0
      /\ flights'[f] = NoFlight /\ \A g \in Slots : g # f => flights'[g] = flights[g]
  BY RaisedTypes
<1>2. /\ ToSet(buffer') \cup ToSet(retry')
             \subseteq ToSet(buffer) \cup ToSet(retry) \cup ToSet(flights[f].chunk)
      /\ ~ gaveUp' => ~ gaveUp
             /\ ToSet(buffer') \cup ToSet(retry')
                    = ToSet(buffer) \cup ToSet(retry) \cup ToSet(flights[f].chunk)
      /\ delivery = "protocol" => retry' = <<>> /\ Ascending(buffer')
  BY RaisedFacts
<1>3. phase \in {"streaming", "flushing"} /\ f \in Flying /\ FlightInv(f)
      /\ (delivery = "protocol" => OrderedFlight(f))
  BY FlyingPhase
<1>4. Slots' = Slots /\ delivery' = delivery
  BY <1>1 DEF Slots, delivery
<1>5. Flying' = Flying \ {f}
  <2>1. NoFlight' = NoFlight
    BY DEF NoFlight
  <2> QED BY <1>1, <1>4, <2>1 DEF Flying
<1>6. FlushInv'
  <2>1. ASSUME NEW g \in Flying' PROVE FlightInv(g)'
    <3>1. g \in Slots /\ flights[g] # NoFlight /\ FlightInv(g) /\ flights'[g] = flights[g]
      BY <1>1, <1>5 DEF Flying, StoreInv, FlushInv
    <3> QED BY <1>1, <3>1, FlightKept
  <2>2. (ToSet(buffer) \subseteq 1 .. emitted /\ ToSet(retry) \subseteq 1 .. emitted)'
    <3>1. ToSet(flights[f].chunk) \subseteq 1 .. emitted
      BY <1>3 DEF FlightInv
    <3> QED BY <1>1, <1>2, <3>1 DEF StoreInv, FlushInv
  <2> QED BY <1>1, <1>3, <2>1, <2>2 DEF FlushInv
<1>7. KeptInv'
  <2> SUFFICES ASSUME ~ gaveUp', NEW e \in 1 .. emitted
               PROVE  \/ e \in StoredIds' \cup ToSet(buffer') \cup ToSet(retry')
                      \/ \E g \in Flying' : e \in ToSet(flights'[g].chunk)
    BY <1>1 DEF KeptInv
  <2>1. \/ e \in StoredIds \cup ToSet(buffer) \cup ToSet(retry)
        \/ \E g \in Flying : e \in ToSet(flights[g].chunk)
    BY <1>2, <1>3 DEF StoreInv, KeptInv
  <2>2. \A g \in Flying : g # f => g \in Flying' /\ flights'[g] = flights[g]
    BY <1>1, <1>5 DEF Flying
  <2> QED BY <1>2, <2>1, <2>2
<1>8. CacheBehindStore'
  BY <1>1 DEF StoreInv, CacheBehindStore
<1>9. ProtocolInv'
  <2> SUFFICES ASSUME delivery = "protocol" PROVE ProtocolInv'
    BY <1>4 DEF ProtocolInv
  <2>1. ProtocolInv /\ OrderedFlight(f)
    BY <1>3 DEF StoreInv
  <2>2. Flying' = {}
    BY <1>5, <2>1 DEF OrderedFlight
  <2>3. (base = <<>> /\ retry = <<>>)'
    BY <1>2, <2>1 DEF ProtocolInv
  <2>4. AheadOfStore(buffer)'
    <3> SUFFICES ASSUME NEW d \in ToSet(buffer')
                 PROVE  d \in StoredIds' \/ \A s \in StoredIds' : s < d
      BY DEF AheadOfStore
    <3>1. AheadOfStore(buffer) /\ AheadOfStore(flights[f].chunk)
          /\ \A x \in ToSet(flights[f].chunk), y \in ToSet(buffer) : x < y
      BY <2>1 DEF ProtocolInv, OrderedFlight
    <3>2. d \in ToSet(buffer) \cup ToSet(flights[f].chunk)
      <4>1. ToSet(retry) = {}
        BY <2>1, EmptyList DEF ProtocolInv
      <4> QED BY <1>2, <4>1
    <3>3. CASE StoredIds' = StoredIds
      BY <3>1, <3>2, <3>3 DEF AheadOfStore
    <3>4. CASE ToSet(flights[f].chunk) \subseteq StoredIds'
      BY <3>1, <3>2, <3>4 DEF AheadOfStore
    <3> QED BY <3>3, <3>4
  <2> QED BY <1>1, <1>2, <2>2, <2>3, <2>4 DEF ProtocolInv
<1> QED BY <1>6, <1>7, <1>8, <1>9 DEF StoreInv

\* A flush that fails gives its chunk back to a buffer, or gives it up.
LEMMA FailStore ==
    ASSUME StoreTypes, StoreInv, NEW f \in Slots, Fail(f)
    PROVE  StoreInv'
<1>1. flights[f] # NoFlight /\ Raised(f) /\ UNCHANGED <<hasRow, rowOpen, base, chunks>>
  BY DEF Fail, rowVars
<1>2. UNCHANGED <<scope, emitted, phase>>
  BY <1>1 DEF Raised
<1>3. StoreTypes'
  BY FailTypes
<1>4. TableInv' /\ StoredIds' = StoredIds
  BY <1>1, <1>2, TablesKept DEF StoreInv
<1>5. delivery = "protocol" =>
          /\ \A i \in DOMAIN chunks' : Ascending(chunks'[i].events)
          /\ \A i, j \in DOMAIN chunks' : i < j =>
                 \A e \in ToSet(chunks'[i].events), d \in ToSet(chunks'[j].events) : e < d
  BY <1>1 DEF StoreInv, ProtocolInv
<1> QED BY <1>1, <1>3, <1>4, <1>5, RaisedStore

\* A chunk whose commit is not answered is saved and kept for a retry too.
LEMMA CommitUnansweredStore ==
    ASSUME StoreTypes, StoreInv, NEW f \in Slots, CommitUnanswered(f)
    PROVE  StoreInv'
<1>1. CommitRow(f) /\ Raised(f)
  BY DEF CommitUnanswered
<1>2. UNCHANGED <<scope, emitted, phase>>
  BY <1>1 DEF Raised, brokerVars
<1>3. StoreTypes'
  BY CommitUnansweredTypes
<1>4. flights[f] # NoFlight
  BY <1>1, CommitRowTypes
<1>5. /\ TableInv' /\ StoredIds' = StoredIds \cup ToSet(flights[f].new) /\ base' = base
      /\ ToSet(flights[f].new) \subseteq ToSet(flights[f].chunk)
      /\ ToSet(flights[f].chunk) \subseteq StoredIds'
      /\ delivery = "protocol" =>
             /\ \A i \in DOMAIN chunks' : Ascending(chunks'[i].events)
             /\ \A i, j \in DOMAIN chunks' : i < j =>
                    \A e \in ToSet(chunks'[i].events), d \in ToSet(chunks'[j].events) : e < d
  BY <1>1, <1>2, <1>3, CommitRowStore
<1>6. /\ StoredIds \subseteq StoredIds'
      /\ StoredIds' \subseteq StoredIds \cup ToSet(flights[f].chunk)
  BY <1>5
<1> QED BY <1>1, <1>3, <1>4, <1>5, <1>6, RaisedStore

-----------------------------------------------------------------------------
(* The end of the run *)

\* One buffer leaves with the last flush; the others wait.
LEMMA LastFlushStore ==
    ASSUME StoreTypes, StoreTypes', StoreInv, phase = "flushing", Idle, NEW events \in Seq(Events),
           flights' = [flights EXCEPT ![1] = Started(events, TRUE)],
           UNCHANGED <<scope, emitted, phase, caches, seen, gaveUp, rowVars>>,
           \/ events = retry /\ retry' = <<>> /\ buffer' = buffer
           \/ events = buffer /\ buffer' = <<>> /\ retry' = retry
    PROVE  StoreInv'
<1>1. UNCHANGED <<hasRow, rowOpen, base, chunks>> /\ 1 \in Slots
  BY RunNumbers DEF rowVars
<1>2. TableInv' /\ StoredIds' = StoredIds
  BY <1>1, TablesKept DEF StoreInv
<1>3. Slots' = Slots /\ delivery' = delivery
  BY DEF Slots, delivery
<1>4. /\ flights'[1].step = "started" /\ flights'[1].chunk = events /\ flights'[1] # NoFlight
      /\ \A g \in Slots : g # 1 => flights'[g] = flights[g]
  <2>1. flights \in [Slots -> Flight]
    BY DEF StoreTypes
  <2>2. flights'[1] = Started(events, TRUE) /\ \A g \in Slots : g # 1 => flights'[g] = flights[g]
    BY <1>1, <2>1
  <2>3. /\ Started(events, TRUE).step = "started" /\ Started(events, TRUE).chunk = events
        /\ Started(events, TRUE) # NoFlight
    BY StartedIs
  <2> QED BY <2>2, <2>3
<1>5. Flying = {} /\ Flying' = {1}
  <2>1. NoFlight' = NoFlight
    BY DEF NoFlight
  <2> QED BY <1>1, <1>3, <1>4, <2>1 DEF Idle, Flying
<1>6. /\ ToSet(buffer') \subseteq ToSet(buffer) /\ ToSet(retry') \subseteq ToSet(retry)
      /\ ToSet(buffer) \cup ToSet(retry) = ToSet(buffer') \cup ToSet(retry') \cup ToSet(events)
  <2>1. CASE events = retry /\ retry' = <<>> /\ buffer' = buffer
    <3>1. ToSet(retry') = {}
      BY <2>1, EmptyList
    <3> QED BY <2>1, <3>1
  <2>2. CASE events = buffer /\ buffer' = <<>> /\ retry' = retry
    <3>1. ToSet(buffer') = {}
      BY <2>2, EmptyList
    <3> QED BY <2>2, <3>1
  <2> QED BY <2>1, <2>2
<1>7. FlushInv'
  <2>1. ToSet(events) \subseteq 1 .. emitted /\ ToSet(buffer') \subseteq 1 .. emitted
        /\ ToSet(retry') \subseteq 1 .. emitted
    BY <1>6 DEF StoreInv, FlushInv
  <2>2. FlightInv(1)'
    BY <1>4, <2>1 DEF FlightInv
  <2> QED BY <1>5, <2>1, <2>2 DEF FlushInv
<1>8. KeptInv'
  <2>1. KeptInv
    BY DEF StoreInv
  <2> QED BY <1>2, <1>4, <1>5, <1>6, <2>1 DEF KeptInv
<1>9. CacheBehindStore'
  BY <1>2 DEF StoreInv, CacheBehindStore
<1>10. ProtocolInv'
  <2> SUFFICES ASSUME delivery = "protocol" PROVE ProtocolInv'
    BY <1>3 DEF ProtocolInv
  <2>1. ProtocolInv /\ retry = <<>> /\ Ascending(buffer) /\ AheadOfStore(buffer)
    BY DEF StoreInv, ProtocolInv
  <2>2. ToSet(retry) = {} /\ Ascending(retry)
    BY <2>1, EmptyList
  <2>3. retry' = <<>>
    BY <2>1
  <2>4. /\ Ascending(events) /\ \A e \in ToSet(events) : e \in StoredIds \/ \A s \in StoredIds : s < e
    BY <2>1, <2>2 DEF AheadOfStore
  <2>5. /\ Ascending(buffer') /\ \A e \in ToSet(buffer') : e \in StoredIds \/ \A s \in StoredIds : s < e
        /\ \A e \in ToSet(events), d \in ToSet(buffer') : e < d
    <3>1. CASE events = retry /\ buffer' = buffer
      BY <2>1, <2>2, <3>1 DEF AheadOfStore
    <3>2. CASE buffer' = <<>>
      <4>1. ToSet(buffer') = {} /\ Ascending(buffer')
        BY <3>2, EmptyList
      <4> QED BY <4>1
    <3> QED BY <3>1, <3>2
  <2>6. OrderedFlight(1)'
    <3>1. KnowsStore(1)'
      BY <1>4 DEF KnowsStore
    <3>2. AheadOfStore(flights[1].chunk)'
      BY <1>2, <1>4, <2>4 DEF AheadOfStore
    <3> QED BY <1>4, <1>5, <2>4, <2>5, <3>1, <3>2 DEF OrderedFlight
  <2>7. (Ascending(buffer) /\ AheadOfStore(buffer))'
    BY <1>2, <2>5 DEF AheadOfStore
  <2>8. (phase \in {"streaming", "flushing"} /\ seen # 0 => caches[seen] = StoredIds)'
    BY <1>2, <2>1 DEF ProtocolInv
  <2>9. base' = <<>> /\ (\A i \in DOMAIN chunks : Ascending(chunks[i].events))'
    BY <1>1, <2>1 DEF ProtocolInv
  <2>10. (\A i, j \in DOMAIN chunks : i < j =>
             \A e \in ToSet(chunks[i].events), d \in ToSet(chunks[j].events) : e < d)'
    BY <1>1, <2>1 DEF ProtocolInv
  <2>11. \A f \in Flying' : OrderedFlight(f)'
    BY <1>5, <2>6
  <2> QED BY <1>3, <2>3, <2>7, <2>8, <2>9, <2>10, <2>11 DEF ProtocolInv
<1> QED BY <1>2, <1>7, <1>8, <1>9, <1>10 DEF StoreInv

\* The last flush empties the buffers before the trace is closed.
LEMMA FinalFlushStore == StoreTypes /\ StoreInv /\ FinalFlush => StoreInv'
<1> SUFFICES ASSUME StoreTypes, StoreInv, FinalFlush PROVE StoreInv'
  OBVIOUS
<1>1. /\ phase = "flushing" /\ Idle
      /\ UNCHANGED <<scope, emitted, status, brokerVars, caches, seen, gaveUp, rowVars, failures>>
  BY DEF FinalFlush, Joined
<1>2. StoreTypes'
  BY FinalFlushTypes
<1>3. retry \in Seq(Events) /\ buffer \in Seq(Events)
  BY DEF StoreTypes
<1>4. CASE /\ flights' = [flights EXCEPT ![1] = Started(retry, TRUE)] /\ retry' = <<>>
           /\ UNCHANGED <<phase, buffer>>
  BY <1>1, <1>2, <1>3, <1>4, LastFlushStore
<1>5. CASE /\ flights' = [flights EXCEPT ![1] = Started(buffer, TRUE)] /\ buffer' = <<>>
           /\ UNCHANGED <<phase, retry>>
  BY <1>1, <1>2, <1>3, <1>5, LastFlushStore
<1>6. CASE /\ retry = <<>> /\ buffer = <<>> /\ phase' = "finalizing"
           /\ UNCHANGED <<flights, buffer, retry>>
  <2>1. UNCHANGED <<hasRow, base, chunks>> /\ Flying = {}
    BY <1>1 DEF rowVars, Idle, Flying
  <2>2. TableInv' /\ StoredIds' = StoredIds
    BY <1>1, <1>6, <2>1, TablesKept DEF StoreInv, PastEnd
  <2>3. Slots' = Slots /\ delivery' = delivery
    BY <1>1 DEF Slots, delivery
  <2>4. Flying' = {}
    BY <1>6, <2>1, <2>3 DEF Flying, NoFlight
  <2>5. FlushInv'
    BY <1>1, <1>6, <2>4 DEF StoreInv, FlushInv
  <2>6. KeptInv'
    <3>1. KeptInv
      BY DEF StoreInv
    <3> QED BY <1>1, <1>6, <2>1, <2>2, <2>4, <3>1 DEF KeptInv
  <2>7. CacheBehindStore'
    BY <1>1, <2>2 DEF StoreInv, CacheBehindStore
  <2>8. ProtocolInv'
    BY <1>1, <1>6, <2>1, <2>2, <2>3, <2>4 DEF StoreInv, ProtocolInv, AheadOfStore
  <2> QED BY <2>2, <2>5, <2>6, <2>7, <2>8 DEF StoreInv
<1> QED BY <1>4, <1>5, <1>6 DEF FinalFlush

\* Once the trace is closed, only rows are written and nothing is in flight.
LEMMA ClosedTrace ==
    ASSUME StoreTypes, StoreTypes', StoreInv, UNCHANGED <<scope, emitted, flushVars>>,
           phase \notin {"streaming", "flushing", "crashed"},
           phase' \notin {"streaming", "flushing", "crashed"},
           TableInv', StoredIds \subseteq StoredIds',
           delivery = "protocol" =>
               /\ base' = <<>>
               /\ \A i \in DOMAIN chunks' : Ascending(chunks'[i].events)
               /\ \A i, j \in DOMAIN chunks' : i < j =>
                      \A e \in ToSet(chunks'[i].events), d \in ToSet(chunks'[j].events) : e < d
    PROVE  StoreInv'
<1>1. UNCHANGED <<scope, emitted, buffer, retry, flights, caches, seen, gaveUp>>
  BY DEF flushVars
<1>2. Flying = {} /\ buffer = <<>> /\ retry = <<>>
  BY DEF StoreInv, FlushInv
<1>3. Flying' = {} /\ delivery' = delivery
  BY <1>1, <1>2 DEF Flying, Slots, NoFlight, delivery
<1>4. ToSet(buffer) = {} /\ ToSet(retry) = {} /\ Ascending(buffer)
  BY <1>2, EmptyList
<1>5. FlushInv'
  BY <1>1, <1>2, <1>3, <1>4 DEF FlushInv
<1>6. KeptInv'
  <2>1. KeptInv
    BY DEF StoreInv
  <2> QED BY <1>1, <1>2, <1>3, <1>4, <2>1 DEF KeptInv
<1>7. CacheBehindStore'
  BY <1>1 DEF StoreInv, CacheBehindStore
<1>8. ProtocolInv'
  BY <1>1, <1>2, <1>3, <1>4 DEF ProtocolInv, AheadOfStore
<1> QED BY <1>5, <1>6, <1>7, <1>8 DEF StoreInv

\* The row finalize_trace writes holds every event emitted.
LEMMA FinalizeStore == StoreTypes /\ StoreInv /\ FinalizeTrace => StoreInv'
<1> SUFFICES ASSUME StoreTypes, StoreInv, FinalizeTrace PROVE StoreInv'
  OBVIOUS
<1>1. /\ phase = "finalizing" /\ phase' = "committing"
      /\ UNCHANGED <<scope, emitted, status, brokerVars, flushVars, chunks>>
  BY DEF FinalizeTrace
<1>2. StoreTypes'
  BY FinalizeTypes
<1>3. CASE UNCHANGED <<hasRow, base>>
  BY <1>1, <1>2, <1>3, QuietStore DEF PastEnd
<1>4. CASE /\ ~ hasRow /\ delivery = "chat" /\ hasRow' = TRUE
           /\ base' = [n \in 1 .. emitted |-> n]
  <2>1. base = <<>> /\ chunks = <<>>
    BY <1>4 DEF StoreInv, TableInv
  <2>2. DOMAIN chunks = {} /\ ToSet(base) = {} /\ chunks' = chunks
    BY <1>1, <2>1, EmptyList
  <2>3. ToSet(base') = 1 .. emitted
    BY <1>4 DEF ToSet
  <2>4. StoredIds = {} /\ StoredIds' = 1 .. emitted
    BY <2>2, <2>3 DEF StoredIds
  <2>5. End \notin 1 .. emitted
    BY RunNumbers, Sizes DEF Events
  <2>6. TableInv'
    BY <1>1, <1>4, <2>2, <2>4, <2>5 DEF TableInv, End
  <2> QED BY <1>1, <1>2, <1>4, <2>4, <2>6, ClosedTrace
<1> QED BY <1>3, <1>4 DEF FinalizeTrace

\* The terminal event follows everything that is stored.
LEMMA CommitStatusStore == StoreTypes /\ StoreInv /\ CommitStatus => StoreInv'
<1> SUFFICES ASSUME StoreTypes, StoreInv, CommitStatus PROVE StoreInv'
  OBVIOUS
<1>1. phase = "committing" /\ UNCHANGED <<scope, emitted, brokerVars, flushVars, base>>
  BY DEF CommitStatus
<1>2. StoreTypes'
  BY CommitStatusTypes
<1>3. CASE phase' = "closing" /\ UNCHANGED <<status, chunks, hasRow, rowOpen>>
  BY <1>1, <1>2, <1>3, QuietStore DEF PastEnd
<1>4. CASE /\ Stored(<<End>>, Cardinality(StoredIds) + 1) /\ hasRow' = TRUE
           /\ phase' = "announcing"
  <2> DEFINE last == <<End>>
             seq == Cardinality(StoredIds) + 1
             row == [seq |-> seq, events |-> last]
  <2>1. /\ last \in Seq(1 .. End) /\ ToSet(last) = {End} /\ Ascending(last) /\ last # <<>>
        /\ seq \in Nat /\ chunks \in Seq(ChunkRow)
    <3>1. ToSet(<<End>>) = {End} /\ Ascending(<<End>>) /\ <<End>> # <<>> /\ <<End>> \in Seq(1 .. End)
      <4> DEFINE S == 1 .. End
      <4>1. End \in S
        BY Sizes
      <4> HIDE DEF S
      <4>2. ToSet(<<End>>) = {End} /\ Ascending(<<End>>) /\ <<End>> # <<>> /\ <<End>> \in Seq(S)
        BY <4>1, OneElement
      <4> QED BY <4>2 DEF S
    <3>2. seq \in Nat /\ chunks \in Seq(ChunkRow)
      BY StoredTypes DEF StoreTypes
    <3> QED BY <3>1, <3>2
  <2>2. row \in ChunkRow /\ row.seq = seq /\ row.events = last
    BY <2>1 DEF ChunkRow
  <2>3. Stored(last, seq)
    BY <1>4
  <2>4. \A i \in DOMAIN chunks : chunks[i].seq <= seq
    BY DEF StoreInv, TableInv
  <2> HIDE DEF last, seq
  <2>5. StoredIds' = StoredIds \cup ToSet(last)
    BY <1>1, <2>1, <2>3, StoredFacts
  <2>6. last # <<>> /\ (\A i \in DOMAIN chunks : chunks[i].seq <= seq) => chunks' = Append(chunks, row)
    BY <1>1, <2>1, <2>3, StoredFacts
  <2>7. chunks' = Append(chunks, row)
    BY <2>1, <2>4, <2>6
  <2> HIDE DEF row
  <2>8. /\ Len(chunks) \in Nat /\ DOMAIN chunks = 1 .. Len(chunks)
        /\ Len(chunks') = Len(chunks) + 1 /\ DOMAIN chunks' = 1 .. Len(chunks) + 1
        /\ \A i \in DOMAIN chunks : chunks'[i] = chunks[i]
        /\ chunks'[Len(chunks) + 1] = row
    BY <2>1, <2>2, <2>7, AppendedChunk
  <2>9. \A i \in DOMAIN chunks' : i \in DOMAIN chunks \/ i = Len(chunks')
    BY <2>8
  <2>10. End \notin StoredIds /\ StoredIds \subseteq 1 .. emitted
    BY <1>1 DEF StoreInv, TableInv, PastEnd
  <2>11. StoredIds' = StoredIds \cup {End}
    BY <2>1, <2>5
  <2>12. TableInv'
    <3>1. (StoredIds \subseteq 1 .. emitted \cup {End})' /\ (End \in StoredIds => phase \in PastEnd)'
      BY <1>1, <1>4, <2>10, <2>11 DEF End, PastEnd
    <3>2. ASSUME NEW i \in DOMAIN chunks', End \in ToSet(chunks'[i].events)
          PROVE  i = Len(chunks') /\ chunks'[i].events = <<End>>
      <4>1. i \notin DOMAIN chunks
        <5>1. ASSUME i \in DOMAIN chunks PROVE FALSE
          <6>1. End \in ToSet(chunks[i].events)
            BY <2>8, <3>2, <5>1
          <6> QED BY <2>10, <5>1, <6>1 DEF StoredIds
        <5> QED BY <5>1
      <4>2. i = Len(chunks') /\ chunks'[i] = row
        BY <2>8, <2>9, <4>1
      <4> QED BY <2>2, <4>2 DEF last
    <3>3. ASSUME NEW i \in DOMAIN chunks' PROVE chunks'[i].seq <= Cardinality(StoredIds') + 1
      <4>1. /\ Cardinality(StoredIds) <= Cardinality(StoredIds')
            /\ Cardinality(StoredIds) \in Nat /\ Cardinality(StoredIds') \in Nat
        <5> DEFINE S == StoredIds
                   T == StoredIds'
        <5>1. S \in SUBSET T /\ T \in SUBSET (1 .. End)
          <6>1. (StoredIds \in SUBSET (1 .. End) /\ Cardinality(StoredIds) \in Nat)'
            BY <1>2, StoredTypes, PTL
          <6> QED BY <2>11, <6>1 DEF End
        <5> HIDE DEF S, T
        <5>2. Cardinality(S) <= Cardinality(T) /\ Cardinality(S) \in Nat /\ Cardinality(T) \in Nat
          BY <5>1, IdSets
        <5> QED BY <5>2 DEF S, T
      <4>2. CASE i \in DOMAIN chunks
        <5>1. chunks[i] \in ChunkRow
          BY <2>1, <4>2, ElementOfSeq, LenProperties
        <5>2. chunks[i].seq \in Nat
          BY <5>1 DEF ChunkRow
        <5>3. chunks[i].seq <= Cardinality(StoredIds) + 1 /\ chunks'[i] = chunks[i]
          BY <2>4, <2>8, <4>2 DEF seq
        <5> QED BY <4>1, <5>2, <5>3
      <4>3. CASE i = Len(chunks')
        <5>1. chunks'[i].seq = Cardinality(StoredIds) + 1
          BY <2>2, <2>8, <4>3 DEF seq
        <5> QED BY <4>1, <5>1
      <4> QED BY <2>9, <4>2, <4>3
    <3>4. (\A i \in DOMAIN chunks :
               End \in ToSet(chunks[i].events) => i = Len(chunks) /\ chunks[i].events = <<End>>)'
      BY <3>2 DEF End
    <3> QED BY <1>4, <3>1, <3>3, <3>4 DEF TableInv
  <2>13. ASSUME delivery = "protocol"
         PROVE  /\ base' = <<>>
                /\ \A i \in DOMAIN chunks' : Ascending(chunks'[i].events)
                /\ \A i, j \in DOMAIN chunks' : i < j =>
                       \A e \in ToSet(chunks'[i].events), d \in ToSet(chunks'[j].events) : e < d
    <3>1. /\ base = <<>> /\ \A i \in DOMAIN chunks : Ascending(chunks[i].events)
          /\ \A i, j \in DOMAIN chunks : i < j =>
                 \A e \in ToSet(chunks[i].events), d \in ToSet(chunks[j].events) : e < d
      BY <2>13 DEF StoreInv, ProtocolInv
    <3>2. \A e \in ToSet(row.events), s \in StoredIds : s < e
      <4>1. \A s \in 1 .. emitted : s < End
        BY RunNumbers, Sizes DEF Events, End
      <4> QED BY <2>1, <2>2, <2>10, <4>1
    <3>3. Ascending(row.events)
      BY <2>1, <2>2
    <3> QED BY <1>1, <2>2, <2>7, <3>1, <3>2, <3>3, OrderedAppend
  <2>14. StoredIds \subseteq StoredIds'
    BY <2>11
  <2>15. /\ phase \notin {"streaming", "flushing", "crashed"}
         /\ phase' \notin {"streaming", "flushing", "crashed"}
         /\ UNCHANGED <<scope, emitted, flushVars>>
    BY <1>1, <1>4
  <2> QED BY <1>2, <2>12, <2>13, <2>14, <2>15, ClosedTrace
<1> QED BY <1>3, <1>4 DEF CommitStatus

\* A process that dies loses its buffers and its cache, not the tables.
LEMMA CrashStore == StoreTypes /\ StoreInv /\ Crash => StoreInv'
<1> SUFFICES ASSUME StoreTypes, StoreInv, Crash PROVE StoreInv'
  OBVIOUS
<1>1. /\ phase' = "crashed" /\ buffer' = <<>> /\ retry' = <<>>
      /\ flights' = [f \in Slots |-> NoFlight] /\ caches' = <<>> /\ seen' = 0
      /\ UNCHANGED <<scope, emitted, status, gaveUp, hasRow, rowOpen, base, chunks, failures>>
  BY DEF Crash, rowVars
<1>2. TableInv' /\ StoredIds' = StoredIds
  BY <1>1, TablesKept DEF StoreInv, PastEnd
<1>3. Flying' = {} /\ delivery' = delivery
  BY <1>1 DEF Flying, Slots, NoFlight, delivery
<1>4. ToSet(buffer') = {} /\ ToSet(retry') = {} /\ Ascending(buffer') /\ DOMAIN caches' = {}
  BY <1>1, EmptyList
<1>5. FlushInv'
  BY <1>1, <1>3, <1>4 DEF FlushInv
<1>6. KeptInv'
  BY <1>1 DEF KeptInv
<1>7. CacheBehindStore'
  BY <1>4 DEF CacheBehindStore
<1>8. ProtocolInv'
  BY <1>1, <1>2, <1>3, <1>4 DEF StoreInv, ProtocolInv, AheadOfStore
<1> QED BY <1>2, <1>5, <1>6, <1>7, <1>8 DEF StoreInv

-----------------------------------------------------------------------------
(* Every step keeps the store *)

\* Every step keeps the types of the run.
LEMMA StepTypes == StoreTypes /\ StoreInv /\ [Next]_vars => StoreTypes'
<1> SUFFICES ASSUME StoreTypes, StoreInv, [Next]_vars PROVE StoreTypes'
  OBVIOUS
<1>1. CASE Emit
  BY <1>1, EmitTypes
<1>2. CASE EndStream \/ Finish \/ ForceClose
  BY <1>2, PlainTypes
<1>3. CASE FinalFlush
  BY <1>3, FinalFlushTypes
<1>4. CASE FinalizeTrace
  BY <1>4, FinalizeTypes
<1>5. CASE CommitStatus
  BY <1>5, CommitStatusTypes
<1>6. CASE Announce
  BY <1>6, AnnounceTypes
<1>7. CASE Crash
  BY <1>7, CrashTypes
<1>8. ASSUME NEW f \in Slots, FlightStep(f) \/ Fail(f) \/ CommitUnanswered(f)
      PROVE  StoreTypes'
  <2>1. CASE Begin(f)
    BY <2>1, BeginTypes
  <2>2. CASE Loaded(f)
    BY <2>2, LoadedTypes
  <2>3. CASE Write(f)
    <3>1. flights[f].step = "ready"
      BY <2>3 DEF Write, AppendEvents
    <3>2. flights[f] # NoFlight
      BY <3>1 DEF NoFlight
    <3>3. flights[f].cache \in DOMAIN caches
      BY <3>1, <3>2, FlyingPhase DEF FlightInv
    <3> QED BY <2>3, <3>3, WriteTypes
  <2>4. CASE Commit(f)
    BY <2>4, CommitTypes
  <2>5. CASE Fail(f)
    BY <2>5, FailTypes
  <2>6. CASE CommitUnanswered(f)
    BY <2>6, CommitUnansweredTypes
  <2> QED BY <1>8, <2>1, <2>2, <2>3, <2>4, <2>5, <2>6 DEF FlightStep
<1>9. ASSUME NEW c \in Clients, ClientSteps(c) PROVE StoreTypes'
  BY <1>9, ClientStoreTypes
<1>10. CASE UNCHANGED vars
  BY <1>10 DEF vars, brokerVars, flushVars, rowVars, StoreTypes, Slots
<1> QED BY <1>1, <1>2, <1>3, <1>4, <1>5, <1>6, <1>7, <1>8, <1>9, <1>10
        DEF Next, OwnerStep, ClientSteps

\* Every step keeps the tables, the buffers and the flushes consistent.
LEMMA StepStore == StoreTypes /\ StoreInv /\ [Next]_vars => StoreInv'
<1> SUFFICES ASSUME StoreTypes, StoreInv, [Next]_vars PROVE StoreInv'
  OBVIOUS
<1>0. StoreTypes'
  BY StepTypes
<1>1. CASE Emit
  BY <1>1, EmitStore
<1>2. CASE EndStream \/ Finish \/ ForceClose \/ Announce
  <2>1. UNCHANGED <<scope, emitted, flushVars, hasRow, base, chunks>>
    BY <1>2 DEF EndStream, Finish, ForceClose, Announce, rowVars
  <2>2. \/ phase' = phase
        \/ phase = "streaming" /\ phase' = "flushing"
        \/ /\ phase \in {"announcing", "closing"} /\ phase' \in {"closing", "done"}
    BY <1>2 DEF EndStream, Finish, ForceClose, Announce
  <2> QED BY <1>0, <2>1, <2>2, QuietStore DEF PastEnd
<1>3. CASE FinalFlush
  BY <1>3, FinalFlushStore
<1>4. CASE FinalizeTrace
  BY <1>4, FinalizeStore
<1>5. CASE CommitStatus
  BY <1>5, CommitStatusStore
<1>6. CASE Crash
  BY <1>6, CrashStore
<1>7. ASSUME NEW f \in Slots, FlightStep(f) \/ Fail(f) \/ CommitUnanswered(f)
      PROVE  StoreInv'
  BY <1>7, BeginStore, LoadedStore, WriteStore, CommitStore, FailStore, CommitUnansweredStore
     DEF FlightStep
<1>8. ASSUME NEW c \in Clients, ClientSteps(c) PROVE StoreInv'
  <2>1. UNCHANGED <<scope, emitted, phase, flushVars, hasRow, base, chunks>>
    BY <1>8, ClientFrame
  <2> QED BY <1>0, <2>1, QuietStore
<1>9. CASE UNCHANGED vars
  <2>1. UNCHANGED <<scope, emitted, phase, flushVars, hasRow, base, chunks>>
    BY <1>9 DEF vars, rowVars
  <2> QED BY <1>0, <2>1, QuietStore
<1> QED BY <1>1, <1>2, <1>3, <1>4, <1>5, <1>6, <1>7, <1>8, <1>9
        DEF Next, OwnerStep, ClientSteps

-----------------------------------------------------------------------------
(* What the store promises *)

\* The tables, the caches, the buffers and the flushes fit each other in every state
\* (conversation_stream_persistence.py, trace_storage.py).
THEOREM StoreIsKept == Spec => [](StoreTypes /\ StoreInv)
<1>1. Init => StoreTypes /\ StoreInv
  BY InitTypes, InitStore
<1>2. (StoreTypes /\ StoreInv) /\ [Next]_vars => (StoreTypes /\ StoreInv)'
  BY StepTypes, StepStore
<1> QED BY <1>1, <1>2, PTL DEF Spec

\* The ids in the cache of the persist callback are saved, whatever flights fail, overtake
\* each other or are left unanswered (conversation_stream_persistence.py).
THEOREM CacheIsBehindStore == Spec => []CacheBehindStore
<1>1. StoreInv => CacheBehindStore
  BY DEF StoreInv
<1> QED BY <1>1, StoreIsKept, PTL

\* After the last flush every event emitted is in the tables, unless a retry buffer was cut
\* or the last flush failed (the finally block of stream_agent_response and aclose of
\* ProtocolEventDelivery).
THEOREM EventsAreSaved == Spec => []SavedUnlessGivenUp
<1>1. StoreInv => SavedUnlessGivenUp
  <2> SUFFICES ASSUME StoreInv, ~ gaveUp,
                      phase \in {"finalizing", "committing", "announcing", "closing", "done"}
               PROVE  1 .. emitted \subseteq StoredIds
    BY DEF SavedUnlessGivenUp
  <2>1. Flying = {} /\ buffer = <<>> /\ retry = <<>>
    BY DEF StoreInv, FlushInv
  <2>2. ToSet(buffer) = {} /\ ToSet(retry) = {}
    BY <2>1, EmptyList
  <2> QED BY <2>1, <2>2 DEF StoreInv, KeptInv
<1> QED BY <1>1, StoreIsKept, PTL

\* A protocol run reads its events back in the order it emitted them (ProtocolEventDelivery
\* has one flush at a time and requeues a failed chunk before the newer events).
THEOREM ProtocolOrder == Spec => []ProtocolStoresInOrder
<1>1. StoreTypes /\ StoreInv => ProtocolStoresInOrder
  <2> SUFFICES ASSUME StoreTypes, StoreInv, delivery = "protocol" PROVE InOrder(LoadEvents)
    BY DEF ProtocolStoresInOrder
  <2>1. /\ base = <<>> /\ \A i \in DOMAIN chunks : Ascending(chunks[i].events)
        /\ \A i, j \in DOMAIN chunks : i < j =>
               \A e \in ToSet(chunks[i].events), d \in ToSet(chunks[j].events) : e < d
    BY DEF StoreInv, ProtocolInv
  <2>2. base \in Seq(Events) /\ chunks \in Seq([seq : Nat, events : Seq(1 .. End)])
    BY DEF StoreTypes, ChunkRow
  <2>3. Ascending(LoadEvents)
    BY <2>1, <2>2, LoadFacts
  <2> QED BY <2>3 DEF Ascending, InOrder
<1> QED BY <1>1, StoreIsKept, PTL

\* The terminal event is the last one read back: no flush outlives the run (the gather before
\* the last flush, and _transition after the trace is closed).
THEOREM TerminalEventIsLast == Spec => []TerminalIsLast
<1>1. StoreTypes /\ StoreInv => TerminalIsLast
  <2> SUFFICES ASSUME StoreTypes, StoreInv, End \in StoredIds
               PROVE  LoadEvents[Len(LoadEvents)] = End
    BY DEF TerminalIsLast
  <2>1. base \in Seq(Events) /\ chunks \in Seq([seq : Nat, events : Seq(1 .. End)])
    BY DEF StoreTypes, ChunkRow
  <2>2. End \notin ToSet(base)
    BY <2>1, Sizes, ElementsOf
  <2>3. PICK i \in DOMAIN chunks : End \in ToSet(chunks[i].events)
    BY <2>2 DEF StoredIds
  <2>4. i = Len(chunks) /\ chunks[i].events = <<End>>
    BY <2>3 DEF StoreInv, TableInv
  <2>5. chunks # <<>>
    BY <2>3
  <2>6. \A j \in DOMAIN chunks : End \in ToSet(chunks[j].events) => j = Len(chunks)
    BY DEF StoreInv, TableInv
  <2> QED BY <2>1, <2>4, <2>5, <2>6, LoadFacts
<1> QED BY <1>1, StoreIsKept, PTL

-----------------------------------------------------------------------------
(* The ring *)

\* The ring is empty at first.
LEMMA InitRing == Init => RingInv
<1> SUFFICES ASSUME Init PROVE RingInv
  OBVIOUS
<1>1. ToSet(ring) = {} /\ Ascending(ring) /\ emitted = 0 /\ phase = "streaming"
  BY EmptyList DEF Init
<1> QED BY <1>1 DEF RingInv

\* A step that leaves the broker and the emitted events alone.
LEMMA RingKept ==
    ASSUME RingInv, UNCHANGED <<ring, closed, emitted>>,
           phase' = phase \/ (phase \notin {"closing", "done"} /\ phase' \notin {"done", "crashed"})
    PROVE  RingInv'
<1>1. (Ascending(ring) /\ ToSet(ring) \subseteq 1 .. emitted \cup {End})'
  BY DEF RingInv, End
<1>2. (End \in ToSet(ring) => phase \in {"closing", "done"})'
  BY DEF RingInv, End
<1>3. (~ closed /\ emitted > 0 => \E r \in ToSet(ring) : emitted <= r)'
  BY DEF RingInv
<1>4. (phase \in {"done", "crashed"} => closed)'
  BY DEF RingInv
<1> QED BY <1>1, <1>2, <1>3, <1>4 DEF RingInv

\* publish_nowait puts the event after those of the ring.
LEMMA EmitRing == StoreTypes /\ RingInv /\ Emit => RingInv'
<1> SUFFICES ASSUME StoreTypes, RingInv, Emit PROVE RingInv'
  OBVIOUS
<1>1. emitted' = emitted + 1 /\ phase = "streaming" /\ phase' = phase /\ Publish(emitted')
  BY DEF Emit
<1>2. /\ 1 .. emitted \subseteq 1 .. emitted' /\ emitted' \in 1 .. emitted'
      /\ \A r \in 1 .. emitted : r < emitted'
  BY <1>1, RunNumbers
<1>3. Ascending(ring) /\ ToSet(ring) \subseteq 1 .. emitted
  BY <1>1 DEF RingInv
<1>4. CASE closed
  <2>1. ring' = ring /\ closed' = closed
    BY <1>1, <1>4 DEF Publish
  <2>2. End \notin ToSet(ring)
    BY <1>1 DEF RingInv
  <2> QED BY <1>1, <1>2, <1>3, <1>4, <2>1, <2>2 DEF RingInv, End
<1>5. CASE ~ closed
  <2>1. PICK n : n = emitted' /\ n \in 1 .. End /\ Publish(n)
    BY <1>1, RunNumbers, Sizes DEF Emit
  <2>2. ring \in Seq(1 .. End)
    BY DEF StoreTypes
  <2>3. /\ n \in ToSet(ring') /\ ToSet(ring') \subseteq ToSet(ring) \cup {n} /\ closed' = closed
        /\ Ascending(ring) /\ (\A r \in ToSet(ring) : r < n) => Ascending(ring')
    BY <1>5, <2>1, <2>2, PublishFacts
  <2>4. Ascending(ring') /\ ToSet(ring') \subseteq 1 .. emitted'
    BY <1>2, <1>3, <2>1, <2>3
  <2>5. \E r \in ToSet(ring') : emitted' <= r
    <3>1. emitted' <= emitted'
      BY <1>2
    <3> QED BY <2>1, <2>3, <3>1
  <2>6. End \notin 1 .. emitted'
    BY <1>1, RunNumbers, Sizes DEF Emit, Events
  <2> QED BY <1>1, <2>4, <2>5, <2>6 DEF RingInv, End
<1> QED BY <1>4, <1>5

\* The terminal event is the last one of the ring.
LEMMA AnnounceRing == StoreTypes /\ RingInv /\ Announce => RingInv'
<1> SUFFICES ASSUME StoreTypes, RingInv, Announce PROVE RingInv'
  OBVIOUS
<1>1. phase = "announcing" /\ phase' = "closing" /\ emitted' = emitted /\ Publish(End)
  BY DEF Announce
<1>2. Ascending(ring) /\ ToSet(ring) \subseteq 1 .. emitted /\ End \notin ToSet(ring)
  BY <1>1 DEF RingInv
<1>3. CASE closed
  <2>1. ring' = ring /\ closed' = closed
    BY <1>1, <1>3 DEF Publish
  <2> QED BY <1>1, <1>2, <1>3, <2>1 DEF RingInv, End
<1>4. CASE ~ closed
  <2>1. ring \in Seq(1 .. End) /\ End \in 1 .. End
    BY Sizes DEF StoreTypes
  <2>2. /\ End \in ToSet(ring') /\ ToSet(ring') \subseteq ToSet(ring) \cup {End} /\ closed' = closed
        /\ Ascending(ring) /\ (\A r \in ToSet(ring) : r < End) => Ascending(ring')
    BY <1>1, <1>4, <2>1, PublishFacts
  <2>3. \A r \in 1 .. emitted : r < End
    BY RunNumbers, Sizes DEF Events, End
  <2>4. Ascending(ring') /\ ToSet(ring') \subseteq 1 .. emitted \cup {End}
    BY <1>2, <2>2, <2>3
  <2>5. emitted <= End
    BY RunNumbers, Sizes DEF End
  <2> QED BY <1>1, <2>2, <2>4, <2>5 DEF RingInv, End
<1> QED BY <1>3, <1>4

\* close keeps the ring.
LEMMA CloseRing ==
    ASSUME RingInv, closed' = TRUE, ring' = ring, emitted' = emitted,
           phase' = phase \/ (phase = "closing" /\ phase' = "done")
    PROVE  RingInv'
<1>1. (Ascending(ring) /\ ToSet(ring) \subseteq 1 .. emitted \cup {End})'
  BY DEF RingInv, End
<1>2. (End \in ToSet(ring) => phase \in {"closing", "done"})'
  BY DEF RingInv, End
<1> QED BY <1>1, <1>2 DEF RingInv

\* Every step keeps the ring in order, up to the newest event.
LEMMA StepRing == StoreTypes /\ RingInv /\ [Next]_vars => RingInv'
<1> SUFFICES ASSUME StoreTypes, RingInv, [Next]_vars PROVE RingInv'
  OBVIOUS
<1>1. CASE Emit
  BY <1>1, EmitRing
<1>2. CASE Announce
  BY <1>2, AnnounceRing
<1>3. CASE Finish \/ ForceClose
  <2>1. closed' = TRUE /\ ring' = ring /\ emitted' = emitted
    BY <1>3 DEF Finish, ForceClose, CloseBroker
  <2>2. phase' = phase \/ (phase = "closing" /\ phase' = "done")
    BY <1>3 DEF Finish, ForceClose
  <2> QED BY <2>1, <2>2, CloseRing
<1>4. CASE Crash
  <2>1. ring' = <<>> /\ closed' = TRUE
    BY <1>4 DEF Crash
  <2>2. ToSet(ring') = {} /\ Ascending(ring')
    BY <2>1, EmptyList
  <2> QED BY <2>1, <2>2 DEF RingInv
<1>5. CASE EndStream \/ FinalFlush \/ FinalizeTrace \/ CommitStatus
  <2>1. UNCHANGED <<ring, closed, emitted>>
    BY <1>5 DEF EndStream, FinalFlush, FinalizeTrace, CommitStatus, brokerVars
  <2>2. phase' = phase \/ (phase \notin {"closing", "done"} /\ phase' \notin {"done", "crashed"})
    BY <1>5 DEF EndStream, FinalFlush, FinalizeTrace, CommitStatus
  <2> QED BY <2>1, <2>2, RingKept
<1>6. ASSUME NEW f \in Slots, FlightStep(f) \/ Fail(f) \/ CommitUnanswered(f)
      PROVE  RingInv'
  <2>1. UNCHANGED <<ring, closed, emitted, phase>>
    BY <1>6 DEF FlightStep, Begin, Loaded, Write, AppendEvents, Commit, Fail, CommitUnanswered,
                Raised, brokerVars
  <2>2. UNCHANGED <<ring, closed, emitted>>
    BY <2>1
  <2>3. phase' = phase \/ (phase \notin {"closing", "done"} /\ phase' \notin {"done", "crashed"})
    BY <2>1
  <2> QED BY <2>2, <2>3, RingKept
<1>7. ASSUME NEW c \in Clients, ClientSteps(c) PROVE RingInv'
  <2>1. UNCHANGED <<ring, closed, emitted, phase>>
    BY <1>7, ClientFrame
  <2>2. UNCHANGED <<ring, closed, emitted>>
    BY <2>1
  <2>3. phase' = phase \/ (phase \notin {"closing", "done"} /\ phase' \notin {"done", "crashed"})
    BY <2>1
  <2> QED BY <2>2, <2>3, RingKept
<1>8. CASE UNCHANGED vars
  <2>1. UNCHANGED <<ring, closed, emitted>>
    BY <1>8 DEF vars, brokerVars
  <2>2. phase' = phase \/ (phase \notin {"closing", "done"} /\ phase' \notin {"done", "crashed"})
    BY <1>8 DEF vars
  <2> QED BY <2>1, <2>2, RingKept
<1> QED BY <1>1, <1>2, <1>3, <1>4, <1>5, <1>6, <1>7, <1>8 DEF Next, OwnerStep, ClientSteps

-----------------------------------------------------------------------------
(* One client *)

\* A client is told of a gap, or the history notes why it is not.
Excused(cl) == cl.told \/ cl.cut # {}

ClientOK(cl) ==
    /\ cl \in Client /\ Len(cl.queue) <= QueueMax
    /\ ClientShape(cl)
    /\ Excused(cl) \/ Follows(cl)

\* The types of the fields of a client.
LEMMA ClientFields ==
    ASSUME NEW cl \in Client
    PROVE  /\ cl.mode \in {"away", "opening", "marked", "live", "reading", "waiting"}
           /\ cl.route \in {"runs", "resume", "thread"} /\ cl.listed \in BOOLEAN
           /\ cl.replay \in Seq(1 .. Marker) /\ cl.queue \in Seq(0 .. End) /\ cl.last \in 0 .. End
           /\ cl.got \in SUBSET (1 .. End) /\ cl.told \in BOOLEAN
           /\ cl.cut \in SUBSET {"slow", "evicted", "torn"} /\ cl.attaches \in Nat
           /\ DOMAIN cl = {"mode", "route", "listed", "replay", "queue", "last", "got", "told",
                           "cut", "attaches"}
  BY DEF Client

\* What is held for a client are numbers of events.
LEMMA HeldNumbers ==
    ASSUME NEW cl \in Client
    PROVE  /\ DOMAIN cl.replay = 1 .. Len(cl.replay) /\ Len(cl.replay) \in Nat
           /\ DOMAIN cl.queue = 1 .. Len(cl.queue) /\ Len(cl.queue) \in Nat
           /\ \A i \in DOMAIN cl.replay : cl.replay[i] \in ToSet(cl.replay) /\ cl.replay[i] \in 1 .. Marker
           /\ \A i \in DOMAIN cl.queue : cl.queue[i] \in ToSet(cl.queue) /\ cl.queue[i] \in 0 .. End
           /\ ToSet(cl.replay) \subseteq 1 .. Marker /\ ToSet(cl.queue) \subseteq 0 .. End
<1> DEFINE R == 1 .. Marker
           Q == 0 .. End
           r == cl.replay
           q == cl.queue
<1>1. r \in Seq(R) /\ q \in Seq(Q)
  BY ClientFields
<1> HIDE DEF R, Q, r, q
<1>2. /\ ToSet(r) \subseteq R /\ DOMAIN r = 1 .. Len(r) /\ Len(r) \in Nat
      /\ \A i \in DOMAIN r : r[i] \in ToSet(r)
      /\ ToSet(q) \subseteq Q /\ DOMAIN q = 1 .. Len(q) /\ Len(q) \in Nat
      /\ \A i \in DOMAIN q : q[i] \in ToSet(q)
  BY <1>1, ElementsOf
<1> QED BY <1>2 DEF R, Q, r, q

\* A client of which a step changes nothing, when no event is emitted or it has no place.
LEMMA ClientKept ==
    ASSUME StoreTypes, NEW cl, ClientOK(cl), closed' = closed,
           \/ emitted' = emitted
           \/ emitted' = emitted + 1 /\ phase \notin PastEnd /\ (~ cl.listed \/ Excused(cl)),
           phase \in PastEnd => phase' \in PastEnd
    PROVE  ClientOK(cl)'
<1>1. emitted \in Nat /\ 1 .. emitted \subseteq 1 .. emitted' /\ 1 .. emitted \subseteq Events
  BY RunNumbers
<1>2. cl \in Client /\ Len(cl.queue) <= QueueMax /\ ClientShape(cl) /\ (Excused(cl) \/ Follows(cl))
  BY DEF ClientOK
<1>3. Client' = Client /\ Excused(cl)' = Excused(cl) /\ PastEnd' = PastEnd
  BY DEF Client, End, Marker, Excused, PastEnd
<1>4. ClientShape(cl)'
  <2>1. (cl.listed => ~ closed /\ Sentinel \notin ToSet(cl.queue))'
    BY <1>2 DEF ClientShape, Sentinel
  <2>2. (cl.mode # "live" => ~ cl.listed /\ cl.queue = <<>>)'
    BY <1>2 DEF ClientShape
  <2>3. (cl.mode \notin {"live", "reading"} => cl.replay = <<>>)'
    BY <1>2 DEF ClientShape
  <2>4. (\A e \in cl.got \cup ToSet(cl.replay) \cup ToSet(cl.queue) :
            \/ e \in 1 .. emitted \/ e \in {Sentinel, Marker}
            \/ e = End /\ phase \in PastEnd)'
    BY <1>1, <1>2, <1>3 DEF ClientShape, Sentinel, Marker, End
  <2> QED BY <2>1, <2>2, <2>3, <2>4 DEF ClientShape
<1>5. ASSUME ~ Excused(cl) PROVE Follows(cl)'
  <2>1. CASE emitted' = emitted
    BY <1>2, <1>5, <2>1 DEF Follows, Marker
  <2>2. CASE emitted' = emitted + 1 /\ phase \notin PastEnd /\ ~ cl.listed
    <3>1. Follows(cl) /\ \A d \in 1 .. emitted' : d \in 1 .. emitted \/ d = emitted'
      BY <1>1, <1>2, <1>5, <2>2
    <3>2. \A e \in cl.got \cup ToSet(cl.replay) \cup ToSet(cl.queue) :
              e \in 1 .. emitted \/ e \in {Sentinel, Marker}
      BY <1>2, <2>2 DEF ClientShape
    <3>3. \A e \in 1 .. emitted \cup {Sentinel} : ~ (emitted' < e)
      BY <1>1, <2>2 DEF Sentinel
    <3>4. (\A e \in cl.got, d \in 1 .. emitted : d < e => d \in cl.got)'
      <4>1. Marker \notin cl.got
        BY <1>2, ClientFields, Sizes
      <4>2. SUFFICES ASSUME NEW e \in cl.got, NEW d \in 1 .. emitted', d < e PROVE d \in cl.got
        OBVIOUS
      <4>3. e \in 1 .. emitted \cup {Sentinel}
        BY <3>2, <4>1
      <4>4. d \in 1 .. emitted
        BY <3>1, <3>3, <4>2, <4>3
      <4> QED BY <3>1, <4>2, <4>4 DEF Follows
    <3>5. (\A i \in DOMAIN cl.replay, d \in 1 .. emitted :
              d < cl.replay[i] /\ cl.replay[i] # Marker =>
                  d \in cl.got \/ \E j \in 1 .. i - 1 : cl.replay[j] = d)'
      <4>1. \A i \in DOMAIN cl.replay : cl.replay[i] # Marker => cl.replay[i] \in 1 .. emitted \cup {Sentinel}
        BY <1>2, <3>2, HeldNumbers
      <4>2. SUFFICES ASSUME NEW i \in DOMAIN cl.replay, NEW d \in 1 .. emitted',
                            d < cl.replay[i], cl.replay[i] # Marker
                     PROVE  d \in cl.got \/ \E j \in 1 .. i - 1 : cl.replay[j] = d
        BY DEF Marker
      <4>3. d \in 1 .. emitted
        BY <3>1, <3>3, <4>1, <4>2
      <4> QED BY <3>1, <4>2, <4>3 DEF Follows
    <3>6. (\A i \in DOMAIN cl.queue, d \in 1 .. emitted :
              d < cl.queue[i] =>
                  d \in cl.got \cup ToSet(cl.replay) \/ \E j \in 1 .. i - 1 : cl.queue[j] = d)'
      <4>1. \A i \in DOMAIN cl.queue : cl.queue[i] \in 1 .. emitted \cup {Sentinel}
        BY <1>2, <3>2, HeldNumbers, Sizes
      <4> QED BY <3>1, <3>3, <4>1 DEF Follows
    <3> QED BY <2>2, <3>1, <3>4, <3>5, <3>6 DEF Follows
  <2> QED BY <1>5, <2>1, <2>2
<1> QED BY <1>2, <1>3, <1>4, <1>5 DEF ClientOK

-----------------------------------------------------------------------------
(* Publishing to a client, and closing its place *)

\* An event that follows everything emitted so far joins the queue of a listener.
LEMMA OfferedRoom ==
    ASSUME StoreTypes, NEW cl, ClientOK(cl), cl.listed, ~ closed', Len(cl.queue) < QueueMax,
           NEW e \in 1 .. End, NEW x, x = [cl EXCEPT !.queue = Append(@, e)],
           \/ emitted' = emitted + 1 /\ e = emitted' /\ phase \notin PastEnd
           \/ emitted' = emitted /\ e = End /\ phase' \in PastEnd,
           phase \in PastEnd => phase' \in PastEnd
    PROVE  ClientOK(x)'
<1>1. emitted \in Nat /\ 1 .. emitted \subseteq 1 .. emitted' /\ 1 .. emitted \subseteq Events
  BY RunNumbers
<1>2. cl \in Client /\ ClientShape(cl) /\ (Excused(cl) \/ Follows(cl))
  BY DEF ClientOK
<1>3. /\ cl.queue \in Seq(0 .. End) /\ e \in 0 .. End /\ e # Sentinel
      /\ e \in 1 .. emitted' \/ (e = End /\ phase' \in PastEnd)
  BY <1>1, <1>2, ClientFields, Sizes DEF Sentinel
<1> DEFINE S == 0 .. End
           q == cl.queue
<1>4. /\ Append(q, e) \in Seq(S) /\ Len(Append(q, e)) = Len(q) + 1
      /\ ToSet(Append(q, e)) = ToSet(q) \cup {e}
      /\ DOMAIN q = 1 .. Len(q) /\ Len(q) \in Nat
      /\ DOMAIN Append(q, e) = 1 .. Len(q) + 1
      /\ \A i \in 1 .. Len(q) : Append(q, e)[i] = q[i]
      /\ Append(q, e)[Len(q) + 1] = e
  <2>1. q \in Seq(S) /\ e \in S
    BY <1>3
  <2> HIDE DEF S, q
  <2> QED BY <2>1, AppendElements, AppendPlaces
<1> DEFINE r == Append(q, e)
<1>5. /\ x.queue = r /\ x.mode = cl.mode /\ x.listed = cl.listed /\ x.replay = cl.replay
      /\ x.last = cl.last /\ x.got = cl.got /\ x.told = cl.told /\ x.cut = cl.cut
      /\ x \in Client
  BY <1>2, <1>4 DEF Client
<1>6. /\ r \in Seq(S) /\ Len(r) = Len(q) + 1 /\ ToSet(r) = ToSet(q) \cup {e}
      /\ DOMAIN q = 1 .. Len(q) /\ Len(q) \in Nat /\ DOMAIN r = 1 .. Len(q) + 1
      /\ \A i \in 1 .. Len(q) : r[i] = q[i]
      /\ r[Len(q) + 1] = e
  BY <1>4
<1>7. x.queue = r /\ q = cl.queue
  BY <1>5
<1> HIDE DEF S, q, r
<1>8. Client' = Client /\ PastEnd' = PastEnd
  BY DEF Client, End, Marker, PastEnd
<1>9. Len(x.queue) <= QueueMax
  BY <1>6, <1>7, BoundAssumption
<1>10. cl.mode = "live"
  BY <1>2 DEF ClientShape
<1>11. ClientShape(x)'
  <2>1. (x.listed => ~ closed /\ Sentinel \notin ToSet(x.queue))'
    BY <1>2, <1>3, <1>5, <1>6, <1>7 DEF ClientShape, Sentinel
  <2>2. (x.mode # "live" => ~ x.listed /\ x.queue = <<>>)'
    BY <1>5, <1>10
  <2>3. (x.mode \notin {"live", "reading"} => x.replay = <<>>)'
    BY <1>5, <1>10
  <2>4. (\A n \in x.got \cup ToSet(x.replay) \cup ToSet(x.queue) :
            \/ n \in 1 .. emitted \/ n \in {Sentinel, Marker}
            \/ n = End /\ phase \in PastEnd)'
    <3>1. \A n \in cl.got \cup ToSet(cl.replay) \cup ToSet(q) :
              n \in 1 .. emitted \/ n \in {Sentinel, Marker} \/ (n = End /\ phase \in PastEnd)
      BY <1>2, <1>7 DEF ClientShape
    <3> QED BY <1>1, <1>3, <1>5, <1>6, <1>7, <1>8, <3>1 DEF Sentinel, Marker, End
  <2> QED BY <2>1, <2>2, <2>3, <2>4 DEF ClientShape
<1>12. ASSUME ~ Excused(cl) PROVE Follows(x)'
  <2>1. Follows(cl) /\ \A d \in 1 .. emitted : d \in cl.got \cup ToSet(cl.replay) \cup ToSet(q)
    BY <1>2, <1>7, <1>12 DEF Follows
  <2>2. \A d \in 1 .. emitted' : d \in 1 .. emitted \/ (d = emitted' /\ e = emitted')
    BY <1>1
  <2>a. \A d \in 1 .. emitted' : d < e => d \in 1 .. emitted
    BY <1>1
  <2>3. ASSUME NEW n, NEW d \in 1 .. emitted', d < n,
               n \in 1 .. emitted \/ n = Sentinel \/ (n = End /\ phase \in PastEnd)
        PROVE  d \in 1 .. emitted
    BY <1>1, <2>3 DEF Sentinel
  <2>4. \A n \in cl.got \cup ToSet(cl.replay) \cup ToSet(q) :
            n # Marker => n \in 1 .. emitted \/ n = Sentinel \/ (n = End /\ phase \in PastEnd)
    BY <1>2, <1>7 DEF ClientShape
  <2>5. (\A n \in x.got, d \in 1 .. emitted : d < n => d \in x.got)'
    <3> SUFFICES ASSUME NEW n \in cl.got, NEW d \in 1 .. emitted', d < n PROVE d \in cl.got
      BY <1>5
    <3>1. n # Marker
      BY <1>2, ClientFields, Sizes
    <3>2. d \in 1 .. emitted
      BY <2>3, <2>4, <3>1
    <3> QED BY <2>1, <3>2 DEF Follows
  <2>6. (x.last \in x.got \cup {0})'
    BY <1>5, <2>1 DEF Follows
  <2>7. (\A i \in DOMAIN x.replay, d \in 1 .. emitted :
            d < x.replay[i] /\ x.replay[i] # Marker =>
                d \in x.got \/ \E j \in 1 .. i - 1 : x.replay[j] = d)'
    <3> SUFFICES ASSUME NEW i \in DOMAIN cl.replay, NEW d \in 1 .. emitted',
                        d < cl.replay[i], cl.replay[i] # Marker
                 PROVE  d \in cl.got \/ \E j \in 1 .. i - 1 : cl.replay[j] = d
      BY <1>5 DEF Marker
    <3>1. cl.replay[i] \in ToSet(cl.replay)
      BY <1>2, HeldNumbers
    <3>2. d \in 1 .. emitted
      BY <2>3, <2>4, <3>1
    <3> QED BY <2>1, <3>2 DEF Follows
  <2>8. (\A i \in DOMAIN x.queue, d \in 1 .. emitted :
            d < x.queue[i] =>
                d \in x.got \cup ToSet(x.replay) \/ \E j \in 1 .. i - 1 : x.queue[j] = d)'
    <3> SUFFICES ASSUME NEW i \in DOMAIN x.queue, NEW d \in 1 .. emitted', d < x.queue[i]
                 PROVE  d \in x.got \cup ToSet(x.replay) \/ \E j \in 1 .. i - 1 : x.queue[j] = d
      OBVIOUS
    <3>0. i \in DOMAIN r /\ d < r[i]
      BY <1>7
    <3> SUFFICES d \in cl.got \cup ToSet(cl.replay) \/ \E j \in 1 .. i - 1 : r[j] = d
      BY <1>5, <1>7
    <3>1. CASE i \in DOMAIN q
      <4>1. r[i] = q[i] /\ q[i] \in ToSet(q) /\ q[i] \in 0 .. End
        BY <1>2, <1>6, <1>7, <3>1, HeldNumbers
      <4>2. d \in 1 .. emitted /\ d < q[i]
        BY <2>3, <2>4, <3>0, <4>1, Sizes
      <4>3. d \in cl.got \cup ToSet(cl.replay) \/ \E j \in 1 .. i - 1 : q[j] = d
        BY <1>7, <2>1, <3>1, <4>2 DEF Follows
      <4>4. \A j \in 1 .. i - 1 : r[j] = q[j]
        BY <1>6, <3>1
      <4> QED BY <4>3, <4>4
    <3>2. CASE i = Len(q) + 1
      <4>1. d \in cl.got \cup ToSet(cl.replay) \cup ToSet(q)
        BY <1>6, <2>1, <2>a, <3>0, <3>2
      <4>2. d \in ToSet(q) => \E j \in 1 .. i - 1 : r[j] = d
        <5> SUFFICES ASSUME d \in ToSet(q) PROVE \E j \in 1 .. i - 1 : r[j] = d
          OBVIOUS
        <5>1. PICK j \in 1 .. Len(q) : d = q[j]
          BY <1>6 DEF ToSet
        <5>2. j \in 1 .. i - 1 /\ r[j] = d
          BY <1>6, <3>2, <5>1
        <5> QED BY <5>2
      <4> QED BY <4>1, <4>2
    <3> QED BY <1>6, <3>0, <3>1, <3>2
  <2>9. (x.listed =>
             \A d \in 1 .. emitted : d \in x.got \cup ToSet(x.replay) \cup ToSet(x.queue))'
    BY <1>5, <1>6, <1>7, <2>1, <2>2
  <2> QED BY <2>5, <2>6, <2>7, <2>8, <2>9 DEF Follows
<1>13. Excused(cl) => Excused(x)'
  BY <1>5 DEF Excused
<1> QED BY <1>5, <1>8, <1>9, <1>11, <1>12, <1>13 DEF ClientOK

\* A listener whose queue is full loses its place and its oldest event.
LEMMA Evicted ==
    ASSUME StoreTypes, NEW cl, ClientOK(cl), cl.listed, ~ (Len(cl.queue) < QueueMax),
           NEW x, x = [cl EXCEPT !.listed = FALSE, !.queue = Append(Tail(@), Sentinel),
                                 !.cut = @ \cup {"slow"}],
           emitted' \in {emitted, emitted + 1}, phase \in PastEnd => phase' \in PastEnd
    PROVE  ClientOK(x)'
<1>1. emitted \in Nat /\ 1 .. emitted \subseteq 1 .. emitted'
  BY RunNumbers
<1>2. cl \in Client /\ ClientShape(cl) /\ Len(cl.queue) <= QueueMax
  BY DEF ClientOK
<1> DEFINE S == 0 .. End
           q == cl.queue
           t == Tail(q)
           r == Append(t, Sentinel)
<1>3. /\ Len(r) = Len(q) /\ ToSet(r) \subseteq ToSet(q) \cup {Sentinel} /\ r \in Seq(S)
  <2>1. q \in Seq(S) /\ Sentinel \in S /\ Len(q) \in Nat
    BY <1>2, ClientFields, HeldNumbers, Sizes DEF Sentinel
  <2>2. q # <<>>
    BY <2>1, BoundAssumption, EmptyList DEF S
  <2> HIDE DEF S, q, t
  <2>3. t \in Seq(S) /\ Len(t) = Len(q) - 1 /\ ToSet(t) \subseteq ToSet(q)
    BY <2>1, <2>2, TailFacts DEF t
  <2>4. r \in Seq(S) /\ Len(r) = Len(t) + 1 /\ ToSet(r) = ToSet(t) \cup {Sentinel}
    BY <2>1, <2>3, AppendElements
  <2> QED BY <2>1, <2>3, <2>4
<1>4. /\ x.queue = r /\ x.mode = cl.mode /\ x.listed = FALSE /\ x.replay = cl.replay
      /\ x.last = cl.last /\ x.got = cl.got /\ x.told = cl.told /\ x.cut = cl.cut \cup {"slow"}
      /\ x \in Client
  BY <1>2, <1>3 DEF Client
<1>5. Client' = Client /\ PastEnd' = PastEnd
  BY DEF Client, End, Marker, PastEnd
<1>6. cl.mode = "live"
  BY <1>2 DEF ClientShape
<1>7. x.queue = r /\ q = cl.queue
  BY <1>4
<1> HIDE DEF S, q, t, r
<1>8. ClientShape(x)'
  <2>1. (\A n \in x.got \cup ToSet(x.replay) \cup ToSet(x.queue) :
            \/ n \in 1 .. emitted \/ n \in {Sentinel, Marker}
            \/ n = End /\ phase \in PastEnd)'
    <3>1. \A n \in cl.got \cup ToSet(cl.replay) \cup ToSet(q) :
              n \in 1 .. emitted \/ n \in {Sentinel, Marker} \/ (n = End /\ phase \in PastEnd)
      BY <1>2, <1>7 DEF ClientShape
    <3> QED BY <1>1, <1>3, <1>4, <1>7, <1>5, <3>1 DEF Sentinel, Marker, End
  <2> QED BY <1>4, <1>6, <2>1 DEF ClientShape
<1>9. Excused(x)'
  BY <1>4 DEF Excused
<1>10. Len(x.queue) <= QueueMax
  BY <1>2, <1>3, <1>7
<1> QED BY <1>4, <1>5, <1>8, <1>9, <1>10 DEF ClientOK

\* The sentinel joins the queue of a listener that loses its place.
LEMMA Dismissed ==
    ASSUME StoreTypes, NEW cl, ClientOK(cl), cl.listed, Len(cl.queue) < QueueMax,
           NEW x, x = [cl EXCEPT !.listed = FALSE, !.queue = Append(@, Sentinel)],
           emitted' = emitted, phase \in PastEnd => phase' \in PastEnd
    PROVE  ClientOK(x)'
<1>1. emitted \in Nat
  BY RunNumbers
<1>2. cl \in Client /\ ClientShape(cl) /\ (Excused(cl) \/ Follows(cl))
  BY DEF ClientOK
<1> DEFINE S == 0 .. End
           q == cl.queue
           r == Append(q, Sentinel)
<1>3. /\ r \in Seq(S) /\ Len(r) = Len(q) + 1 /\ ToSet(r) = ToSet(q) \cup {Sentinel}
      /\ DOMAIN q = 1 .. Len(q) /\ Len(q) \in Nat /\ DOMAIN r = 1 .. Len(q) + 1
      /\ \A i \in 1 .. Len(q) : r[i] = q[i]
      /\ r[Len(q) + 1] = Sentinel
  <2>1. q \in Seq(S) /\ Sentinel \in S
    BY <1>2, ClientFields, Sizes DEF Sentinel
  <2> HIDE DEF S, q
  <2> QED BY <2>1, AppendElements, AppendPlaces
<1>4. /\ x.queue = r /\ x.mode = cl.mode /\ x.listed = FALSE /\ x.replay = cl.replay
      /\ x.last = cl.last /\ x.got = cl.got /\ x.told = cl.told /\ x.cut = cl.cut
      /\ x \in Client
  BY <1>2, <1>3 DEF Client
<1>5. Client' = Client /\ PastEnd' = PastEnd
  BY DEF Client, End, Marker, PastEnd
<1>6. cl.mode = "live"
  BY <1>2 DEF ClientShape
<1>7. x.queue = r /\ q = cl.queue
  BY <1>4
<1> HIDE DEF S, q, r
<1>8. ClientShape(x)'
  <2>1. (\A n \in x.got \cup ToSet(x.replay) \cup ToSet(x.queue) :
            \/ n \in 1 .. emitted \/ n \in {Sentinel, Marker}
            \/ n = End /\ phase \in PastEnd)'
    <3>1. \A n \in cl.got \cup ToSet(cl.replay) \cup ToSet(q) :
              n \in 1 .. emitted \/ n \in {Sentinel, Marker} \/ (n = End /\ phase \in PastEnd)
      BY <1>2, <1>7 DEF ClientShape
    <3> QED BY <1>3, <1>4, <1>7, <1>5, <3>1 DEF Sentinel, Marker, End
  <2> QED BY <1>4, <1>6, <2>1 DEF ClientShape
<1>9. ASSUME ~ Excused(cl) PROVE Follows(x)'
  <2>1. Follows(cl)
    BY <1>2, <1>9
  <2>2. (\A n \in x.got, d \in 1 .. emitted : d < n => d \in x.got)' /\ x.last \in x.got \cup {0}
    BY <1>4, <2>1 DEF Follows
  <2>3. (\A i \in DOMAIN x.replay, d \in 1 .. emitted :
            d < x.replay[i] /\ x.replay[i] # Marker =>
                d \in x.got \/ \E j \in 1 .. i - 1 : x.replay[j] = d)'
    BY <1>4, <2>1 DEF Follows, Marker
  <2>4. (\A i \in DOMAIN x.queue, d \in 1 .. emitted :
            d < x.queue[i] =>
                d \in x.got \cup ToSet(x.replay) \/ \E j \in 1 .. i - 1 : x.queue[j] = d)'
    <3> SUFFICES ASSUME NEW i \in DOMAIN x.queue, NEW d \in 1 .. emitted, d < x.queue[i]
                 PROVE  d \in x.got \cup ToSet(x.replay) \/ \E j \in 1 .. i - 1 : x.queue[j] = d
      OBVIOUS
    <3>0. i \in DOMAIN r /\ d < r[i]
      BY <1>7
    <3> SUFFICES d \in cl.got \cup ToSet(cl.replay) \/ \E j \in 1 .. i - 1 : r[j] = d
      BY <1>4, <1>7
    <3>1. CASE i \in DOMAIN q
      <4>1. d < q[i]
        BY <1>3, <3>0, <3>1
      <4>2. d \in cl.got \cup ToSet(cl.replay) \/ \E j \in 1 .. i - 1 : q[j] = d
        BY <1>7, <2>1, <3>1, <4>1 DEF Follows
      <4>3. \A j \in 1 .. i - 1 : r[j] = q[j]
        BY <1>3, <3>1
      <4> QED BY <4>2, <4>3
    <3>2. CASE i = Len(q) + 1
      BY <1>1, <1>3, <3>0, <3>2 DEF Sentinel
    <3> QED BY <1>3, <3>0, <3>1, <3>2
  <2> QED BY <1>4, <2>2, <2>3, <2>4 DEF Follows
<1>10. Excused(cl) => Excused(x)'
  BY <1>4 DEF Excused
<1>11. Len(x.queue) <= QueueMax
  BY <1>3, <1>7, BoundAssumption
<1> QED BY <1>4, <1>5, <1>8, <1>9, <1>10, <1>11 DEF ClientOK

\* publish_nowait on an open broker, for one client.
LEMMA OfferedOK ==
    ASSUME StoreTypes, NEW cl, ClientOK(cl), ~ closed, closed' = closed, NEW e \in 1 .. End,
           NEW x, x = Offer(cl, e),
           \/ emitted' = emitted + 1 /\ e = emitted' /\ phase \notin PastEnd
           \/ emitted' = emitted /\ e = End /\ phase' \in PastEnd,
           phase \in PastEnd => phase' \in PastEnd
    PROVE  ClientOK(x)'
<1>1. CASE ~ cl.listed
  <2>1. x = cl
    BY <1>1 DEF Offer
  <2>2. \/ emitted' = emitted
        \/ emitted' = emitted + 1 /\ phase \notin PastEnd /\ (~ cl.listed \/ Excused(cl))
    BY <1>1
  <2>4. ClientOK(cl)'
    BY <2>2, ClientKept
  <2> QED BY <2>1, <2>4
<1>2. CASE cl.listed /\ Len(cl.queue) < QueueMax
  <2>1. x = [cl EXCEPT !.queue = Append(@, e)]
    BY <1>2 DEF Offer
  <2>2. ~ closed'
    OBVIOUS
  <2> QED BY <1>2, <2>1, <2>2, OfferedRoom
<1>3. CASE cl.listed /\ ~ (Len(cl.queue) < QueueMax)
  <2>1. x = [cl EXCEPT !.listed = FALSE, !.queue = Append(Tail(@), Sentinel), !.cut = @ \cup {"slow"}]
    BY <1>3 DEF Offer
  <2>2. emitted' \in {emitted, emitted + 1}
    OBVIOUS
  <2> QED BY <1>3, <2>1, <2>2, Evicted
<1> QED BY <1>1, <1>2, <1>3

\* close of a broker, for one client.
LEMMA DismissedOK ==
    ASSUME StoreTypes, NEW cl, ClientOK(cl), NEW x, x = Dismiss(cl), closed' = TRUE,
           emitted' = emitted, phase \in PastEnd => phase' \in PastEnd
    PROVE  ClientOK(x)'
<1>1. CASE ~ cl.listed
  <2>1. x = cl
    BY <1>1 DEF Dismiss
  <2>2. cl \in Client /\ Len(cl.queue) <= QueueMax /\ ClientShape(cl) /\ (Excused(cl) \/ Follows(cl))
    BY DEF ClientOK
  <2>3. Client' = Client /\ Excused(cl)' = Excused(cl) /\ PastEnd' = PastEnd
    BY DEF Client, End, Marker, Excused, PastEnd
  <2>4. ClientShape(cl)'
    <3>1. (\A e \in cl.got \cup ToSet(cl.replay) \cup ToSet(cl.queue) :
              \/ e \in 1 .. emitted \/ e \in {Sentinel, Marker}
              \/ e = End /\ phase \in PastEnd)'
      BY <2>2, <2>3 DEF ClientShape, Sentinel, Marker, End
    <3> QED BY <1>1, <2>2, <3>1 DEF ClientShape
  <2>5. Follows(cl) => Follows(cl)'
    BY DEF Follows, Marker
  <2> QED BY <2>1, <2>2, <2>3, <2>4, <2>5 DEF ClientOK
<1>2. CASE cl.listed /\ Len(cl.queue) < QueueMax
  <2>1. x = [cl EXCEPT !.listed = FALSE, !.queue = Append(@, Sentinel)]
    BY <1>2 DEF Dismiss
  <2> QED BY <1>2, <2>1, Dismissed
<1>3. CASE cl.listed /\ ~ (Len(cl.queue) < QueueMax)
  <2>1. x = [cl EXCEPT !.listed = FALSE, !.queue = Append(Tail(@), Sentinel), !.cut = @ \cup {"slow"}]
    BY <1>3 DEF Dismiss
  <2>2. emitted' \in {emitted, emitted + 1}
    OBVIOUS
  <2> QED BY <1>3, <2>1, <2>2, Evicted
<1> QED BY <1>1, <1>2, <1>3

\* An attachment that is torn down leaves what was received.
LEMMA GoneOK ==
    ASSUME StoreTypes, NEW cl, ClientOK(cl),
           NEW x, x = [cl EXCEPT !.mode = "away", !.listed = FALSE, !.replay = <<>>, !.queue = <<>>],
           emitted' = emitted, phase \in PastEnd => phase' \in PastEnd
    PROVE  ClientOK(x)'
<1>1. cl \in Client /\ ClientShape(cl) /\ (Excused(cl) \/ Follows(cl))
  BY DEF ClientOK
<1>2. Client' = Client /\ PastEnd' = PastEnd
  BY DEF Client, End, Marker, PastEnd
<1>3. /\ x.queue = <<>> /\ x.mode = "away" /\ x.listed = FALSE /\ x.replay = <<>>
      /\ x.last = cl.last /\ x.got = cl.got /\ x.told = cl.told /\ x.cut = cl.cut
  BY <1>1 DEF Client
<1>4. x \in Client
  <2> DEFINE R == Seq(1 .. Marker)
             Q == Seq(0 .. End)
  <2>1. <<>> \in R /\ <<>> \in Q
    OBVIOUS
  <2>2. cl \in [mode : {"away", "opening", "marked", "live", "reading", "waiting"},
                route : {"runs", "resume", "thread"}, listed : BOOLEAN,
                replay : R, queue : Q, last : 0 .. End, got : SUBSET (1 .. End),
                told : BOOLEAN, cut : SUBSET {"slow", "evicted", "torn"}, attaches : Nat]
    BY <1>1 DEF Client
  <2> HIDE DEF R, Q
  <2>3. x \in [mode : {"away", "opening", "marked", "live", "reading", "waiting"},
               route : {"runs", "resume", "thread"}, listed : BOOLEAN,
               replay : R, queue : Q, last : 0 .. End, got : SUBSET (1 .. End),
               told : BOOLEAN, cut : SUBSET {"slow", "evicted", "torn"}, attaches : Nat]
    BY <2>1, <2>2
  <2> QED BY <2>3 DEF R, Q, Client
<1>5. /\ ToSet(x.queue) = {} /\ ToSet(x.replay) = {} /\ Len(x.queue) = 0
      /\ DOMAIN x.queue = {} /\ DOMAIN x.replay = {}
  BY <1>3, EmptyList
<1>6. ClientShape(x)'
  <2>1. (\A e \in x.got \cup ToSet(x.replay) \cup ToSet(x.queue) :
            \/ e \in 1 .. emitted \/ e \in {Sentinel, Marker}
            \/ e = End /\ phase \in PastEnd)'
    BY <1>1, <1>2, <1>3, <1>5 DEF ClientShape, Sentinel, Marker, End
  <2> QED BY <1>3, <2>1 DEF ClientShape
<1>7. Follows(cl) => Follows(x)'
  BY <1>3, <1>5 DEF Follows
<1>8. Excused(cl) => Excused(x)'
  BY <1>3 DEF Excused
<1>9. Len(x.queue) <= QueueMax
  BY <1>5, BoundAssumption
<1> QED BY <1>1, <1>2, <1>4, <1>6, <1>7, <1>8, <1>9 DEF ClientOK

-----------------------------------------------------------------------------
(* The run and its clients *)

ClientsOK == client \in [Clients -> Client] /\ \A c \in Clients : ClientOK(client[c])

\* Every client after a step that changes each of them on its own.
LEMMA EachClient ==
    ASSUME ClientsOK, NEW g, client' = [c \in Clients |-> g[c]],
           \A c \in Clients : ClientOK(g[c])'
    PROVE  ClientsOK'
<1>1. \A c \in Clients : ClientOK(client[c])'
  <2> SUFFICES ASSUME NEW c \in Clients PROVE ClientOK(client[c])'
    OBVIOUS
  <2>1. client'[c] = g[c]
    OBVIOUS
  <2>2. ClientOK(g[c])'
    OBVIOUS
  <2> QED BY <2>1, <2>2 DEF ClientOK, ClientShape, Follows, Excused, Client
<1>2. \A c \in Clients : g[c] \in Client
  BY DEF ClientOK, Client, End, Marker
<1>3. Client' = Client
  BY DEF Client, End, Marker
<1> QED BY <1>1, <1>2, <1>3 DEF ClientsOK

\* The step of one client that leaves the run alone.
LEMMA OneClient ==
    ASSUME ClientsOK, NEW c \in Clients, NEW x, client' = [client EXCEPT ![c] = x], ClientOK(x),
           UNCHANGED <<emitted, closed, phase>>
    PROVE  ClientsOK'
<1>1. \A a \in Clients : ClientOK(client'[a])
  <2> SUFFICES ASSUME NEW a \in Clients PROVE ClientOK(client'[a])
    OBVIOUS
  <2>1. client'[a] = IF a = c THEN x ELSE client[a]
    BY DEF ClientsOK
  <2> QED BY <2>1 DEF ClientsOK
<1>2. client' \in [Clients -> Client]
  <2>1. x \in Client /\ client \in [Clients -> Client]
    BY DEF ClientOK, ClientsOK
  <2> QED BY <2>1
<1>3. Client' = Client
  BY DEF Client, End, Marker
<1>4. ASSUME NEW a \in Clients PROVE ClientOK(client[a])'
  <2>1. ClientOK(client'[a])
    BY <1>1
  <2> QED BY <2>1 DEF ClientOK, ClientShape, Follows, Excused, Client, PastEnd, End, Marker, Sentinel
<1> QED BY <1>2, <1>3, <1>4 DEF ClientsOK

\* A step of the run that leaves its broker and its clients alone.
LEMMA ClientsKept ==
    ASSUME StoreTypes, ClientsOK, UNCHANGED <<emitted, closed, client>>,
           phase \in PastEnd => phase' \in PastEnd
    PROVE  ClientsOK'
<1>1. \A c \in Clients : ClientOK(client[c])'
  <2> SUFFICES ASSUME NEW c \in Clients PROVE ClientOK(client[c])'
    OBVIOUS
  <2>1. PICK cl : cl = client[c] /\ ClientOK(cl)
    BY DEF ClientsOK
  <2>2. ClientOK(cl)'
    BY <2>1, ClientKept
  <2>3. client'[c] = cl
    BY <2>1
  <2> QED BY <2>2, <2>3
<1>2. Client' = Client
  BY DEF Client, End, Marker
<1> QED BY <1>1, <1>2 DEF ClientsOK

\* emit publishes the event to every listener.
LEMMA EmitClients == StoreTypes /\ ClientsOK /\ Emit => ClientsOK'
<1> SUFFICES ASSUME StoreTypes, ClientsOK, Emit PROVE ClientsOK'
  OBVIOUS
<1>1. PICK e : e = emitted' /\ e \in 1 .. End /\ Publish(e)
  BY RunNumbers, Sizes DEF Emit
<1>2. emitted' = emitted + 1 /\ phase = "streaming" /\ phase' = phase /\ closed' = closed
  BY <1>1 DEF Emit, Publish
<1>3. PastEnd' = PastEnd /\ phase \notin PastEnd
  BY <1>2 DEF PastEnd
<1>4. CASE closed
  <2>1. PICK g : g = client /\ client' = g
    BY <1>1, <1>4 DEF Publish
  <2>2. client' = [c \in Clients |-> g[c]]
    BY <2>1 DEF ClientsOK
  <2>3. ASSUME NEW c \in Clients PROVE ClientOK(g[c])'
    <3>1. PICK cl : cl = g[c] /\ ClientOK(cl)
      BY <2>1 DEF ClientsOK
    <3>2. ~ cl.listed
      BY <1>4, <3>1 DEF ClientOK, ClientShape
    <3>3. \/ emitted' = emitted
          \/ emitted' = emitted + 1 /\ phase \notin PastEnd /\ (~ cl.listed \/ Excused(cl))
      BY <1>2, <1>3, <3>2
    <3>4. ClientOK(cl)'
      BY <1>2, <1>3, <3>1, <3>3, ClientKept
    <3> QED BY <3>1, <3>4
  <2> QED BY <2>2, <2>3, EachClient
<1>5. CASE ~ closed
  <2>1. PICK g : g = [c \in Clients |-> Offer(client[c], e)] /\ client' = g
    BY <1>1, <1>5 DEF Publish
  <2>2. client' = [c \in Clients |-> g[c]]
    BY <2>1
  <2>3. ASSUME NEW c \in Clients PROVE ClientOK(g[c])'
    <3>1. PICK cl : cl = client[c] /\ ClientOK(cl)
      BY DEF ClientsOK
    <3>2. PICK x : x = g[c] /\ x = Offer(cl, e)
      BY <2>1, <3>1
    <3>3. \/ emitted' = emitted + 1 /\ e = emitted' /\ phase \notin PastEnd
          \/ emitted' = emitted /\ e = End /\ phase' \in PastEnd
      BY <1>1, <1>2, <1>3
    <3>4. ClientOK(x)'
      BY <1>1, <1>2, <1>3, <1>5, <3>1, <3>2, <3>3, OfferedOK
    <3> QED BY <3>2, <3>4
  <2> QED BY <2>2, <2>3, EachClient
<1> QED BY <1>4, <1>5

\* publish_terminal: the terminal event follows every event.
LEMMA AnnounceClients == StoreTypes /\ ClientsOK /\ Announce => ClientsOK'
<1> SUFFICES ASSUME StoreTypes, ClientsOK, Announce PROVE ClientsOK'
  OBVIOUS
<1>1. PICK e : e = End /\ e \in 1 .. End /\ Publish(e)
  BY Sizes DEF Announce
<1>2. emitted' = emitted /\ phase' = "closing" /\ closed' = closed
  BY <1>1 DEF Announce, Publish
<1>3. PastEnd' = PastEnd /\ phase' \in PastEnd
  BY <1>2 DEF PastEnd
<1>4. CASE closed
  <2>1. client' = client
    BY <1>1, <1>4 DEF Publish
  <2> QED BY <1>2, <1>3, <2>1, ClientsKept
<1>5. CASE ~ closed
  <2>1. PICK g : g = [c \in Clients |-> Offer(client[c], e)] /\ client' = g
    BY <1>1, <1>5 DEF Publish
  <2>2. client' = [c \in Clients |-> g[c]]
    BY <2>1
  <2>3. ASSUME NEW c \in Clients PROVE ClientOK(g[c])'
    <3>1. PICK cl : cl = client[c] /\ ClientOK(cl)
      BY DEF ClientsOK
    <3>2. PICK x : x = g[c] /\ x = Offer(cl, e)
      BY <2>1, <3>1
    <3>3. \/ emitted' = emitted + 1 /\ e = emitted' /\ phase \notin PastEnd
          \/ emitted' = emitted /\ e = End /\ phase' \in PastEnd
      BY <1>1, <1>2, <1>3
    <3>4. ClientOK(x)'
      BY <1>1, <1>2, <1>3, <1>5, <3>1, <3>2, <3>3, OfferedOK
    <3> QED BY <3>2, <3>4
  <2> QED BY <2>2, <2>3, EachClient
<1> QED BY <1>4, <1>5

\* Closing the broker dismisses its listeners.
LEMMA CloseClients ==
    ASSUME StoreTypes, ClientsOK, CloseBroker, emitted' = emitted,
           phase \in PastEnd => phase' \in PastEnd
    PROVE  ClientsOK'
<1>1. PICK g : g = [c \in Clients |-> Dismiss(client[c])] /\ client' = g
  BY DEF CloseBroker
<1>2. closed' = TRUE /\ client' = [c \in Clients |-> g[c]]
  BY <1>1 DEF CloseBroker
<1>3. ASSUME NEW c \in Clients PROVE ClientOK(g[c])'
  <2>1. PICK cl : cl = client[c] /\ ClientOK(cl)
    BY DEF ClientsOK
  <2>2. PICK x : x = g[c] /\ x = Dismiss(cl)
    BY <1>1, <2>1
  <2>3. ClientOK(x)'
    BY <1>2, <2>1, <2>2, DismissedOK
  <2> QED BY <2>2, <2>3
<1> QED BY <1>2, <1>3, EachClient

\* The connections of a process that dies are gone.
LEMMA CrashClients == StoreTypes /\ ClientsOK /\ Crash => ClientsOK'
<1> SUFFICES ASSUME StoreTypes, ClientsOK, Crash PROVE ClientsOK'
  OBVIOUS
<1>1. PICK g : /\ client' = g
               /\ g = [c \in Clients |-> [client[c] EXCEPT !.mode = "away", !.listed = FALSE,
                                                           !.replay = <<>>, !.queue = <<>>]]
  BY DEF Crash
<1>2. client' = [c \in Clients |-> g[c]] /\ emitted' = emitted /\ phase' \in PastEnd
  BY <1>1 DEF Crash, PastEnd
<1>3. ASSUME NEW c \in Clients PROVE ClientOK(g[c])'
  <2>1. PICK cl : cl = client[c] /\ ClientOK(cl)
    BY DEF ClientsOK
  <2>2. PICK x : /\ x = g[c]
                 /\ x = [cl EXCEPT !.mode = "away", !.listed = FALSE, !.replay = <<>>, !.queue = <<>>]
    BY <1>1, <2>1
  <2>3. ClientOK(x)'
    BY <1>2, <2>1, <2>2, GoneOK
  <2> QED BY <2>2, <2>3
<1> QED BY <1>2, <1>3, EachClient

-----------------------------------------------------------------------------
(* What a client does *)

\* A client whose attachment holds nothing, and what a replay holds.
Emptied(cl, mode) == [cl EXCEPT !.mode = mode, !.listed = FALSE, !.replay = <<>>, !.queue = <<>>]
ReplayWith(events, tail) == events \o tail
KeepsReceived(x, cl) ==
    /\ x \in Client /\ x.listed = FALSE /\ x.replay = <<>> /\ x.queue = <<>>
    /\ x.got = cl.got /\ x.last = cl.last /\ x.told = cl.told /\ x.cut = cl.cut

\* The fields of a client whose attachment holds nothing.
LEMMA ClientEmptied ==
    ASSUME NEW cl \in Client,
           NEW mode \in {"away", "opening", "marked", "live", "reading", "waiting"}, NEW x,
           x = Emptied(cl, mode)
    PROVE  KeepsReceived(x, cl) /\ x.mode = mode
<1> DEFINE R == Seq(1 .. Marker)
           Q == Seq(0 .. End)
           C == [mode : {"away", "opening", "marked", "live", "reading", "waiting"},
                 route : {"runs", "resume", "thread"}, listed : BOOLEAN,
                 replay : R, queue : Q, last : 0 .. End, got : SUBSET (1 .. End),
                 told : BOOLEAN, cut : SUBSET {"slow", "evicted", "torn"}, attaches : Nat]
<1>1. <<>> \in R /\ <<>> \in Q
  OBVIOUS
<1>2. C = Client
  BY DEF Client
<1> HIDE DEF R, Q
<1>3. cl \in C
  BY <1>2
<1>4. x \in C
  BY <1>1, <1>3 DEF Emptied
<1>5. /\ x.mode = mode /\ x.listed = FALSE /\ x.replay = <<>> /\ x.queue = <<>>
      /\ x.got = cl.got /\ x.last = cl.last /\ x.told = cl.told /\ x.cut = cl.cut
  BY <1>3 DEF Emptied
<1> QED BY <1>2, <1>4, <1>5 DEF KeepsReceived

\* An attachment that holds nothing, for a client that keeps what it received.
LEMMA HoldsNothing ==
    ASSUME NEW cl, ClientOK(cl), NEW x \in Client,
           x.listed = FALSE, x.replay = <<>>, x.queue = <<>>,
           x.got = cl.got, x.last = cl.last, Excused(cl) => Excused(x)
    PROVE  ClientOK(x)
<1>1. cl \in Client /\ ClientShape(cl) /\ (Excused(cl) \/ Follows(cl))
  BY DEF ClientOK
<1>2. /\ ToSet(x.queue) = {} /\ ToSet(x.replay) = {} /\ Len(x.queue) = 0
      /\ DOMAIN x.queue = {} /\ DOMAIN x.replay = {}
  BY EmptyList
<1>3. ClientShape(x)
  BY <1>1, <1>2 DEF ClientShape
<1>4. Follows(cl) => Follows(x)
  BY <1>2 DEF Follows
<1>5. Len(x.queue) <= QueueMax
  BY <1>2, BoundAssumption
<1> QED BY <1>1, <1>3, <1>4, <1>5 DEF ClientOK

\* A client that is not attached to a broker, or waits for one, holds nothing.
LEMMA IdleFacts ==
    ASSUME NEW cl, ClientOK(cl)
    PROVE  /\ cl \in Client
           /\ cl.mode # "live" => cl.listed = FALSE /\ cl.queue = <<>>
           /\ cl.mode \notin {"live", "reading"} => cl.replay = <<>>
  BY ClientFields DEF ClientOK, ClientShape

\* stream_conversation_run and stream_resume find the broker open, or the run stale.
LEMMA AttachClients ==
    ASSUME StoreTypes, ClientsOK, NEW c \in Clients,
           \/ \E route \in {"runs", "resume"} : AttachLive(c, route)
           \/ AttachStale(c)
           \/ MarkGap(c)
           \/ Disconnect(c)
    PROVE  ClientsOK'
<1>1. PICK cl : cl = client[c] /\ ClientOK(cl)
  BY DEF ClientsOK
<1>2. /\ cl \in Client
      /\ cl.mode # "live" => cl.listed = FALSE /\ cl.queue = <<>>
      /\ cl.mode \notin {"live", "reading"} => cl.replay = <<>>
  BY <1>1, IdleFacts
<1>3. UNCHANGED <<emitted, closed, phase>>
  BY DEF AttachLive, AttachStale, MarkGap, Disconnect, UnchangedButClient
<1>4. ASSUME NEW x, client' = [client EXCEPT ![c] = x], x \in Client,
             x.listed = FALSE, x.replay = <<>>, x.queue = <<>>,
             x.got = cl.got, x.last = cl.last, cl.told => x.told, x.cut = cl.cut
      PROVE  ClientsOK'
  <2>1. Excused(cl) => Excused(x)
    BY <1>4 DEF Excused
  <2>2. ClientOK(x)
    BY <1>1, <1>4, <2>1, HoldsNothing
  <2> QED BY <1>3, <1>4, <2>2, OneClient
<1>a. cl \in Client
  BY <1>2
<1>5. cl.attaches + 1 \in Nat /\ cl.route \in {"runs", "resume", "thread"} /\ cl.told \in BOOLEAN
      /\ cl.mode \in {"away", "opening", "marked", "live", "reading", "waiting"} /\ cl.attaches \in Nat
  BY <1>a, ClientFields
<1>6. ASSUME NEW route \in {"runs", "resume"}, AttachLive(c, route) PROVE ClientsOK'
  <2>1. PICK x : x = [cl EXCEPT !.mode = "opening", !.route = route, !.attaches = @ + 1]
    OBVIOUS
  <2>2. client' = [client EXCEPT ![c] = x] /\ cl.mode = "away"
    BY <1>1, <1>6, <2>1 DEF AttachLive, Away, ClientsOK
  <2>3. x \in Client
    BY <1>a, <1>5, <1>6, <2>1 DEF Client
  <2>4. /\ x.listed = FALSE /\ x.replay = <<>> /\ x.queue = <<>> /\ x.got = cl.got /\ x.last = cl.last
        /\ x.cut = cl.cut
    BY <1>2, <2>1, <2>2 DEF Client
  <2>5. cl.told => x.told
    BY <1>a, <2>1 DEF Client
  <2> QED BY <1>4, <2>2, <2>3, <2>4, <2>5
<1>7. CASE AttachStale(c)
  <2>1. PICK x : x = [cl EXCEPT !.told = TRUE, !.attaches = @ + 1]
    OBVIOUS
  <2>2. client' = [client EXCEPT ![c] = x] /\ cl.mode = "away"
    BY <1>1, <1>7, <2>1 DEF AttachStale, Away, ClientsOK
  <2>3. x \in Client
    BY <1>a, <1>5, <2>1 DEF Client
  <2>4. /\ x.listed = FALSE /\ x.replay = <<>> /\ x.queue = <<>> /\ x.got = cl.got /\ x.last = cl.last
        /\ x.cut = cl.cut
    BY <1>2, <2>1, <2>2 DEF Client
  <2>5. cl.told => x.told
    BY <1>a, <2>1 DEF Client
  <2> QED BY <1>4, <2>2, <2>3, <2>4, <2>5
<1>8. CASE MarkGap(c)
  <2>1. PICK x : x = [cl EXCEPT !.mode = "marked", !.told = TRUE]
    OBVIOUS
  <2>2. client' = [client EXCEPT ![c] = x] /\ cl.mode = "opening"
    BY <1>1, <1>8, <2>1 DEF MarkGap, ClientsOK
  <2>3. x \in Client
    BY <1>a, <1>5, <2>1 DEF Client
  <2>4. /\ x.listed = FALSE /\ x.replay = <<>> /\ x.queue = <<>> /\ x.got = cl.got /\ x.last = cl.last
        /\ x.cut = cl.cut
    BY <1>2, <2>1, <2>2 DEF Client
  <2>5. cl.told => x.told
    BY <1>a, <2>1 DEF Client
  <2> QED BY <1>4, <2>2, <2>3, <2>4, <2>5
<1>9. CASE Disconnect(c)
  <2>1. PICK x : x = Emptied(cl, "away")
    OBVIOUS
  <2>2. client' = [client EXCEPT ![c] = x]
    <3>1. PICK nil : nil = <<>>
      OBVIOUS
    <3>2. client' = [client EXCEPT ![c].mode = "away", ![c].listed = FALSE, ![c].replay = nil,
                                   ![c].queue = nil]
      BY <1>9, <3>1 DEF Disconnect
    <3>3. x = [cl EXCEPT !.mode = "away", !.listed = FALSE, !.replay = nil, !.queue = nil]
      BY <2>1, <3>1 DEF Emptied
    <3>4. client \in [Clients -> Client] /\ cl = client[c]
      BY <1>1 DEF ClientsOK
    <3> QED BY <3>2, <3>3, <3>4
  <2>3. "away" \in {"away", "opening", "marked", "live", "reading", "waiting"}
    OBVIOUS
  <2>4. /\ x \in Client /\ x.listed = FALSE /\ x.replay = <<>> /\ x.queue = <<>>
        /\ x.got = cl.got /\ x.last = cl.last /\ x.told = cl.told /\ x.cut = cl.cut
    <3>1. KeepsReceived(x, cl)
      BY <1>a, <2>1, <2>3, ClientEmptied
    <3> QED BY <3>1 DEF KeepsReceived
  <2> QED BY <1>4, <2>2, <2>4
<1> QED BY <1>6, <1>7, <1>8, <1>9

\* What a route reads from the tables: from the cursor, everything, or nothing.
ReadAfter(events, last) == events \in {SliceAfter(LoadEvents, last), LoadEvents, <<>>}

\* What a replay reads from the tables is stored.
LEMMA ReadFromTables ==
    ASSUME StoreTypes, NEW last, NEW events, ReadAfter(events, last)
    PROVE  events \in Seq(1 .. End) /\ ToSet(events) \subseteq StoredIds
<1> DEFINE E == 1 .. End
<1>1. LoadEvents \in Seq(E) /\ ToSet(LoadEvents) = StoredIds
  BY LoadFacts DEF StoreTypes, ChunkRow
<1> HIDE DEF E
<1>2. events \in Seq(E) /\ ToSet(events) \subseteq StoredIds
  <2>1. CASE events = SliceAfter(LoadEvents, last)
    BY <1>1, <2>1, SliceFacts
  <2>2. CASE events = LoadEvents
    BY <1>1, <2>2
  <2>3. CASE events = <<>>
    BY <2>3, EmptyList
  <2> QED BY <2>1, <2>2, <2>3 DEF ReadAfter
<1> QED BY <1>2 DEF E

\* A list of stored events, with the stale marker after it or without.
LEMMA ReplayOf ==
    ASSUME NEW events \in Seq(1 .. End), NEW tail, tail = <<>> \/ tail = <<Marker>>,
           NEW replay, replay = ReplayWith(events, tail)
    PROVE  /\ replay \in Seq(1 .. Marker) /\ ToSet(replay) \subseteq ToSet(events) \cup {Marker}
           /\ \A i \in DOMAIN replay : replay[i] # Marker =>
                 i \in DOMAIN events /\ \A j \in 1 .. i : replay[j] = events[j]
<1> DEFINE R == 1 .. Marker
           E == 1 .. End
<1>2. E \subseteq R /\ Marker \in R /\ events \in Seq(E)
  BY Sizes DEF Marker
<1> HIDE DEF R, E
<1>3. ToSet(events) \subseteq E
  BY <1>2, ElementsOf
<1>4. tail \in Seq(R) /\ ToSet(tail) \subseteq {Marker}
  <2>1. CASE tail = <<>>
    BY <2>1, EmptyList
  <2>2. CASE tail = <<Marker>>
    BY <1>2, <2>2, OneElement
  <2> QED BY <2>1, <2>2
<1>5. events \in Seq(R)
  <2>1. ToSet(events) \subseteq R
    BY <1>2, <1>3
  <2> QED BY <1>2, <2>1, ListOfElements
<1>6. replay \in Seq(R) /\ ToSet(replay) = ToSet(events) \cup ToSet(tail)
  BY <1>4, <1>5, ConcatElements DEF ReplayWith
<1>7. /\ DOMAIN replay = 1 .. Len(events) + Len(tail) /\ Len(events) \in Nat /\ Len(tail) \in Nat
      /\ DOMAIN events = 1 .. Len(events) /\ DOMAIN tail = 1 .. Len(tail)
      /\ \A i \in 1 .. Len(events) + Len(tail) :
            replay[i] = IF i <= Len(events) THEN events[i] ELSE tail[i - Len(events)]
  BY <1>4, <1>5, ElementsOf DEF ReplayWith
<1>8. ASSUME NEW i \in DOMAIN replay, replay[i] # Marker
      PROVE  i \in DOMAIN events /\ \A j \in 1 .. i : replay[j] = events[j]
  <2>1. i <= Len(events)
    <3> SUFFICES ASSUME ~ (i <= Len(events)) PROVE FALSE
      OBVIOUS
    <3>1. i - Len(events) \in DOMAIN tail /\ replay[i] = tail[i - Len(events)]
      BY <1>7
    <3>2. tail[i - Len(events)] \in ToSet(tail)
      BY <1>4, <3>1, ElementsOf
    <3> QED BY <1>4, <1>8, <3>1, <3>2
  <2> QED BY <1>7, <2>1
<1> QED BY <1>4, <1>6, <1>8 DEF R

\* A client that reads the tables, from its cursor or from the start.
LEMMA ReadingOK ==
    ASSUME StoreTypes, TableInv, NEW cl, ClientOK(cl), NEW x, x.mode = "reading",
           x \in Client, x.listed = FALSE, x.queue = <<>>,
           x.got = cl.got, x.last = cl.last, x.told = cl.told,
           x.cut = cl.cut \cup (IF Whole(LoadEvents) THEN {} ELSE {"torn"}),
           NEW events, ReadAfter(events, cl.last),
           NEW tail, tail = <<>> \/ tail = <<Marker>>, x.replay = ReplayWith(events, tail)
    PROVE  ClientOK(x)
<1>1. cl \in Client /\ ClientShape(cl) /\ (Excused(cl) \/ Follows(cl))
  BY DEF ClientOK
<1>2. PICK r : r = x.replay /\ r = ReplayWith(events, tail)
  OBVIOUS
<1>l. PICK all, got, last : all = LoadEvents /\ got = cl.got /\ last = cl.last
  OBVIOUS
<1>e. ReadAfter(events, last)
  BY <1>l
<1>f. events \in {SliceAfter(all, last), all, <<>>}
  BY <1>e, <1>l DEF ReadAfter
<1>3. /\ r \in Seq(1 .. Marker) /\ ToSet(r) \subseteq StoredIds \cup {Marker}
      /\ \A i \in DOMAIN r : r[i] # Marker =>
            i \in DOMAIN events /\ \A j \in 1 .. i : r[j] = events[j]
  <2>1. events \in Seq(1 .. End) /\ ToSet(events) \subseteq StoredIds
    BY <1>e, ReadFromTables
  <2>2. tail = <<>> \/ tail = <<Marker>>
    OBVIOUS
  <2>3. /\ r \in Seq(1 .. Marker) /\ ToSet(r) \subseteq ToSet(events) \cup {Marker}
        /\ \A i \in DOMAIN r : r[i] # Marker =>
              i \in DOMAIN events /\ \A j \in 1 .. i : r[j] = events[j]
    BY <1>2, <2>1, <2>2, ReplayOf
  <2> QED BY <2>1, <2>3
<1>4. ToSet(x.queue) = {} /\ Len(x.queue) = 0 /\ DOMAIN x.queue = {}
  BY EmptyList
<1>5. ClientShape(x)
  <2>1. \A e \in StoredIds : e \in 1 .. emitted \/ (e = End /\ phase \in PastEnd)
    BY DEF TableInv
  <2>2. \A e \in x.got \cup ToSet(x.replay) \cup ToSet(x.queue) :
           \/ e \in 1 .. emitted \/ e \in {Sentinel, Marker}
           \/ e = End /\ phase \in PastEnd
    BY <1>1, <1>2, <1>3, <1>4, <2>1 DEF ClientShape
  <2> QED BY <1>4, <2>2 DEF ClientShape
<1>6. ASSUME ~ Excused(x) PROVE Follows(x)
  <2>1. Follows(cl) /\ Whole(LoadEvents)
    BY <1>1, <1>6 DEF Excused
  <2>2. ASSUME NEW i \in DOMAIN r, NEW d \in 1 .. emitted, d < r[i], r[i] # Marker
        PROVE  d \in cl.got \/ \E j \in 1 .. i - 1 : r[j] = d
    <3>1. i \in DOMAIN events /\ \A j \in 1 .. i : r[j] = events[j]
      BY <1>3, <2>2
    <3>2. i \in Nat \ {0}
      <4> DEFINE R == 1 .. Marker
      <4>1. r \in Seq(R)
        BY <1>3
      <4> HIDE DEF R
      <4> QED BY <4>1, ElementsOf
    <3>3. d < events[i]
      BY <2>2, <3>1, <3>2
    <3>4. all \in Seq(1 .. End) /\ Whole(all)
      BY <1>l, <2>1, LoadFacts DEF StoreTypes, ChunkRow
    <3>5. /\ emitted \in Nat /\ emitted <= MaxEvents
          /\ got \in SUBSET (1 .. End) /\ last \in got \cup {0}
          /\ \A e \in got, b \in 1 .. emitted : b < e => b \in got
      BY <1>1, <1>l, <2>1, RunNumbers, ClientFields DEF Follows
    <3>6. d \in got \/ \E j \in 1 .. i - 1 : events[j] = d
      BY <1>f, <3>1, <3>3, <3>4, <3>5, ReplayFollows
    <3>7. \A j \in 1 .. i - 1 : r[j] = events[j]
      BY <3>1, <3>2
    <3> QED BY <1>l, <3>6, <3>7
  <2> QED BY <1>2, <1>4, <2>1, <2>2 DEF Follows
<1>7. Len(x.queue) <= QueueMax
  BY <1>4, BoundAssumption
<1> QED BY <1>5, <1>6, <1>7 DEF ClientOK

\* The fields of a client that reads the tables.
ReadsFrom(x, cl, r, torn) ==
    /\ x \in Client /\ x.mode = "reading" /\ x.listed = cl.listed /\ x.queue = cl.queue
    /\ x.replay = r /\ x.got = cl.got /\ x.last = cl.last /\ x.told = cl.told
    /\ x.cut = cl.cut \cup torn

Attached(cl, route, r, torn) ==
    [cl EXCEPT !.mode = "reading", !.route = route, !.replay = r, !.attaches = @ + 1,
               !.cut = @ \cup torn]
Polled(cl, r, torn) == [cl EXCEPT !.mode = "reading", !.replay = r, !.cut = @ \cup torn]

\* What a client that reads the tables has and holds.
LEMMA ReadingFields ==
    ASSUME NEW cl \in Client, NEW r \in Seq(1 .. Marker), NEW torn \in SUBSET {"torn"},
           NEW route \in {"runs", "resume", "thread"}
    PROVE  /\ ReadsFrom(Attached(cl, route, r, torn), cl, r, torn)
           /\ ReadsFrom(Polled(cl, r, torn), cl, r, torn)
<1> DEFINE R == Seq(1 .. Marker)
           Q == Seq(0 .. End)
           C == [mode : {"away", "opening", "marked", "live", "reading", "waiting"},
                 route : {"runs", "resume", "thread"}, listed : BOOLEAN,
                 replay : R, queue : Q, last : 0 .. End, got : SUBSET (1 .. End),
                 told : BOOLEAN, cut : SUBSET {"slow", "evicted", "torn"}, attaches : Nat]
<1>1. C = Client /\ r \in R
  BY DEF Client
<1> HIDE DEF R, Q
<1>2. cl \in C
  BY <1>1
<1>3. /\ cl.attaches + 1 \in Nat /\ cl.cut \cup torn \in SUBSET {"slow", "evicted", "torn"}
      /\ "reading" \in {"away", "opening", "marked", "live", "reading", "waiting"}
  <2>1. cl.attaches \in Nat /\ cl.cut \in SUBSET {"slow", "evicted", "torn"}
    BY ClientFields
  <2>2. cl.cut \cup torn \in SUBSET {"slow", "evicted", "torn"}
    BY <2>1
  <2>3. cl.attaches + 1 \in Nat
    BY <2>1
  <2> QED BY <2>2, <2>3
<1>4. ReadsFrom(Attached(cl, route, r, torn), cl, r, torn)
  <2>1. PICK x : x = Attached(cl, route, r, torn)
    OBVIOUS
  <2>2. x \in C
    BY <1>1, <1>2, <1>3, <2>1 DEF Attached
  <2>3. /\ x.mode = "reading" /\ x.listed = cl.listed /\ x.queue = cl.queue
        /\ x.replay = r /\ x.got = cl.got /\ x.last = cl.last /\ x.told = cl.told
        /\ x.cut = cl.cut \cup torn
    BY <1>2, <2>1 DEF Attached
  <2> QED BY <1>1, <2>1, <2>2, <2>3 DEF ReadsFrom
<1>5. ReadsFrom(Polled(cl, r, torn), cl, r, torn)
  <2>1. PICK x : x = Polled(cl, r, torn)
    OBVIOUS
  <2>2. x \in C
    BY <1>1, <1>2, <1>3, <2>1 DEF Polled
  <2>3. /\ x.mode = "reading" /\ x.listed = cl.listed /\ x.queue = cl.queue
        /\ x.replay = r /\ x.got = cl.got /\ x.last = cl.last /\ x.told = cl.told
        /\ x.cut = cl.cut \cup torn
    BY <1>2, <2>1 DEF Polled
  <2> QED BY <1>1, <2>1, <2>2, <2>3 DEF ReadsFrom
<1> QED BY <1>4, <1>5

\* A client that starts to read the tables.
LEMMA ReadingClients ==
    ASSUME StoreTypes, TableInv, ClientsOK, NEW c \in Clients,
           client[c].mode \in {"away", "waiting"},
           NEW events, ReadAfter(events, client[c].last),
           NEW tail, tail = <<>> \/ tail = <<Marker>>, NEW r, r = ReplayWith(events, tail),
           NEW torn, torn = IF Whole(LoadEvents) THEN {} ELSE {"torn"},
           NEW x, ReadsFrom(x, client[c], r, torn), client' = [client EXCEPT ![c] = x],
           UNCHANGED <<emitted, closed, phase>>
    PROVE  ClientsOK'
<1>1. PICK cl : cl = client[c] /\ ClientOK(cl)
  BY DEF ClientsOK
<1>2. cl.listed = FALSE /\ cl.queue = <<>>
  BY <1>1, IdleFacts
<1>3. /\ x \in Client /\ x.mode = "reading" /\ x.listed = FALSE /\ x.queue = <<>>
      /\ x.replay = ReplayWith(events, tail)
      /\ x.got = cl.got /\ x.last = cl.last /\ x.told = cl.told
      /\ x.cut = cl.cut \cup (IF Whole(LoadEvents) THEN {} ELSE {"torn"})
  BY <1>1, <1>2 DEF ReadsFrom
<1>4. ReadAfter(events, cl.last)
  BY <1>1
<1>5. ClientOK(x)
  BY <1>1, <1>3, <1>4, ReadingOK
<1> QED BY <1>5, OneClient

\* A replay without the marker.
LEMMA NoTail ==
    ASSUME NEW S, NEW events \in Seq(S)
    PROVE  ReplayWith(events, <<>>) = events
  BY DEF ReplayWith

\* The routes that read the tables.
LEMMA ReplayClients ==
    ASSUME StoreTypes, TableInv, ClientsOK, NEW c \in Clients,
           AttachReplay(c) \/ AttachResume(c) \/ AttachThread(c) \/ Poll(c)
    PROVE  ClientsOK'
<1>1. PICK cl : cl = client[c] /\ ClientOK(cl)
  BY DEF ClientsOK
<1>2. cl \in Client /\ client \in [Clients -> Client]
  BY <1>1, IdleFacts DEF ClientsOK
<1>3. UNCHANGED <<emitted, closed, phase>>
  BY DEF AttachReplay, AttachResume, AttachThread, Poll, UnchangedButClient
<1>4. PICK torn \in SUBSET {"torn"} : torn = IF Whole(LoadEvents) THEN {} ELSE {"torn"}
  OBVIOUS
<1>5. ASSUME NEW events, ReadAfter(events, cl.last), NEW tail, tail = <<>> \/ tail = <<Marker>>,
             NEW r, r = ReplayWith(events, tail), NEW x, ReadsFrom(x, cl, r, torn),
             cl.mode \in {"away", "waiting"}, client' = [client EXCEPT ![c] = x]
      PROVE  ClientsOK'
  <2>1. ReadsFrom(x, client[c], r, torn) /\ client[c].mode \in {"away", "waiting"}
    BY <1>1, <1>5
  <2>2. ReadAfter(events, client[c].last)
    BY <1>1, <1>5
  <2>3. tail = <<>> \/ tail = <<Marker>>
    BY <1>5
  <2>4. r = ReplayWith(events, tail) /\ client' = [client EXCEPT ![c] = x]
    BY <1>5
  <2> QED BY <1>3, <1>4, <2>1, <2>2, <2>3, <2>4, ReadingClients
<1>6. ASSUME NEW events, ReadAfter(events, cl.last), NEW tail, tail = <<>> \/ tail = <<Marker>>,
             NEW r, r = ReplayWith(events, tail), NEW route \in {"runs", "resume", "thread"},
             cl.mode \in {"away", "waiting"}, Replaying(c, route, r)
      PROVE  ClientsOK'
  <2>1. PICK x : x = Attached(cl, route, r, torn)
    OBVIOUS
  <2>2. client' = [client EXCEPT ![c].mode = "reading", ![c].route = route, ![c].replay = r,
                                 ![c].attaches = @ + 1, ![c].cut = @ \cup torn]
    BY <1>4, <1>6 DEF Replaying
  <2>3. client' = [client EXCEPT ![c] = x]
    BY <1>1, <1>2, <2>1, <2>2 DEF Attached
  <2>4. events \in Seq(1 .. End)
    BY <1>6, ReadFromTables
  <2>5. tail = <<>> \/ tail = <<Marker>>
    BY <1>6
  <2>6. r \in Seq(1 .. Marker)
    BY <1>6, <2>4, <2>5, ReplayOf
  <2>7. ReadsFrom(x, cl, r, torn)
    BY <1>2, <2>1, <2>6, ReadingFields
  <2> QED BY <1>5, <1>6, <2>3, <2>5, <2>7
<1>7. CASE AttachReplay(c)
  <2>1. CASE Replaying(c, "runs", SliceAfter(LoadEvents, client[c].last))
    <3>1. PICK events, tail : events = SliceAfter(LoadEvents, cl.last) /\ tail = <<>>
      OBVIOUS
    <3>e. ReadAfter(events, cl.last)
      BY <3>1 DEF ReadAfter
    <3>2. events \in Seq(1 .. End)
      BY <3>e, ReadFromTables
    <3>3. PICK r : r = ReplayWith(events, tail) /\ r = events
      BY <3>1, <3>2, NoTail
    <3>4. Replaying(c, "runs", r)
      BY <1>1, <2>1, <3>1, <3>3
    <3>5. cl.mode \in {"away", "waiting"}
      BY <1>1, <1>7 DEF AttachReplay, Away
    <3> QED BY <1>6, <3>1, <3>e, <3>3, <3>4, <3>5
  <2>2. CASE client' = [client EXCEPT ![c].told = TRUE, ![c].attaches = @ + 1]
    <3>1. PICK x : x = [cl EXCEPT !.told = TRUE, !.attaches = @ + 1]
      OBVIOUS
    <3>2. client' = [client EXCEPT ![c] = x]
      BY <1>1, <1>2, <2>2, <3>1
    <3>3. cl.mode = "away"
      BY <1>1, <1>7 DEF AttachReplay, Away
    <3>4. x \in Client
      <4>1. cl \in Client /\ cl.attaches + 1 \in Nat
        BY <1>2, ClientFields
      <4> QED BY <3>1, <4>1 DEF Client
    <3>5. /\ x.listed = FALSE /\ x.replay = <<>> /\ x.queue = <<>>
          /\ x.got = cl.got /\ x.last = cl.last /\ x.told = TRUE
      BY <1>1, <1>2, <3>1, <3>3, IdleFacts DEF Client
    <3>6. ClientOK(x)
      BY <1>1, <3>4, <3>5, HoldsNothing DEF Excused
    <3> QED BY <1>3, <3>2, <3>6, OneClient
  <2> QED BY <1>7, <2>1, <2>2 DEF AttachReplay
<1>8. CASE AttachResume(c)
  <2>1. PICK events, tail : /\ events = SliceAfter(LoadEvents, cl.last)
                            /\ tail = IF rowOpen THEN <<Marker>> ELSE <<>>
    OBVIOUS
  <2>2. PICK r : r = ReplayWith(events, tail)
    OBVIOUS
  <2>3. Replaying(c, "resume", r)
    BY <1>1, <1>8, <2>1, <2>2 DEF AttachResume, ReplayWith
  <2>4. cl.mode \in {"away", "waiting"}
    BY <1>1, <1>8 DEF AttachResume, Away
  <2>5. ReadAfter(events, cl.last)
    BY <2>1 DEF ReadAfter
  <2>6. tail = <<>> \/ tail = <<Marker>>
    BY <2>1
  <2> QED BY <1>6, <2>2, <2>3, <2>4, <2>5, <2>6
<1>9. CASE AttachThread(c)
  <2>1. PICK events \in {EventsAfterCursor(LoadEvents, cl.last), <<>>} : Replaying(c, "thread", events)
    BY <1>1, <1>9 DEF AttachThread
  <2>2. ReadAfter(events, cl.last)
    BY <2>1 DEF EventsAfterCursor, ReadAfter
  <2>3. events \in Seq(1 .. End)
    BY <2>2, ReadFromTables
  <2>4. PICK tail : tail = <<>>
    OBVIOUS
  <2>5. PICK r : r = ReplayWith(events, tail) /\ r = events
    BY <2>3, <2>4, NoTail
  <2>6. cl.mode \in {"away", "waiting"}
    BY <1>1, <1>9 DEF AttachThread, Away
  <2>7. Replaying(c, "thread", r)
    BY <2>1, <2>5
  <2> QED BY <1>6, <2>2, <2>4, <2>5, <2>6, <2>7
<1>10. CASE Poll(c)
  <2>1. PICK events : events = EventsAfterCursor(LoadEvents, cl.last)
    OBVIOUS
  <2>2. ReadAfter(events, cl.last)
    BY <2>1 DEF EventsAfterCursor, ReadAfter
  <2>3. events \in Seq(1 .. End)
    BY <2>2, ReadFromTables
  <2>4. PICK tail : tail = <<>>
    OBVIOUS
  <2>5. PICK r : r = ReplayWith(events, tail) /\ r = events
    BY <2>3, <2>4, NoTail
  <2>6. cl.mode \in {"away", "waiting"}
    BY <1>1, <1>10 DEF Poll
  <2>7. PICK x : x = Polled(cl, r, torn)
    OBVIOUS
  <2>8. client' = [client EXCEPT ![c].mode = "reading", ![c].replay = r, ![c].cut = @ \cup torn]
    BY <1>1, <1>4, <1>10, <2>1, <2>5 DEF Poll
  <2>9. client' = [client EXCEPT ![c] = x]
    BY <1>1, <1>2, <2>7, <2>8 DEF Polled
  <2>10. r \in Seq(1 .. Marker)
    BY <2>3, <2>4, <2>5, ReplayOf
  <2>11. ReadsFrom(x, cl, r, torn)
    BY <1>2, <2>7, <2>10, ReadingFields, "runs" \in {"runs", "resume", "thread"}
  <2> QED BY <1>5, <2>2, <2>4, <2>5, <2>6, <2>9, <2>11
<1> QED BY <1>7, <1>8, <1>9, <1>10

\* The fields of a client that subscribes to the broker.
Listening(cl, listed, snapshot, queue, more) ==
    [cl EXCEPT !.mode = "live", !.listed = listed, !.replay = snapshot, !.queue = queue,
               !.cut = @ \cup more]

Listens(x, cl, listed, snapshot, queue, more) ==
    /\ x \in Client /\ x.mode = "live" /\ x.listed = listed /\ x.replay = snapshot /\ x.queue = queue
    /\ x.got = cl.got /\ x.last = cl.last /\ x.told = cl.told /\ x.cut = cl.cut \cup more

\* What a client that subscribed has and holds.
LEMMA ListeningFields ==
    ASSUME NEW cl \in Client, NEW listed \in BOOLEAN, NEW snapshot \in Seq(1 .. Marker),
           NEW queue \in Seq(0 .. End), NEW more \in SUBSET {"evicted"}
    PROVE  Listens(Listening(cl, listed, snapshot, queue, more), cl, listed, snapshot, queue, more)
<1> DEFINE R == Seq(1 .. Marker)
           Q == Seq(0 .. End)
           C == [mode : {"away", "opening", "marked", "live", "reading", "waiting"},
                 route : {"runs", "resume", "thread"}, listed : BOOLEAN,
                 replay : R, queue : Q, last : 0 .. End, got : SUBSET (1 .. End),
                 told : BOOLEAN, cut : SUBSET {"slow", "evicted", "torn"}, attaches : Nat]
<1>1. C = Client /\ snapshot \in R /\ queue \in Q
  BY DEF Client
<1> HIDE DEF R, Q
<1>2. cl \in C
  BY <1>1
<1>3. /\ cl.cut \cup more \in SUBSET {"slow", "evicted", "torn"}
      /\ "live" \in {"away", "opening", "marked", "live", "reading", "waiting"}
  <2>1. cl.cut \in SUBSET {"slow", "evicted", "torn"}
    BY ClientFields
  <2> QED BY <2>1
<1>4. PICK x : x = Listening(cl, listed, snapshot, queue, more)
  OBVIOUS
<1>5. x \in C
  BY <1>1, <1>2, <1>3, <1>4 DEF Listening
<1>6. /\ x.mode = "live" /\ x.listed = listed /\ x.replay = snapshot /\ x.queue = queue
      /\ x.got = cl.got /\ x.last = cl.last /\ x.told = cl.told /\ x.cut = cl.cut \cup more
  BY <1>2, <1>4 DEF Listening
<1> QED BY <1>1, <1>4, <1>5, <1>6 DEF Listens

\* A client that holds a snapshot of the ring from a cursor, and a place in an open broker.
LEMMA ListeningOK ==
    ASSUME StoreTypes, RingInv, NEW cl, ClientOK(cl), NEW snapshot \in Seq(1 .. End),
           ToSet(snapshot) \subseteq ToSet(ring), Ascending(snapshot),
           NEW queue, queue = IF closed THEN <<Sentinel>> ELSE <<>>,
           NEW more,
           more = {} => \A e \in 1 .. emitted :
               e > cl.last /\ (\E r \in ToSet(ring) : e <= r) => e \in ToSet(snapshot),
           NEW listed, listed <=> ~ closed,
           NEW x, Listens(x, cl, listed, snapshot, queue, more)
    PROVE  ClientOK(x)
<1>1. cl \in Client /\ ClientShape(cl) /\ (Excused(cl) \/ Follows(cl))
  BY DEF ClientOK
<1>2. /\ x \in Client /\ x.mode = "live" /\ x.listed = listed /\ x.replay = snapshot /\ x.queue = queue
      /\ x.got = cl.got /\ x.last = cl.last /\ x.told = cl.told /\ x.cut = cl.cut \cup more
  BY DEF Listens
<1>3. /\ ToSet(queue) \subseteq {Sentinel} /\ Len(queue) \in {0, 1}
      /\ ~ closed => ToSet(queue) = {}
  <2>1. CASE closed
    <3>1. queue = <<Sentinel>>
      BY <2>1
    <3>2. Len(queue) = 1 /\ ToSet(queue) = {Sentinel}
      BY <3>1, OneElement
    <3> QED BY <2>1, <3>2
  <2>2. CASE ~ closed
    <3>1. queue = <<>>
      BY <2>2
    <3>2. Len(queue) = 0 /\ ToSet(queue) = {}
      BY <3>1, EmptyList
    <3> QED BY <3>2
  <2> QED BY <2>1, <2>2
<1>4. Len(x.queue) <= QueueMax
  BY <1>2, <1>3, BoundAssumption
<1>5. ClientShape(x)
  <2>1. \A e \in ToSet(ring) : e \in 1 .. emitted \/ (e = End /\ phase \in PastEnd)
    BY DEF RingInv, PastEnd
  <2>2. \A e \in x.got \cup ToSet(x.replay) \cup ToSet(x.queue) :
           \/ e \in 1 .. emitted \/ e \in {Sentinel, Marker}
           \/ e = End /\ phase \in PastEnd
    BY <1>1, <1>2, <1>3, <2>1 DEF ClientShape
  <2>3. x.listed => ~ closed /\ Sentinel \notin ToSet(x.queue)
    BY <1>2, <1>3
  <2> QED BY <1>2, <2>2, <2>3 DEF ClientShape
<1>6. ASSUME ~ Excused(x) PROVE Follows(x)
  <2>1. Follows(cl) /\ more = {}
    BY <1>1, <1>2, <1>6 DEF Excused
  <2>2. emitted \in Nat /\ cl.last \in Nat /\ (cl.last # 0 => cl.last \in cl.got)
    BY <1>1, <2>1, RunNumbers, ClientFields, Sizes DEF Follows
  <2>3. ASSUME NEW d \in 1 .. emitted, \E r \in ToSet(ring) : d <= r
        PROVE  d \in cl.got \/ d \in ToSet(snapshot)
    <3>1. CASE d > cl.last
      BY <2>1, <2>3, <3>1
    <3>2. CASE d = cl.last
      BY <2>2, <3>2
    <3>3. CASE d < cl.last
      <4>1. cl.last \in cl.got
        BY <2>2, <3>3
      <4> QED BY <2>1, <3>3, <4>1 DEF Follows
    <3> QED BY <2>2, <3>1, <3>2, <3>3
  <2>4. /\ DOMAIN snapshot = 1 .. Len(snapshot) /\ Len(snapshot) \in Nat
        /\ \A i \in DOMAIN snapshot : snapshot[i] \in ToSet(snapshot) /\ snapshot[i] \in Nat
    <3> DEFINE S == 1 .. End
    <3>1. snapshot \in Seq(S) /\ S \subseteq Nat
      BY Sizes
    <3> HIDE DEF S
    <3> QED BY <3>1, ElementsOf
  <2>5. ASSUME NEW i \in DOMAIN snapshot, NEW d \in 1 .. emitted, d < snapshot[i]
        PROVE  d \in cl.got \/ \E j \in 1 .. i - 1 : snapshot[j] = d
    <3>1. snapshot[i] \in ToSet(ring) /\ d <= snapshot[i]
      BY <2>4, <2>5
    <3>2. d \in cl.got \/ d \in ToSet(snapshot)
      BY <2>3, <3>1
    <3>3. ASSUME d \in ToSet(snapshot) PROVE \E j \in 1 .. i - 1 : snapshot[j] = d
      <4>1. PICK j \in DOMAIN snapshot : snapshot[j] = d
        BY <3>3 DEF ToSet
      <4>2. j < i
        <5> SUFFICES ASSUME ~ (j < i) PROVE FALSE
          OBVIOUS
        <5>1. i = j \/ i < j
          BY <2>4
        <5>2. i < j => snapshot[i] < snapshot[j]
          BY DEF Ascending
        <5> QED BY <2>4, <2>5, <4>1, <5>1, <5>2
      <4> QED BY <2>4, <4>1, <4>2
    <3> QED BY <3>2, <3>3
  <2>6. \A i \in DOMAIN x.replay, d \in 1 .. emitted :
           d < x.replay[i] /\ x.replay[i] # Marker =>
               d \in x.got \/ \E j \in 1 .. i - 1 : x.replay[j] = d
    BY <1>2, <2>5
  <2>7. \A i \in DOMAIN x.queue, d \in 1 .. emitted : ~ (d < x.queue[i])
    <3>1. \A i \in DOMAIN queue : queue[i] \in ToSet(queue)
      BY DEF ToSet
    <3>2. \A d \in 1 .. emitted : ~ (d < Sentinel)
      BY <2>2 DEF Sentinel
    <3> QED BY <1>2, <1>3, <3>1, <3>2
  <2>8. x.listed => \A d \in 1 .. emitted : d \in x.got \cup ToSet(x.replay) \cup ToSet(x.queue)
    <3> SUFFICES ASSUME listed, NEW d \in 1 .. emitted PROVE d \in cl.got \cup ToSet(snapshot)
      BY <1>2
    <3>1. ~ closed /\ emitted > 0
      BY <2>2
    <3>2. PICK r \in ToSet(ring) : emitted <= r
      BY <3>1 DEF RingInv
    <3>3. r \in Nat
      <4>1. r \in 1 .. emitted \cup {End}
        BY <3>2 DEF RingInv
      <4> QED BY <2>2, <4>1, Sizes
    <3>4. d <= r
      BY <2>2, <3>2, <3>3
    <3> QED BY <2>3, <3>2, <3>4
  <2>9. /\ \A e \in x.got, d \in 1 .. emitted : d < e => d \in x.got
        /\ x.last \in x.got \cup {0}
    BY <1>2, <2>1 DEF Follows
  <2> QED BY <2>6, <2>7, <2>8, <2>9 DEF Follows
<1> QED BY <1>2, <1>4, <1>5, <1>6 DEF ClientOK

\* subscribe takes the place and the snapshot in one step.
LEMMA SubscribeClients ==
    ASSUME StoreTypes, RingInv, ClientsOK, NEW c \in Clients, Subscribe(c)
    PROVE  ClientsOK'
<1>1. PICK cl : cl = client[c] /\ ClientOK(cl)
  BY DEF ClientsOK
<1>2. cl \in Client /\ client \in [Clients -> Client]
  BY <1>1, IdleFacts DEF ClientsOK
<1>3. UNCHANGED <<emitted, closed, phase>>
  BY DEF Subscribe, UnchangedButClient
<1>4. PICK snapshot : snapshot = SliceAfter(ring, SubscribeFrom(c))
  OBVIOUS
<1>5. PICK queue : queue = IF closed THEN <<Sentinel>> ELSE <<>>
  OBVIOUS
<1>6. PICK more \in SUBSET {"evicted"} : more = IF Skipped(c, snapshot) # {} THEN {"evicted"} ELSE {}
  OBVIOUS
<1>7. PICK listed \in BOOLEAN : listed = ~ closed
  OBVIOUS
<1>8. PICK x : x = Listening(cl, listed, snapshot, queue, more)
  OBVIOUS
<1>9. client' = [client EXCEPT ![c] = x]
  <2>1. client' = [client EXCEPT ![c].mode = "live", ![c].listed = listed, ![c].replay = snapshot,
                                 ![c].queue = queue, ![c].cut = @ \cup more]
    BY <1>4, <1>5, <1>6, <1>7 DEF Subscribe
  <2> QED BY <1>1, <1>2, <1>8, <2>1 DEF Listening
<1>10. /\ snapshot \in Seq(1 .. End) /\ snapshot \in Seq(1 .. Marker)
       /\ ToSet(snapshot) \subseteq ToSet(ring) /\ Ascending(snapshot)
  <2> DEFINE S == 1 .. End
             M == 1 .. Marker
  <2>1. ring \in Seq(S) /\ Ascending(ring) /\ S \subseteq M
    BY Sizes DEF StoreTypes, RingInv, Marker
  <2> HIDE DEF S, M
  <2>2. snapshot \in Seq(S) /\ ToSet(snapshot) \subseteq ToSet(ring) /\ Ascending(snapshot)
    BY <1>4, <2>1, SliceFacts
  <2>3. ToSet(snapshot) \subseteq M
    BY <2>1, <2>2, ElementsOf
  <2>4. snapshot \in Seq(M)
    BY <2>2, <2>3, ListOfElements
  <2> QED BY <2>2, <2>4 DEF S, M
<1>11. queue \in Seq(0 .. End)
  <2> DEFINE S == 0 .. End
  <2>1. Sentinel \in S
    BY Sizes DEF Sentinel
  <2> HIDE DEF S
  <2>2. CASE closed
    BY <1>5, <2>1, <2>2, OneElement DEF S
  <2>3. CASE ~ closed
    BY <1>5, <2>3, EmptyList
  <2> QED BY <2>2, <2>3
<1>12. Listens(x, cl, listed, snapshot, queue, more)
  BY <1>2, <1>8, <1>10, <1>11, ListeningFields
<1>13. more = {} => \A e \in 1 .. emitted :
           e > cl.last /\ (\E r \in ToSet(ring) : e <= r) => e \in ToSet(snapshot)
  <2>1. more = {} => Skipped(c, snapshot) = {}
    BY <1>6
  <2>2. Skipped(c, snapshot) = {} => \A e \in 1 .. emitted :
           e > client[c].last /\ (\E r \in ToSet(ring) : e <= r) => e \in ToSet(snapshot)
    BY DEF Skipped
  <2> QED BY <1>1, <2>1, <2>2
<1>14. ClientOK(x)
  BY <1>1, <1>5, <1>7, <1>10, <1>12, <1>13, ListeningOK
<1> QED BY <1>3, <1>9, <1>14, OneClient

\* The fields of a client that receives an event.
Took(x, cl, h) ==
    /\ x \in Client /\ x.mode = cl.mode /\ x.listed = cl.listed /\ x.cut = cl.cut
    /\ IF h = Marker THEN x.told = TRUE /\ x.last = cl.last /\ x.got = cl.got
       ELSE x.told = cl.told /\ x.last = h /\ x.got = cl.got \cup {h}

\* A client that takes an event of its replay, and one of its queue.
FromReplay(cl, h, rest) == [Received(cl, h) EXCEPT !.replay = rest]
FromQueue(cl, h, rest) == [Received(cl, h) EXCEPT !.queue = rest]

\* What a client that took an event has and holds.
LEMMA TookFields ==
    ASSUME NEW cl \in Client, NEW h, h = Marker \/ h \in 1 .. End
    PROVE  /\ Took(Received(cl, h), cl, h)
           /\ Received(cl, h).replay = cl.replay /\ Received(cl, h).queue = cl.queue
<1> DEFINE R == Seq(1 .. Marker)
           Q == Seq(0 .. End)
           C == [mode : {"away", "opening", "marked", "live", "reading", "waiting"},
                 route : {"runs", "resume", "thread"}, listed : BOOLEAN,
                 replay : R, queue : Q, last : 0 .. End, got : SUBSET (1 .. End),
                 told : BOOLEAN, cut : SUBSET {"slow", "evicted", "torn"}, attaches : Nat]
<1>1. C = Client
  BY DEF Client
<1> HIDE DEF R, Q
<1>2. cl \in C
  BY <1>1
<1>3. PICK y : y = Received(cl, h)
  OBVIOUS
<1>4. /\ y \in C /\ y.mode = cl.mode /\ y.listed = cl.listed /\ y.cut = cl.cut
      /\ y.replay = cl.replay /\ y.queue = cl.queue
      /\ h = Marker => y.told = TRUE /\ y.last = cl.last /\ y.got = cl.got
      /\ h # Marker => y.told = cl.told /\ y.last = h /\ y.got = cl.got \cup {h}
  <2>1. CASE h = Marker
    <3>1. y = [cl EXCEPT !.told = TRUE]
      BY <1>3, <2>1 DEF Received
    <3> QED BY <1>2, <2>1, <3>1
  <2>2. CASE h # Marker
    <3>1. y = [cl EXCEPT !.last = h, !.got = @ \cup {h}]
      BY <1>3, <2>2 DEF Received
    <3>2. h \in 1 .. End /\ h \in 0 .. End
      BY <2>2, Sizes
    <3>3. cl.got \in SUBSET (1 .. End)
      BY <1>2
    <3>4. cl.got \cup {h} \in SUBSET (1 .. End)
      BY <3>2, <3>3
    <3> QED BY <1>2, <2>2, <3>1, <3>2, <3>4
  <2> QED BY <2>1, <2>2
<1> QED BY <1>1, <1>3, <1>4 DEF Took

\* The rest of the replay of a client that took its first event.
LEMMA ReplayFields ==
    ASSUME NEW cl \in Client, NEW h, h = Marker \/ h \in 1 .. End, NEW r \in Seq(1 .. Marker)
    PROVE  /\ Took(FromReplay(cl, h, r), cl, h)
           /\ FromReplay(cl, h, r).replay = r /\ FromReplay(cl, h, r).queue = cl.queue
<1> DEFINE R == Seq(1 .. Marker)
           Q == Seq(0 .. End)
           C == [mode : {"away", "opening", "marked", "live", "reading", "waiting"},
                 route : {"runs", "resume", "thread"}, listed : BOOLEAN,
                 replay : R, queue : Q, last : 0 .. End, got : SUBSET (1 .. End),
                 told : BOOLEAN, cut : SUBSET {"slow", "evicted", "torn"}, attaches : Nat]
<1>1. C = Client /\ r \in R
  BY DEF Client
<1> HIDE DEF R, Q
<1>2. PICK y : y = Received(cl, h)
  OBVIOUS
<1>3. Took(y, cl, h) /\ y.replay = cl.replay /\ y.queue = cl.queue
  BY <1>2, TookFields
<1>4. y \in C
  BY <1>1, <1>3 DEF Took
<1>5. PICK x : x = FromReplay(cl, h, r)
  OBVIOUS
<1>6. /\ x \in C /\ x.replay = r /\ x.queue = y.queue /\ x.mode = y.mode /\ x.listed = y.listed
      /\ x.cut = y.cut /\ x.told = y.told /\ x.last = y.last /\ x.got = y.got
  <2>1. x = [y EXCEPT !.replay = r]
    BY <1>2, <1>5 DEF FromReplay
  <2> QED BY <1>1, <1>4, <2>1
<1>7. Took(x, cl, h)
  BY <1>1, <1>3, <1>6 DEF Took
<1> QED BY <1>3, <1>5, <1>6, <1>7

\* The rest of the queue of a client that took its first event.
LEMMA QueueFields ==
    ASSUME NEW cl \in Client, NEW h, h = Marker \/ h \in 1 .. End, NEW q \in Seq(0 .. End)
    PROVE  /\ Took(FromQueue(cl, h, q), cl, h)
           /\ FromQueue(cl, h, q).queue = q /\ FromQueue(cl, h, q).replay = cl.replay
<1> DEFINE R == Seq(1 .. Marker)
           Q == Seq(0 .. End)
           C == [mode : {"away", "opening", "marked", "live", "reading", "waiting"},
                 route : {"runs", "resume", "thread"}, listed : BOOLEAN,
                 replay : R, queue : Q, last : 0 .. End, got : SUBSET (1 .. End),
                 told : BOOLEAN, cut : SUBSET {"slow", "evicted", "torn"}, attaches : Nat]
<1>1. C = Client /\ q \in Q
  BY DEF Client
<1> HIDE DEF R, Q
<1>2. PICK y : y = Received(cl, h)
  OBVIOUS
<1>3. Took(y, cl, h) /\ y.replay = cl.replay /\ y.queue = cl.queue
  BY <1>2, TookFields
<1>4. y \in C
  BY <1>1, <1>3 DEF Took
<1>5. PICK x : x = FromQueue(cl, h, q)
  OBVIOUS
<1>6. /\ x \in C /\ x.queue = q /\ x.replay = y.replay /\ x.mode = y.mode /\ x.listed = y.listed
      /\ x.cut = y.cut /\ x.told = y.told /\ x.last = y.last /\ x.got = y.got
  <2>1. x = [y EXCEPT !.queue = q]
    BY <1>2, <1>5 DEF FromQueue
  <2> QED BY <1>1, <1>4, <2>1
<1>7. Took(x, cl, h)
  BY <1>1, <1>3, <1>6 DEF Took
<1> QED BY <1>3, <1>5, <1>6, <1>7

\* What a client that receives the first event of its replay has and holds.
LEMMA FromReplayOK ==
    ASSUME NEW cl, ClientOK(cl), cl.mode \in {"live", "reading"}, cl.replay # <<>>,
           NEW x, x = FromReplay(cl, Head(cl.replay), Tail(cl.replay))
    PROVE  ClientOK(x)
<1>1. cl \in Client /\ ClientShape(cl) /\ (Excused(cl) \/ Follows(cl)) /\ Len(cl.queue) <= QueueMax
  BY DEF ClientOK
<1>2. PICK r, h, t : r = cl.replay /\ h = Head(r) /\ t = Tail(r)
  OBVIOUS
<1>3. /\ Len(r) \in Nat \ {0} /\ DOMAIN r = 1 .. Len(r) /\ h \in 1 .. Marker /\ h = r[1]
      /\ t \in Seq(1 .. Marker) /\ DOMAIN t = 1 .. Len(r) - 1
      /\ \A i \in 1 .. Len(r) - 1 : t[i] = r[i + 1]
      /\ ToSet(r) = {h} \cup ToSet(t)
  <2> DEFINE R == 1 .. Marker
  <2>1. r \in Seq(R) /\ r # <<>>
    BY <1>1, <1>2, ClientFields
  <2> HIDE DEF R
  <2>2. /\ Len(r) \in Nat \ {0} /\ DOMAIN r = 1 .. Len(r) /\ h \in R /\ h = r[1]
        /\ t \in Seq(R) /\ DOMAIN t = 1 .. Len(r) - 1
        /\ \A i \in 1 .. Len(r) - 1 : t[i] = r[i + 1]
        /\ ToSet(r) = {h} \cup ToSet(t)
    BY <1>2, <2>1, TailFacts
  <2> QED BY <2>2 DEF R
<1>4. h = Marker \/ h \in 1 .. End
  BY <1>3, Sizes, BoundAssumption DEF Marker, End
<1>5. Took(x, cl, h) /\ x.replay = t /\ x.queue = cl.queue
  <2>1. x = FromReplay(cl, h, t)
    BY <1>2
  <2> QED BY <1>1, <1>3, <1>4, <2>1, ReplayFields
<1>6. /\ x \in Client /\ x.mode = cl.mode /\ x.listed = cl.listed /\ x.cut = cl.cut
      /\ h = Marker => x.told = TRUE /\ x.got = cl.got
      /\ h # Marker => x.told = cl.told /\ x.last = h /\ x.got = cl.got \cup {h}
  BY <1>5 DEF Took
<1>7. ClientShape(x)
  <2>1. \A e \in cl.got \cup ToSet(r) \cup ToSet(cl.queue) :
           \/ e \in 1 .. emitted \/ e \in {Sentinel, Marker}
           \/ e = End /\ phase \in PastEnd
    BY <1>1, <1>2 DEF ClientShape
  <2>2. x.got \cup ToSet(x.replay) \cup ToSet(x.queue) \subseteq cl.got \cup ToSet(r) \cup ToSet(cl.queue)
    BY <1>3, <1>5, <1>6
  <2>3. /\ x.listed => ~ closed /\ Sentinel \notin ToSet(x.queue)
        /\ x.mode # "live" => ~ x.listed /\ x.queue = <<>>
    BY <1>1, <1>5, <1>6 DEF ClientShape
  <2>4. x.mode \in {"live", "reading"}
    BY <1>6
  <2>5. \A e \in x.got \cup ToSet(x.replay) \cup ToSet(x.queue) :
           \/ e \in 1 .. emitted \/ e \in {Sentinel, Marker}
           \/ e = End /\ phase \in PastEnd
    BY <2>1, <2>2
  <2> QED BY <2>3, <2>4, <2>5 DEF ClientShape
<1>8. ASSUME ~ Excused(x) PROVE Follows(x)
  <2>1. Follows(cl) /\ h # Marker
    BY <1>1, <1>6, <1>8 DEF Excused
  <2>2. x.last = h /\ x.got = cl.got \cup {h}
    BY <1>6, <2>1
  <2>3. /\ \A e \in cl.got, d \in 1 .. emitted : d < e => d \in cl.got
        /\ \A i \in DOMAIN r, d \in 1 .. emitted :
              d < r[i] /\ r[i] # Marker => d \in cl.got \/ \E j \in 1 .. i - 1 : r[j] = d
        /\ \A i \in DOMAIN cl.queue, d \in 1 .. emitted :
              d < cl.queue[i] => d \in cl.got \cup ToSet(r) \/ \E j \in 1 .. i - 1 : cl.queue[j] = d
        /\ cl.listed => \A d \in 1 .. emitted : d \in cl.got \cup ToSet(r) \cup ToSet(cl.queue)
    BY <1>2, <2>1 DEF Follows
  <2>4. \A e \in x.got, d \in 1 .. emitted : d < e => d \in x.got
    <3>1. \A d \in 1 .. emitted : d < h => d \in cl.got
      BY <1>3, <2>1, <2>3
    <3> QED BY <2>2, <2>3, <3>1
  <2>5. ASSUME NEW i \in DOMAIN t, NEW d \in 1 .. emitted, d < t[i], t[i] # Marker
        PROVE  d \in x.got \/ \E j \in 1 .. i - 1 : t[j] = d
    <3>1. i + 1 \in DOMAIN r /\ r[i + 1] = t[i] /\ i \in Nat \ {0}
      BY <1>3
    <3>2. d \in cl.got \/ \E j \in 1 .. i + 1 - 1 : r[j] = d
      BY <2>3, <2>5, <3>1
    <3>3. ASSUME NEW j \in 1 .. i + 1 - 1, r[j] = d PROVE d = h \/ \E k \in 1 .. i - 1 : t[k] = d
      <4>1. CASE j = 1
        BY <1>3, <3>3, <4>1
      <4>2. CASE j # 1
        <5>1. j - 1 \in 1 .. i - 1 /\ j - 1 \in 1 .. Len(r) - 1 /\ (j - 1) + 1 = j
          BY <1>3, <3>1, <4>2
        <5> QED BY <1>3, <3>3, <5>1
      <4> QED BY <4>1, <4>2
    <3> QED BY <2>2, <3>2, <3>3
  <2>6. \A i \in DOMAIN x.queue, d \in 1 .. emitted :
            d < x.queue[i] => d \in x.got \cup ToSet(x.replay) \/ \E j \in 1 .. i - 1 : x.queue[j] = d
    <3>1. cl.got \cup ToSet(r) = x.got \cup ToSet(x.replay)
      BY <1>3, <1>5, <2>2
    <3>2. \A i \in DOMAIN cl.queue, d \in 1 .. emitted :
             d < cl.queue[i] =>
                 d \in x.got \cup ToSet(x.replay) \/ \E j \in 1 .. i - 1 : cl.queue[j] = d
      BY <2>3, <3>1
    <3>3. x.queue = cl.queue
      BY <1>5
    <3> QED BY <3>2, <3>3
  <2>7. x.listed => \A d \in 1 .. emitted : d \in x.got \cup ToSet(x.replay) \cup ToSet(x.queue)
    BY <1>3, <1>5, <1>6, <2>2, <2>3
  <2>8. x.last \in x.got \cup {0}
    BY <2>2
  <2> QED BY <1>5, <2>4, <2>5, <2>6, <2>7, <2>8 DEF Follows
<1> QED BY <1>1, <1>5, <1>6, <1>7, <1>8 DEF ClientOK

\* What a client that receives the first event of its queue has and holds.
LEMMA FromQueueOK ==
    ASSUME NEW cl, ClientOK(cl), cl.mode = "live", cl.replay = <<>>, cl.queue # <<>>,
           Head(cl.queue) # Sentinel,
           NEW x, x = FromQueue(cl, Head(cl.queue), Tail(cl.queue))
    PROVE  ClientOK(x)
<1>1. cl \in Client /\ ClientShape(cl) /\ (Excused(cl) \/ Follows(cl)) /\ Len(cl.queue) <= QueueMax
  BY DEF ClientOK
<1>2. PICK q, h, t : q = cl.queue /\ h = Head(q) /\ t = Tail(q)
  OBVIOUS
<1>3. /\ Len(q) \in Nat \ {0} /\ DOMAIN q = 1 .. Len(q) /\ h \in 0 .. End /\ h = q[1]
      /\ t \in Seq(0 .. End) /\ DOMAIN t = 1 .. Len(q) - 1 /\ Len(t) = Len(q) - 1
      /\ \A i \in 1 .. Len(q) - 1 : t[i] = q[i + 1]
      /\ ToSet(q) = {h} \cup ToSet(t)
  <2> DEFINE Q == 0 .. End
  <2>1. q \in Seq(Q) /\ q # <<>>
    BY <1>1, <1>2, ClientFields
  <2> HIDE DEF Q
  <2>2. /\ Len(q) \in Nat \ {0} /\ DOMAIN q = 1 .. Len(q) /\ h \in Q /\ h = q[1]
        /\ t \in Seq(Q) /\ DOMAIN t = 1 .. Len(q) - 1 /\ Len(t) = Len(q) - 1
        /\ \A i \in 1 .. Len(q) - 1 : t[i] = q[i + 1]
        /\ ToSet(q) = {h} \cup ToSet(t)
    BY <1>2, <2>1, TailFacts
  <2> QED BY <2>2 DEF Q
<1>4. h \in 1 .. End /\ h # Marker
  BY <1>2, <1>3, Sizes DEF Sentinel
<1>5. Took(x, cl, h) /\ x.queue = t /\ x.replay = cl.replay
  <2>1. x = FromQueue(cl, h, t)
    BY <1>2
  <2>2. h = Marker \/ h \in 1 .. End
    BY <1>4
  <2> QED BY <1>1, <1>3, <2>1, <2>2, QueueFields
<1>6. /\ x \in Client /\ x.mode = cl.mode /\ x.listed = cl.listed /\ x.cut = cl.cut
      /\ x.told = cl.told /\ x.last = h /\ x.got = cl.got \cup {h}
  BY <1>4, <1>5 DEF Took
<1>7. x.replay = <<>> /\ ToSet(x.replay) = {} /\ DOMAIN x.replay = {}
  BY <1>5, EmptyList
<1>8. ClientShape(x)
  <2>1. \A e \in cl.got \cup ToSet(q) :
           \/ e \in 1 .. emitted \/ e \in {Sentinel, Marker}
           \/ e = End /\ phase \in PastEnd
    BY <1>1, <1>2 DEF ClientShape
  <2>2. x.got \cup ToSet(x.replay) \cup ToSet(x.queue) \subseteq cl.got \cup ToSet(q)
    BY <1>3, <1>5, <1>6, <1>7
  <2>3. x.listed => ~ closed /\ Sentinel \notin ToSet(x.queue)
    BY <1>1, <1>2, <1>3, <1>5, <1>6 DEF ClientShape
  <2>4. x.mode = "live"
    BY <1>6
  <2>5. \A e \in x.got \cup ToSet(x.replay) \cup ToSet(x.queue) :
           \/ e \in 1 .. emitted \/ e \in {Sentinel, Marker}
           \/ e = End /\ phase \in PastEnd
    BY <2>1, <2>2
  <2> QED BY <2>3, <2>4, <2>5 DEF ClientShape
<1>9. ASSUME ~ Excused(x) PROVE Follows(x)
  <2>1. Follows(cl)
    BY <1>1, <1>6, <1>9 DEF Excused
  <2>2. ToSet(cl.replay) = {}
    BY EmptyList
  <2>3. /\ \A e \in cl.got, d \in 1 .. emitted : d < e => d \in cl.got
        /\ \A i \in DOMAIN q, d \in 1 .. emitted :
              d < q[i] => d \in cl.got \/ \E j \in 1 .. i - 1 : q[j] = d
        /\ cl.listed => \A d \in 1 .. emitted : d \in cl.got \cup ToSet(q)
    BY <1>2, <2>1, <2>2 DEF Follows
  <2>4. \A e \in x.got, d \in 1 .. emitted : d < e => d \in x.got
    <3>1. \A d \in 1 .. emitted : d < h => d \in cl.got
      BY <1>3, <2>3
    <3> QED BY <1>6, <2>3, <3>1
  <2>5. ASSUME NEW i \in DOMAIN t, NEW d \in 1 .. emitted, d < t[i]
        PROVE  d \in x.got \/ \E j \in 1 .. i - 1 : t[j] = d
    <3>1. i + 1 \in DOMAIN q /\ q[i + 1] = t[i] /\ i \in Nat \ {0}
      BY <1>3
    <3>2. d \in cl.got \/ \E j \in 1 .. i + 1 - 1 : q[j] = d
      BY <2>3, <2>5, <3>1
    <3>3. ASSUME NEW j \in 1 .. i + 1 - 1, q[j] = d PROVE d = h \/ \E k \in 1 .. i - 1 : t[k] = d
      <4>1. CASE j = 1
        BY <1>3, <3>3, <4>1
      <4>2. CASE j # 1
        <5>1. j - 1 \in 1 .. i - 1 /\ j - 1 \in 1 .. Len(q) - 1 /\ (j - 1) + 1 = j
          BY <1>3, <3>1, <4>2
        <5> QED BY <1>3, <3>3, <5>1
      <4> QED BY <4>1, <4>2
    <3> QED BY <1>6, <3>2, <3>3
  <2>6. x.listed => \A d \in 1 .. emitted : d \in x.got \cup ToSet(x.replay) \cup ToSet(x.queue)
    BY <1>3, <1>5, <1>6, <2>3
  <2>7. \A i \in DOMAIN x.queue, d \in 1 .. emitted :
            d < x.queue[i] => d \in x.got \cup ToSet(x.replay) \/ \E j \in 1 .. i - 1 : x.queue[j] = d
    BY <1>5, <2>5
  <2> QED BY <1>6, <1>7, <2>4, <2>6, <2>7 DEF Follows
<1>10. Len(x.queue) <= QueueMax
  <2>1. Len(q) <= QueueMax /\ Len(t) = Len(q) - 1 /\ Len(q) \in Nat /\ QueueMax \in Nat
    BY <1>1, <1>2, <1>3, BoundAssumption
  <2>2. Len(t) <= QueueMax
    BY <2>1
  <2> QED BY <1>5, <2>2
<1> QED BY <1>6, <1>8, <1>9, <1>10 DEF ClientOK

\* A client that has read its replay to the end, or finds the sentinel, holds nothing.
LEMMA EndedOK ==
    ASSUME NEW cl, ClientOK(cl), cl.replay = <<>>,
           \/ cl.mode = "reading"
           \/ cl.mode = "live" /\ cl.queue # <<>> /\ Head(cl.queue) = Sentinel,
           NEW x, x = Emptied(cl, IF cl.route = "thread" THEN "waiting" ELSE "away")
    PROVE  ClientOK(x)
<1>1. cl \in Client
  BY IdleFacts
<1>2. PICK mode \in {"away", "opening", "marked", "live", "reading", "waiting"} :
          mode = IF cl.route = "thread" THEN "waiting" ELSE "away"
  OBVIOUS
<1>3. x = Emptied(cl, mode)
  BY <1>2
<1>4. KeepsReceived(x, cl)
  BY <1>1, <1>3, ClientEmptied
<1>5. /\ x \in Client /\ x.listed = FALSE /\ x.replay = <<>> /\ x.queue = <<>>
      /\ x.got = cl.got /\ x.last = cl.last /\ (Excused(cl) => Excused(x))
  BY <1>4 DEF KeepsReceived, Excused
<1> QED BY <1>5, HoldsNothing

\* The client takes the next event, or the end of its attachment.
LEMMA ReceiveClients ==
    ASSUME ClientsOK, NEW c \in Clients, Receive(c)
    PROVE  ClientsOK'
<1>1. PICK cl : cl = client[c] /\ ClientOK(cl)
  BY DEF ClientsOK
<1>2. /\ cl \in Client /\ client \in [Clients -> Client] /\ cl.mode \in {"live", "reading"}
      /\ UNCHANGED <<emitted, closed, phase>>
  BY <1>1, IdleFacts DEF ClientsOK, Receive, UnchangedButClient
<1>3. CASE cl.replay # <<>>
  <2>1. PICK x : x = FromReplay(cl, Head(cl.replay), Tail(cl.replay))
    OBVIOUS
  <2>2. client' = [client EXCEPT ![c] = [Received(cl, Head(cl.replay)) EXCEPT !.replay = Tail(@)]]
    BY <1>1, <1>3 DEF Receive
  <2>3. Received(cl, Head(cl.replay)).replay = cl.replay
    BY <1>2 DEF Received, Client
  <2>4. client' = [client EXCEPT ![c] = x]
    BY <2>1, <2>2, <2>3 DEF FromReplay
  <2>5. ClientOK(x)
    BY <1>1, <1>2, <1>3, <2>1, FromReplayOK
  <2> QED BY <1>2, <2>4, <2>5, OneClient
<1>4. CASE cl.replay = <<>> /\ cl.mode = "live" /\ cl.queue # <<>> /\ Head(cl.queue) # Sentinel
  <2>1. PICK x : x = FromQueue(cl, Head(cl.queue), Tail(cl.queue))
    OBVIOUS
  <2>2. client' = [client EXCEPT ![c] = [Received(cl, Head(cl.queue)) EXCEPT !.queue = Tail(@)]]
    BY <1>1, <1>4 DEF Receive
  <2>3. Received(cl, Head(cl.queue)).queue = cl.queue
    BY <1>2 DEF Received, Client
  <2>4. client' = [client EXCEPT ![c] = x]
    BY <2>1, <2>2, <2>3 DEF FromQueue
  <2>5. ClientOK(x)
    BY <1>1, <1>4, <2>1, FromQueueOK
  <2> QED BY <1>2, <2>4, <2>5, OneClient
<1>5. CASE /\ cl.replay = <<>>
           /\ \/ cl.mode = "reading"
              \/ cl.mode = "live" /\ cl.queue # <<>> /\ Head(cl.queue) = Sentinel
  <2>1. PICK x : x = Emptied(cl, IF cl.route = "thread" THEN "waiting" ELSE "away")
    OBVIOUS
  <2>2. /\ cl.mode = "reading" => cl.queue = <<>>
        /\ cl.listed = FALSE
    <3>1. ClientShape(cl) /\ cl.listed \in BOOLEAN
      BY <1>1, <1>2, ClientFields DEF ClientOK
    <3>2. CASE cl.mode = "reading"
      BY <3>1, <3>2 DEF ClientShape
    <3>3. CASE cl.mode = "live" /\ cl.queue # <<>> /\ Head(cl.queue) = Sentinel
      <4>1. Sentinel \in ToSet(cl.queue)
        <5> DEFINE Q == 0 .. End
        <5>1. cl.queue \in Seq(Q)
          BY <1>2, ClientFields
        <5> HIDE DEF Q
        <5> QED BY <3>3, <5>1, TailFacts
      <4> QED BY <3>1, <3>3, <4>1 DEF ClientShape
    <3> QED BY <1>5, <3>2, <3>3
  <2>3. CASE cl.mode = "reading"
    <3>1. client' = [client EXCEPT ![c] = Ended(cl)]
      BY <1>1, <1>5, <2>3 DEF Receive
    <3>2. Ended(cl) = x
      BY <1>2, <1>5, <2>1, <2>2, <2>3 DEF Ended, Emptied, Client
    <3>3. ClientOK(x)
      BY <1>1, <1>5, <2>1, EndedOK
    <3> QED BY <1>2, <3>1, <3>2, <3>3, OneClient
  <2>4. CASE cl.mode = "live" /\ cl.queue # <<>> /\ Head(cl.queue) = Sentinel
    <3>1. client' = [client EXCEPT ![c] = [Ended(cl) EXCEPT !.queue = <<>>]]
      BY <1>1, <1>5, <2>4 DEF Receive
    <3>2. [Ended(cl) EXCEPT !.queue = <<>>] = x
      BY <1>2, <1>5, <2>1, <2>2, <2>4 DEF Ended, Emptied, Client
    <3>3. ClientOK(x)
      BY <1>1, <1>5, <2>1, EndedOK
    <3> QED BY <1>2, <3>1, <3>2, <3>3, OneClient
  <2> QED BY <1>5, <2>3, <2>4
<1> QED BY <1>1, <1>2, <1>3, <1>4, <1>5 DEF Receive

-----------------------------------------------------------------------------
(* The stream *)

\* No client has attached yet.
LEMMA InitClients == Init => ClientsOK
<1> SUFFICES ASSUME Init PROVE ClientsOK
  OBVIOUS
<1>1. PICK R, Q : R = Seq(1 .. Marker) /\ Q = Seq(0 .. End)
  OBVIOUS
<1>a. <<>> \in Seq(1 .. Marker) /\ <<>> \in Seq(0 .. End)
  OBVIOUS
<1>2. PICK nil : nil = <<>> /\ nil \in R /\ nil \in Q
  BY <1>1, <1>a
<1>3. PICK cl : cl = [mode |-> "away", route |-> "runs", listed |-> FALSE, replay |-> nil,
                      queue |-> nil, last |-> 0, got |-> {}, told |-> FALSE, cut |-> {},
                      attaches |-> 0]
  OBVIOUS
<1>4. client = [c \in Clients |-> cl]
  BY <1>2, <1>3 DEF Init
<1>5. cl \in Client
  <2>1. 0 \in 0 .. End
    BY Sizes
  <2>2. cl \in [mode : {"away", "opening", "marked", "live", "reading", "waiting"},
                route : {"runs", "resume", "thread"}, listed : BOOLEAN,
                replay : R, queue : Q, last : 0 .. End, got : SUBSET (1 .. End),
                told : BOOLEAN, cut : SUBSET {"slow", "evicted", "torn"}, attaches : Nat]
    BY <1>2, <1>3, <2>1
  <2> QED BY <1>1, <2>2 DEF Client
<1>6. Len(nil) = 0 /\ ToSet(nil) = {} /\ DOMAIN nil = {}
  BY <1>2, EmptyList
<1>7. /\ cl.mode = "away" /\ cl.listed = FALSE /\ cl.replay = nil /\ cl.queue = nil
      /\ cl.last = 0 /\ cl.got = {}
  BY <1>3
<1>8. ClientShape(cl)
  BY <1>2, <1>6, <1>7 DEF ClientShape
<1>9. Follows(cl)
  BY <1>6, <1>7 DEF Follows
<1>10. ClientOK(cl)
  BY <1>5, <1>6, <1>7, <1>8, <1>9, BoundAssumption DEF ClientOK
<1> QED BY <1>4, <1>5, <1>10 DEF ClientsOK

\* Every step of the run and of its clients.
LEMMA StepClients ==
    StoreTypes /\ StoreInv /\ RingInv /\ ClientsOK /\ [Next]_vars => ClientsOK'
<1> SUFFICES ASSUME StoreTypes, StoreInv, RingInv, ClientsOK, [Next]_vars PROVE ClientsOK'
  OBVIOUS
<1>1. CASE Emit
  BY <1>1, EmitClients
<1>2. CASE Announce
  BY <1>2, AnnounceClients
<1>3. CASE Finish \/ ForceClose
  <2>1. CloseBroker /\ emitted' = emitted
    BY <1>3 DEF Finish, ForceClose
  <2>2. phase \in PastEnd => phase' \in PastEnd
    BY <1>3 DEF Finish, ForceClose, PastEnd
  <2> QED BY <2>1, <2>2, CloseClients
<1>4. CASE Crash
  BY <1>4, CrashClients
<1>5. CASE EndStream \/ FinalFlush \/ FinalizeTrace \/ CommitStatus
  <2>1. UNCHANGED <<emitted, closed, client>>
    BY <1>5 DEF EndStream, FinalFlush, FinalizeTrace, CommitStatus, brokerVars
  <2>2. phase \in PastEnd => phase' \in PastEnd
    BY <1>5 DEF EndStream, FinalFlush, FinalizeTrace, CommitStatus, PastEnd
  <2> QED BY <2>1, <2>2, ClientsKept
<1>6. ASSUME NEW f \in Slots, FlightStep(f) \/ Fail(f) \/ CommitUnanswered(f)
      PROVE  ClientsOK'
  <2>1. UNCHANGED <<emitted, closed, client>> /\ phase' = phase
    BY <1>6 DEF FlightStep, Begin, Loaded, Write, AppendEvents, Commit, Fail, CommitUnanswered,
                Raised, brokerVars
  <2>2. phase \in PastEnd => phase' \in PastEnd
    BY <2>1 DEF PastEnd
  <2> QED BY <2>1, <2>2, ClientsKept
<1>7. ASSUME NEW c \in Clients, ClientSteps(c) PROVE ClientsOK'
  <2>1. CASE \/ \E route \in {"runs", "resume"} : AttachLive(c, route)
             \/ AttachStale(c) \/ MarkGap(c) \/ Disconnect(c)
    BY <2>1, AttachClients
  <2>2. CASE AttachReplay(c) \/ AttachResume(c) \/ AttachThread(c) \/ Poll(c)
    BY <2>2, ReplayClients DEF StoreInv
  <2>3. CASE Subscribe(c)
    BY <2>3, SubscribeClients
  <2>4. CASE Receive(c)
    BY <2>4, ReceiveClients
  <2> QED BY <1>7, <2>1, <2>2, <2>3, <2>4 DEF ClientSteps, ClientStep
<1>8. CASE UNCHANGED vars
  <2>1. UNCHANGED <<emitted, closed, client>> /\ phase' = phase
    BY <1>8 DEF vars, brokerVars
  <2>2. phase \in PastEnd => phase' \in PastEnd
    BY <2>1 DEF PastEnd
  <2> QED BY <2>1, <2>2, ClientsKept
<1> QED BY <1>1, <1>2, <1>3, <1>4, <1>5, <1>6, <1>7, <1>8 DEF Next, OwnerStep, ClientSteps

\* The tables, the ring and what every client has and holds fit each other.
THEOREM StreamIsKept == Spec => [](StoreTypes /\ StoreInv /\ RingInv /\ ClientsOK)
<1>1. Init => StoreTypes /\ StoreInv /\ RingInv /\ ClientsOK
  BY InitTypes, InitStore, InitRing, InitClients
<1>2. StoreTypes /\ StoreInv /\ RingInv /\ ClientsOK /\ [Next]_vars
          => (StoreTypes /\ StoreInv /\ RingInv /\ ClientsOK)'
  BY StepTypes, StepStore, StepRing, StepClients
<1> QED BY <1>1, <1>2, PTL DEF Spec

\* Every buffer, queue and row has the type its code gives it, and none is over its limit:
\* listener queues (listener_queue_maxsize), the ring and the retry buffer.
THEOREM TypesHold == Spec => []TypeOK
<1>1. StoreTypes /\ ClientsOK => TypeOK
  <2>1. ClientsOK => ClientTypes
    BY DEF ClientsOK, ClientOK, ClientTypes
  <2> QED BY <2>1, TwoTypes
<1> QED BY <1>1, StreamIsKept, PTL

\* A client that has an event has every earlier one, was told of a gap, or the history notes
\* the overflow, the eviction or the torn tables that took one from it (EventBroker.subscribe
\* and the routes that attach).
THEOREM GapsAreTold == Spec => []EveryGapIsTold
<1>1. ClientsOK => EveryGapIsTold
  <2> SUFFICES ASSUME ClientsOK, NEW c \in Clients
               PROVE  Complete(c) \/ client[c].told \/ client[c].cut # {}
    BY DEF EveryGapIsTold
  <2>1. Excused(client[c]) \/ Follows(client[c])
    BY DEF ClientsOK, ClientOK
  <2> QED BY <2>1 DEF Excused, Follows, Complete
<1> QED BY <1>1, StreamIsKept, PTL
=============================================================================
