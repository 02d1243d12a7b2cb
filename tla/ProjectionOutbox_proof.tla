----------------------- MODULE ProjectionOutbox_proof -----------------------
(***************************************************************************)
(* Theorems about ProjectionOutbox, for any number of keys, changes,       *)
(* workers and cut off transactions, and any limit of a batch.             *)
(***************************************************************************)
EXTENDS ProjectionOutbox, TLAPS

-----------------------------------------------------------------------------
(* The inductive invariant *)

RowsSoFar == 1 .. Len(rows)
\* The rows of committed changes.
Written == {n \in RowNumbers : rowState[n] \in {"pending", "processed"}}
\* The rows that are not settled.
Unsettled == {n \in RowNumbers : rowState[n] \in {"open", "pending"}}

\* Only rows that were inserted have a state; only they name grants; a share makes the
\* grant of its own row, and every other change is of an earlier grant of the same key.
RowInv ==
    /\ \A n \in RowNumbers : rowState[n] # "none" <=> n \in RowsSoFar
    /\ \A g \in RowNumbers : grantState[g] # "none" => g \in RowsSoFar
    /\ \A n \in RowsSoFar :
        /\ rows[n].grant \in RowsSoFar
        /\ rows[rows[n].grant].key = rows[n].key
        /\ rows[n].kind = "share" => rows[n].grant = n
        /\ rows[n].kind = "revoke" <=> rows[n].value = Absent
    /\ \A n \in Written : grantState[rows[n].grant] # "none"

\* An open change is the last of its key; a share has found no active grant, any
\* other change has found its own and keeps it.
OpenInv ==
    \A m \in RowsIn("open") :
        /\ \A n \in RowsSoFar : rows[n].key = rows[m].key => n <= m
        /\ rows[m].kind = "share" => /\ ActiveOf(rows[m].key) = {}
                                     /\ grantState[m] = "none"
        /\ rows[m].kind # "share" => grantState[rows[m].grant] = "active"

\* What the committed rows of a key say of its grants and of its projected value.
HistoryInv ==
    /\ \A p \in Written :
        /\ \/ ActiveOf(rows[p].key) # {}
           \/ \E r \in Written : rows[r].key = rows[p].key /\ rows[r].kind = "revoke" /\ p <= r
        /\ \/ rows[p].kind = "revoke"
           \/ rows[p].value = desired[rows[p].key]
           \/ \E q \in Written : rows[q].key = rows[p].key /\ rows[q].kind # "share" /\ p < q
    /\ \A p, n \in Written :
        p < n /\ rows[p].key = rows[n].key /\ rows[n].kind = "share" =>
            \E r \in Written : rows[r].key = rows[p].key /\ rows[r].kind = "revoke" /\ p <= r /\ r < n
    /\ \A r \in Written : rows[r].kind = "revoke" =>
        /\ grantState[rows[r].grant] \in {"revoking", "revoked"}
        /\ \A n \in Written : rows[n].grant = rows[r].grant => n <= r
    /\ \A g \in RowNumbers : grantState[g] = "revoking" =>
        \E r \in Written : rows[r].kind = "revoke" /\ rows[r].grant = g

\* The batch of a worker, and what it has applied and what has failed of it.
Batched(w) ==
    /\ batch[w] \subseteq Pending
    /\ done[w] \subseteq batch[w] /\ failed[w] \subseteq batch[w]
    /\ done[w] \cap failed[w] = {}
    /\ older[w] \subseteq Written
    /\ phase[w] \in {"idle", "taken"} => done[w] = {} /\ failed[w] = {}
    /\ phase[w] = "idle" => batch[w] = {}
    /\ \A g \in held[w] : grantState[g] = "revoking"

\* An older row of the key of an applied row was applied before it.
AppliedInOrder(w) ==
    \A n \in done[w], m \in Unsettled : m < n /\ rows[m].key = rows[n].key => m \in done[w]

\* While a worker sends, it knows the older unsettled rows of the keys of its batch.
KnowsOlder(w) ==
    phase[w] = "sending" =>
        \A n \in batch[w], m \in Unsettled :
            m < n /\ rows[m].key = rows[n].key => m \in batch[w] \cup older[w]

\* Workers own the rows they have taken and the grants they have locked.
Apart(w, v) == batch[w] \cap batch[v] = {} /\ held[w] \cap held[v] = {}

BatchInv ==
    /\ \A w \in Workers : Batched(w) /\ AppliedInOrder(w) /\ KnowsOlder(w)
    /\ \A w, v \in Workers : w # v => Apart(w, v)

\* The rows that were confirmed, or applied by a worker that goes on.
Applied == RowsIn("processed") \cup UNION {done[w] : w \in Workers}

\* The store shows nothing older than what was applied: a stored tuple is that of a
\* committed row that no applied row of its key follows.
Shown(k) ==
    store[k] # Absent =>
        \E p \in Written : /\ rows[p].key = k /\ rows[p].value = store[k]
                           /\ \A q \in Applied : rows[q].key = k => q <= p

\* Between the two calls of a replacement the tuple is gone.
Replacing(w) ==
    half[w] => \E n \in RowNumbers :
                  Sending(w, n) /\ rows[n].kind = "change" /\ store[rows[n].key] = Absent

StoreInv == (\A k \in Keys : Shown(k)) /\ (\A w \in Workers : Replacing(w))

\* RowsSettleInOrder over the sets used here.
SettleOrder ==
    \A m \in Unsettled, n \in RowsIn("processed") : m < n => rows[m].key # rows[n].key

OrderInv == RowInv /\ OpenInv /\ HistoryInv /\ BatchInv /\ StoreInv /\ SettleOrder

\* A grant is taken for landed, and held for the end of its revocation, when what is left
\* of it was applied by the same worker; a marker stays until its row is processed.
CoverInv ==
    /\ \A w \in Workers, n \in Pending :
        /\ rows[n].grant \in landed[w] /\ rows[n].kind # "change" => n \in done[w]
        /\ rows[n].grant \in held[w] => n \in done[w]
        /\ n \in closing[w] => n \in done[w]
    /\ \A n \in Pending : grantState[rows[n].grant] # "revoked"
    /\ \A w \in Workers : /\ \A g \in landed[w] : grantState[g] # "none"
                          /\ closing[w] \subseteq Written
    /\ markers \subseteq Written
    /\ \A n \in Pending : rows[n].kind # "share" => n \in markers

-----------------------------------------------------------------------------
(* Types *)

\* A row that was inserted has the columns of a row.
LEMMA RowTyped ==
    ASSUME TypeOK, NEW n \in RowsSoFar
    PROVE  /\ n \in RowNumbers
           /\ rows[n].key \in Keys /\ rows[n].kind \in Kinds
           /\ rows[n].value \in Values \cup {Absent} /\ rows[n].grant \in RowNumbers
<1>1. n \in Nat /\ 1 <= n /\ n <= Len(rows) /\ Len(rows) <= MaxRows
  BY DEF TypeOK, RowsSoFar
<1>2. rows[n] \in Row
  BY <1>1 DEF TypeOK
<1> QED BY <1>1, <1>2, BoundAssumption DEF TypeOK, RowNumbers, Row

\* The row a change inserts.
NewRow(k, kind, v, g) == [key |-> k, kind |-> kind, value |-> v, grant |-> g]

\* The new row is the next one; its grant is its own or the active one of the key.
LEMMA EnqueueShape ==
    ASSUME TypeOK, NEW k \in Keys, NEW kind \in Kinds, NEW v \in Values \cup {Absent},
           Enqueue(k, kind, v)
    PROVE  \E g \in RowNumbers :
              /\ Len(rows) + 1 \in RowNumbers
              /\ rows' = Append(rows, NewRow(k, kind, v, g))
              /\ kind = "share" => g = Len(rows) + 1 /\ ActiveOf(k) = {}
              /\ kind # "share" => g \in ActiveOf(k)
<1> DEFINE g == IF kind = "share" THEN Len(rows) + 1 ELSE CHOOSE x \in ActiveOf(k) : TRUE
<1>1. Len(rows) + 1 \in RowNumbers
  BY BoundAssumption DEF Enqueue, TypeOK, RowNumbers
<1>2. rows' = Append(rows, NewRow(k, kind, v, g))
  BY DEF Enqueue, NewRow
<1>3. kind = "share" <=> ActiveOf(k) = {}
  BY DEF Enqueue
<1>4. kind # "share" => g \in ActiveOf(k)
  BY <1>3
<1>5. g \in RowNumbers
  BY <1>1, <1>4 DEF ActiveOf
<1> QED BY <1>1, <1>2, <1>3, <1>4, <1>5

\* The initial grants, rows and markers have their types.
LEMMA TypeInit == Init => TypeOK
<1> SUFFICES ASSUME Init PROVE TypeOK
  OBVIOUS
<1>1. rows \in Seq(Row) /\ Len(rows) = NumKeys
  <2>1. \A n \in Keys : rows[n] \in Row
    BY BoundAssumption, ValuesAssumption DEF Init, Row, Keys, Kinds, RowNumbers
  <2>2. rows \in [1 .. NumKeys -> Row]
    BY <2>1 DEF Init, Keys
  <2> QED BY <2>2, BoundAssumption
<1>2. PICK granted \in Starts :
        /\ rowState = [n \in RowNumbers |->
              IF n \in granted THEN "processed" ELSE IF n \in Keys THEN "void" ELSE "none"]
        /\ desired = [k \in Keys |-> IF k \in granted THEN "wide" ELSE Absent]
  BY DEF Init
<1>3. desired \in [Keys -> Values \cup {Absent}]
  BY <1>2, ValuesAssumption
<1>4. rowState \in [RowNumbers -> {"none", "open", "pending", "processed", "void"}]
  BY <1>2
<1> QED BY <1>1, <1>3, <1>4, BoundAssumption DEF Init, TypeOK, Phases

\* Every step keeps the types; a worker sends only rows that exist.
LEMMA TypeStep == TypeOK /\ RowInv /\ BatchInv /\ [Next]_vars => TypeOK'
<1> SUFFICES ASSUME TypeOK, RowInv, BatchInv, [Next]_vars PROVE TypeOK'
  OBVIOUS
<1>1. ASSUME NEW k \in Keys, NEW kind \in Kinds, NEW v \in Values \cup {Absent},
             Enqueue(k, kind, v)
      PROVE TypeOK'
  <2>1. PICK g \in RowNumbers : rows' = Append(rows, NewRow(k, kind, v, g)) /\ Len(rows) + 1 \in RowNumbers
    BY <1>1, EnqueueShape
  <2>2. rows' \in Seq(Row) /\ Len(rows') <= MaxRows
    <3>1. NewRow(k, kind, v, g) \in Row
      BY DEF NewRow, Row
    <3> QED BY <2>1, <3>1, BoundAssumption DEF RowNumbers, TypeOK
  <2>3. Live \subseteq RowNumbers
    BY DEF Live
  <2> QED BY <1>1, <2>1, <2>2, <2>3 DEF Enqueue, recordVars, workerVars, TypeOK
<1>2. ASSUME NEW n \in RowNumbers, CommitChange(n) PROVE TypeOK'
  <2>1. rows[n].value \in Values \cup {Absent} /\ rows[n].grant \in RowNumbers
    BY <1>2, RowTyped DEF CommitChange, RowInv
  <2>2. GrantAfter(n) \in {"active", "revoking"} /\ MarkersOf(n) \subseteq RowNumbers
    BY DEF GrantAfter, MarkersOf
  <2> QED BY <1>2, <2>1, <2>2 DEF CommitChange, TypeOK, workerVars
<1>3. ASSUME NEW n \in RowNumbers, RollbackChange(n) \/ BackedOff(n) PROVE TypeOK'
  <2>1. CASE RollbackChange(n)
    BY <2>1 DEF RollbackChange, TypeOK, recordVars, workerVars
  <2>2. CASE BackedOff(n)
    BY <2>2 DEF BackedOff, TypeOK, recordVars, workerVars
  <2> QED BY <1>3, <2>1, <2>2
<1>4. ASSUME NEW w \in Workers, NEW chosen \in SUBSET RowNumbers, Take(w, chosen), requests' \subseteq requests
      PROVE TypeOK'
  BY <1>4 DEF Take, TypeOK, Phases, recordVars
<1>5. Takeable \subseteq RowNumbers
  BY DEF Takeable, Pending, RowsIn
<1>6. ASSUME NEW w \in Workers, ReadOlder(w) PROVE TypeOK'
  <2>1. OlderPending(w) \subseteq RowNumbers
    BY DEF OlderPending, Pending, RowsIn
  <2> QED BY <1>6, <2>1 DEF ReadOlder, TypeOK, Phases, rowVars, recordVars
<1>7. ASSUME NEW w \in Workers, NEW n \in RowNumbers, CallOk(w, n) \/ CallFails(w, n) PROVE TypeOK'
  <2>1. n \in batch[w]
    BY <1>7 DEF CallOk, CallFails, Sending, ToSend
  <2>2. n \in RowsSoFar
    BY <2>1 DEF BatchInv, Batched, RowInv, Pending, RowsIn
  <2>3. Called(w, n) \in [Keys -> Values \cup {Absent}]
    BY <2>2, RowTyped DEF Called, TypeOK
  <2>4. CASE CallOk(w, n)
    <3>1. half' \in [Workers -> BOOLEAN] /\ done' \in [Workers -> SUBSET RowNumbers]
      <4>1. \/ half' = [half EXCEPT ![w] = TRUE] /\ done' = done
            \/ half' = [half EXCEPT ![w] = FALSE] /\ done' = [done EXCEPT ![w] = @ \cup {n}]
        BY <2>4 DEF CallOk
      <4>2. half \in [Workers -> BOOLEAN] /\ done \in [Workers -> SUBSET RowNumbers]
        BY DEF TypeOK
      <4>3. half' \in [Workers -> BOOLEAN]
        BY <4>1, <4>2
      <4>4. done' \in [Workers -> SUBSET RowNumbers]
        BY <4>1, <4>2
      <4> QED BY <4>3, <4>4
    <3>2. store' \in [Keys -> Values \cup {Absent}]
      BY <2>3, <2>4 DEF CallOk
    <3>3. UNCHANGED <<rows, rowState, due, requests, grantState, desired, markers, locks, phase,
                      batch, older, failed, landed, held, closing, aborts>>
      BY <2>4 DEF CallOk, rowVars, recordVars
    <3> QED BY <3>1, <3>2, <3>3 DEF TypeOK
  <2>5. CASE CallFails(w, n)
    BY <2>3, <2>5 DEF CallFails, TypeOK, rowVars, recordVars
  <2> QED BY <1>7, <2>4, <2>5
<1>8. ASSUME NEW w \in Workers, ReadLanded(w) PROVE TypeOK'
  <2>1. done[w] \subseteq RowsSoFar
    BY DEF BatchInv, Batched, RowInv, Pending, RowsIn
  <2>2. Landed(w) \subseteq RowNumbers
    BY <2>1, RowTyped DEF Landed, Sources
  <2> QED BY <1>8, <2>2 DEF ReadLanded, TypeOK, Phases, rowVars, recordVars
<1>9. ASSUME NEW w \in Workers, LockFinished(w) \/ ChooseMarkers(w) PROVE TypeOK'
  <2>1. CASE LockFinished(w)
    BY <2>1 DEF LockFinished, TypeOK, Phases, rowVars, recordVars
  <2>2. CASE ChooseMarkers(w)
    <3>1. PairMarkers(w) \cup NarrowingMarkers(w) \subseteq RowNumbers
      BY DEF PairMarkers, NarrowingMarkers, TypeOK
    <3> QED BY <2>2, <3>1 DEF ChooseMarkers, TypeOK, Phases, rowVars, recordVars
  <2> QED BY <1>9, <2>1, <2>2
<1>10. ASSUME NEW w \in Workers, CommitBatch(w) \/ Abort(w) PROVE TypeOK'
  <2>1. CASE CommitBatch(w)
    BY <2>1 DEF CommitBatch, Idle, TypeOK, Phases, rowVars, recordVars
  <2>2. CASE Abort(w)
    BY <2>2, BoundAssumption DEF Abort, Idle, TypeOK, Phases, rowVars, recordVars
  <2> QED BY <1>10, <2>1, <2>2
<1>11. ASSUME NEW w \in Workers, Drain(w) PROVE TypeOK'
  <2>1. {n \in Takeable : Cardinality({m \in Takeable : m < n}) < BatchLimit} \in SUBSET RowNumbers
    BY <1>5
  <2> QED BY <1>4, <1>11, <2>1 DEF Drain
<1>12. ASSUME NEW w \in Workers, NEW n \in RowNumbers, ApplyNow(w, n) PROVE TypeOK'
  <2>1. CASE n \in Takeable
    BY <1>4, <1>12, <2>1 DEF ApplyNow
  <2>2. CASE n \notin Takeable
    BY <1>12, <2>2 DEF ApplyNow, TypeOK, recordVars, workerVars
  <2> QED BY <2>1, <2>2
<1>13. CASE UNCHANGED vars
  BY <1>13 DEF vars, rowVars, recordVars, workerVars, TypeOK
<1>14. ASSUME NEW w \in Workers, Step(w) \/ Abort(w) PROVE TypeOK'
  BY <1>6, <1>7, <1>8, <1>9, <1>10, <1>11, <1>14 DEF Step
<1> QED BY <1>1, <1>2, <1>3, <1>12, <1>13, <1>14 DEF Next

-----------------------------------------------------------------------------
(* A change is inserted *)

\* The rows that have a state are the ones inserted so far.
LEMMA WrittenRows ==
    ASSUME RowInv
    PROVE  Written \subseteq RowsSoFar /\ Unsettled \subseteq RowsSoFar
           /\ RowsIn("open") \subseteq RowsSoFar /\ Pending \subseteq RowsSoFar
BY DEF RowInv, Written, Unsettled, RowsIn, Pending

\* What Enqueue changes, and what its locks have made sure of.
LEMMA EnqueueEffect ==
    ASSUME TypeOK, RowInv, OpenInv,
           NEW k \in Keys, NEW kind \in Kinds, NEW v \in Values \cup {Absent},
           Enqueue(k, kind, v), NEW N, N = Len(rows) + 1
    PROVE  \E g \in RowNumbers :
              /\ N \in RowNumbers /\ N \notin RowsSoFar /\ RowsSoFar' = RowsSoFar \cup {N}
              /\ \A n \in RowsSoFar : rows'[n] = rows[n] /\ n < N
              /\ rows'[N] = NewRow(k, kind, v, g)
              /\ rowState[N] = "none" /\ rowState' = [rowState EXCEPT ![N] = "open"]
              /\ kind = "share" => g = N /\ ActiveOf(k) = {} /\ grantState[N] = "none"
              /\ kind # "share" => g \in RowsSoFar /\ grantState[g] = "active" /\ rows[g].key = k
              /\ kind = "revoke" <=> v = Absent
              /\ \A m \in RowsIn("open") : rows[m].key # k
<1>1. PICK g \in RowNumbers :
        /\ N \in RowNumbers
        /\ rows' = Append(rows, NewRow(k, kind, v, g))
        /\ kind = "share" => g = N /\ ActiveOf(k) = {}
        /\ kind # "share" => g \in ActiveOf(k)
  BY EnqueueShape
<1>2. rows \in Seq(Row) /\ Len(rows) \in Nat
  BY DEF TypeOK
<1>3. /\ N \notin RowsSoFar
      /\ RowsSoFar' = RowsSoFar \cup {N}
      /\ \A n \in RowsSoFar : rows'[n] = rows[n] /\ n < N
      /\ rows'[N] = NewRow(k, kind, v, g)
  <2>1. Len(rows') = N /\ rows'[N] = NewRow(k, kind, v, g)
    BY <1>1, <1>2
  <2>2. \A n \in RowsSoFar : rows'[n] = rows[n] /\ n < N
    BY <1>1, <1>2 DEF RowsSoFar
  <2> QED BY <1>2, <2>1, <2>2 DEF RowsSoFar
<1>4. rowState[N] = "none" /\ rowState' = [rowState EXCEPT ![N] = "open"]
  BY <1>1, <1>3 DEF Enqueue, RowInv
<1>5. grantState[N] = "none"
  BY <1>1, <1>3 DEF RowInv
<1>6. kind # "share" => g \in RowsSoFar /\ grantState[g] = "active" /\ rows[g].key = k
  BY <1>1 DEF ActiveOf, RowInv
<1>7. kind = "revoke" <=> v = Absent
  BY DEF Enqueue
<1>8. ASSUME NEW m \in RowsIn("open"), rows[m].key = k PROVE FALSE
  <2>1. CASE rows[m].kind = "share"
    <3>1. ActiveOf(k) = {}
      BY <1>8, <2>1 DEF OpenInv
    <3>2. kind = "share"
      BY <1>1, <3>1
    <3> QED BY <1>8, <2>1, <3>2 DEF Enqueue, MayEnqueue
  <2>2. CASE rows[m].kind # "share"
    <3>1. m \in RowsSoFar
      BY WrittenRows
    <3>2. rows[m].grant \in ActiveOf(k)
      BY <1>8, <2>2, <3>1, RowTyped DEF OpenInv, RowInv, ActiveOf
    <3>3. kind # "share"
      BY <1>1, <3>2
    <3> QED BY <1>8, <2>2, <3>3 DEF Enqueue, MayEnqueue
  <2> QED BY <2>1, <2>2
<1> QED BY <1>1, <1>3, <1>4, <1>5, <1>6, <1>7, <1>8

\* What a worker sends next depends on its own locals only.
LEMMA SendingSame ==
    ASSUME NEW w \in Workers, Batched(w), \A n \in Written : rows'[n] = rows[n],
           phase'[w] = phase[w], batch'[w] = batch[w], done'[w] = done[w],
           failed'[w] = failed[w], older'[w] = older[w]
    PROVE  /\ ToSend(w)' = ToSend(w)
           /\ \A n : Sending(w, n)' = Sending(w, n) /\ (Sending(w, n) => n \in Written)
<1>1. batch[w] \subseteq Written /\ failed[w] \subseteq Written /\ older[w] \subseteq Written
  BY DEF Batched, Pending, RowsIn, Written
<1>2. \A n \in batch[w] : Deferred(w, n)' = Deferred(w, n)
  BY <1>1 DEF Deferred
<1>3. ToSend(w)' = ToSend(w)
  BY <1>2 DEF ToSend
<1> QED BY <1>1, <1>3 DEF Sending, ToSend

\* An insertion keeps the invariant.
LEMMA EnqueueKeeps ==
    ASSUME TypeOK, OrderInv,
           NEW k \in Keys, NEW kind \in Kinds, NEW v \in Values \cup {Absent},
           Enqueue(k, kind, v)
    PROVE  OrderInv' /\ (CoverInv => CoverInv')
<1> DEFINE N == Len(rows) + 1
<1>1. PICK g \in RowNumbers :
        /\ N \in RowNumbers /\ N \notin RowsSoFar /\ RowsSoFar' = RowsSoFar \cup {N}
        /\ \A n \in RowsSoFar : rows'[n] = rows[n] /\ n < N
        /\ rows'[N] = NewRow(k, kind, v, g)
        /\ rowState[N] = "none" /\ rowState' = [rowState EXCEPT ![N] = "open"]
        /\ kind = "share" => g = N /\ ActiveOf(k) = {} /\ grantState[N] = "none"
        /\ kind # "share" => g \in RowsSoFar /\ grantState[g] = "active" /\ rows[g].key = k
        /\ kind = "revoke" <=> v = Absent
        /\ \A m \in RowsIn("open") : rows[m].key # k
  BY EnqueueEffect DEF OrderInv
<1>2. UNCHANGED <<grantState, desired, markers, store, workerVars>>
  BY DEF Enqueue, recordVars
<1> HIDE DEF N
<1>3. /\ Written \subseteq RowsSoFar /\ Unsettled \subseteq RowsSoFar
      /\ RowsIn("open") \subseteq RowsSoFar /\ Pending \subseteq RowsSoFar
  BY WrittenRows DEF OrderInv
<1>4. /\ Written' = Written /\ Pending' = Pending /\ RowsIn("processed")' = RowsIn("processed")
      /\ Unsettled' = Unsettled \cup {N} /\ RowsIn("open")' = RowsIn("open") \cup {N}
  BY <1>1 DEF Written, Pending, RowsIn, Unsettled, TypeOK
<1>5. rows'[N].key = k /\ rows'[N].kind = kind /\ rows'[N].value = v /\ rows'[N].grant = g
  BY <1>1 DEF NewRow
<1>6. \A j \in Keys : ActiveOf(j)' = ActiveOf(j)
  BY <1>1, <1>2 DEF ActiveOf, OrderInv, RowInv
<1>7. RowInv'
  <2>1. /\ \A n \in RowNumbers : (rowState[n] # "none")' <=> n \in RowsSoFar'
        /\ \A x \in RowNumbers : (grantState[x] # "none")' => x \in RowsSoFar'
    BY <1>1, <1>2 DEF OrderInv, RowInv, TypeOK
  <2>2. ASSUME NEW n \in RowsSoFar'
        PROVE  /\ rows'[n].grant \in RowsSoFar'
               /\ rows'[rows'[n].grant].key = rows'[n].key
               /\ rows'[n].kind = "share" => rows'[n].grant = n
               /\ rows'[n].kind = "revoke" <=> rows'[n].value = Absent
    <3>1. CASE n = N
      BY <1>1, <1>5, <3>1
    <3>2. CASE n \in RowsSoFar
      BY <1>1, <3>2 DEF OrderInv, RowInv
    <3> QED BY <1>1, <3>1, <3>2
  <2>3. \A n \in Written' : (grantState[rows[n].grant] # "none")'
    BY <1>1, <1>2, <1>3, <1>4 DEF OrderInv, RowInv
  <2> QED BY <2>1, <2>2, <2>3 DEF RowInv
<1>8. OpenInv'
  <2> SUFFICES ASSUME NEW m \in RowsIn("open")'
               PROVE  /\ \A n \in RowsSoFar' : rows'[n].key = rows'[m].key => n <= m
                      /\ rows'[m].kind = "share" => /\ ActiveOf(rows[m].key)' = {}
                                                    /\ grantState'[m] = "none"
                      /\ rows'[m].kind # "share" => grantState'[rows'[m].grant] = "active"
    BY DEF OpenInv
  <2>1. CASE m = N
    BY <1>1, <1>2, <1>5, <1>6, <2>1 DEF RowsSoFar
  <2>2. CASE m \in RowsIn("open")
    <3>1. m \in RowsSoFar /\ rows'[m] = rows[m] /\ rows[m].key # k /\ rows[m].key \in Keys
      BY <1>1, <1>3, <2>2, RowTyped
    <3> QED BY <1>1, <1>2, <1>5, <1>6, <2>2, <3>1 DEF OrderInv, OpenInv
  <2> QED BY <1>4, <2>1, <2>2
<1>9. HistoryInv'
  BY <1>1, <1>2, <1>3, <1>4, <1>6, RowTyped DEF OrderInv, HistoryInv
<1>10. BatchInv'
  <2>1. ASSUME NEW w \in Workers PROVE Batched(w)' /\ AppliedInOrder(w)' /\ KnowsOlder(w)'
    <3>1. Batched(w) /\ AppliedInOrder(w) /\ KnowsOlder(w)
      BY DEF OrderInv, BatchInv
    <3>2. Batched(w)'
      BY <1>2, <1>4, <3>1 DEF Batched, workerVars
    <3>3. batch[w] \subseteq RowsSoFar /\ done[w] \subseteq RowsSoFar
      BY <1>3, <3>1 DEF Batched
    <3>4. AppliedInOrder(w)'
      BY <1>1, <1>2, <1>3, <1>4, <3>1, <3>3 DEF AppliedInOrder, workerVars, RowsSoFar
    <3>5. KnowsOlder(w)'
      BY <1>1, <1>2, <1>3, <1>4, <3>1, <3>3 DEF KnowsOlder, workerVars, RowsSoFar
    <3> QED BY <3>2, <3>4, <3>5
  <2> QED BY <1>2, <2>1 DEF OrderInv, BatchInv, Apart, workerVars
<1>11. StoreInv'
  <2>1. Applied' = Applied /\ Applied \subseteq RowsSoFar
    BY <1>2, <1>3, <1>4 DEF Applied, OrderInv, BatchInv, Batched, workerVars, Written, RowsIn
  <2>2. ASSUME NEW j \in Keys PROVE Shown(j)'
    BY <1>1, <1>2, <1>3, <1>4, <2>1 DEF OrderInv, StoreInv, Shown
  <2>3. ASSUME NEW w \in Workers PROVE Replacing(w)'
    <3>1. \A n \in Written : rows'[n] = rows[n]
      BY <1>1, <1>3
    <3>2. \A n : Sending(w, n)' = Sending(w, n) /\ (Sending(w, n) => n \in Written)
      BY <1>2, <3>1, SendingSame DEF OrderInv, BatchInv, workerVars
    <3>3. Replacing(w) /\ (half[w])' = half[w] /\ store' = store
      BY <1>2 DEF OrderInv, StoreInv, workerVars
    <3> QED BY <3>1, <3>2, <3>3 DEF Replacing
  <2> QED BY <2>2, <2>3 DEF StoreInv
<1>12. SettleOrder'
  BY <1>1, <1>3, <1>4 DEF OrderInv, SettleOrder, RowsSoFar, RowsIn, Written
<1>13. CoverInv => CoverInv'
  BY <1>1, <1>2, <1>3, <1>4 DEF CoverInv, workerVars
<1> QED BY <1>7, <1>8, <1>9, <1>10, <1>11, <1>12, <1>13 DEF OrderInv

-----------------------------------------------------------------------------
(* A change commits or is rolled back *)

\* The grant an open change is about to write has the key of the change and is nobody's
\* else: it is new, or active and locked.
LEMMA OpenGrant ==
    ASSUME TypeOK, RowInv, OpenInv, NEW n \in RowsIn("open")
    PROVE  /\ n \in RowsSoFar /\ n \in RowNumbers /\ rows[n].grant \in RowNumbers
           /\ rows[n].key \in Keys /\ rows[n].kind \in Kinds /\ n \notin Written
           /\ rows[rows[n].grant].key = rows[n].key
           /\ grantState[rows[n].grant] = IF rows[n].kind = "share" THEN "none" ELSE "active"
           /\ \A m \in RowsSoFar : rows[m].key = rows[n].key => m <= n
           /\ \A m \in RowsSoFar : m \in Nat
<1>1. n \in RowsSoFar /\ n \notin Written
  BY WrittenRows DEF RowsIn, Written
<1>2. \A m \in RowsSoFar : m \in Nat
  BY DEF RowsSoFar
<1> QED BY <1>1, <1>2, RowTyped DEF RowInv, OpenInv

\* What a commit changes.
LEMMA CommitEffect ==
    ASSUME TypeOK, RowInv, OpenInv, NEW n \in RowNumbers, CommitChange(n)
    PROVE  /\ n \in RowsIn("open") /\ RowsSoFar' = RowsSoFar /\ rows' = rows
           /\ Written' = Written \cup {n} /\ Pending' = Pending \cup {n} /\ Unsettled' = Unsettled
           /\ RowsIn("open")' = RowsIn("open") \ {n} /\ RowsIn("processed")' = RowsIn("processed")
           /\ \A g \in RowNumbers : grantState'[g] =
                  IF g # rows[n].grant THEN grantState[g]
                  ELSE IF rows[n].kind = "revoke" THEN "revoking" ELSE "active"
           /\ \A k \in Keys : desired'[k] = IF k = rows[n].key THEN rows[n].value ELSE desired[k]
           /\ markers' = markers \cup (IF rows[n].kind = "share" THEN {} ELSE {n})
           /\ UNCHANGED <<store, workerVars>>
           /\ \A k \in Keys : k # rows[n].key => ActiveOf(k)' = ActiveOf(k)
           /\ rows[n].kind = "revoke" \/ rows[n].grant \in ActiveOf(rows[n].key)'
<1>1. n \in RowsIn("open")
  BY DEF CommitChange, RowsIn
<1>2. /\ n \in RowsSoFar /\ rows[n].grant \in RowNumbers /\ rows[n].key \in Keys
      /\ rows[rows[n].grant].key = rows[n].key
  BY <1>1, OpenGrant
<1>3. rows' = rows /\ RowsSoFar' = RowsSoFar
  BY DEF CommitChange, RowsSoFar
<1>4. \A m \in RowNumbers : rowState'[m] = IF m = n THEN "pending" ELSE rowState[m]
  BY DEF CommitChange, TypeOK
<1>5. /\ Written' = Written \cup {n} /\ Pending' = Pending \cup {n} /\ Unsettled' = Unsettled
      /\ RowsIn("open")' = RowsIn("open") \ {n} /\ RowsIn("processed")' = RowsIn("processed")
  BY <1>1, <1>4 DEF Written, Pending, Unsettled, RowsIn
<1>6. \A g \in RowNumbers : grantState'[g] =
          IF g # rows[n].grant THEN grantState[g]
          ELSE IF rows[n].kind = "revoke" THEN "revoking" ELSE "active"
  BY DEF CommitChange, GrantAfter, TypeOK
<1>7. \A k \in Keys : desired'[k] = IF k = rows[n].key THEN rows[n].value ELSE desired[k]
  BY DEF CommitChange, TypeOK
<1>8. markers' = markers \cup (IF rows[n].kind = "share" THEN {} ELSE {n}) /\ UNCHANGED <<store, workerVars>>
  BY DEF CommitChange, MarkersOf
<1>9. ASSUME NEW k \in Keys, k # rows[n].key PROVE ActiveOf(k)' = ActiveOf(k)
  BY <1>2, <1>3, <1>6, <1>9 DEF ActiveOf
<1>10. rows[n].kind = "revoke" \/ rows[n].grant \in ActiveOf(rows[n].key)'
  BY <1>2, <1>3, <1>6 DEF ActiveOf
<1> QED BY <1>1, <1>3, <1>5, <1>6, <1>7, <1>8, <1>9, <1>10

\* A commit keeps the history of its key.
LEMMA CommitHistory ==
    ASSUME TypeOK, RowInv, OpenInv, HistoryInv, NEW n \in RowNumbers, CommitChange(n)
    PROVE  HistoryInv'
<1>1. n \in RowsIn("open")
  BY CommitEffect
<1> DEFINE k == rows[n].key
<1>2. k \in Keys /\ rows[n].kind \in Kinds /\ n \in RowsSoFar /\ n \notin Written /\ n \in Nat
  BY <1>1, OpenGrant
<1>3. /\ Written \subseteq RowsSoFar
      /\ \A m \in RowsSoFar : m \in Nat /\ rows[m].key \in Keys /\ rows[m].grant \in RowNumbers
  BY <1>1, WrittenRows, OpenGrant, RowTyped
<1>4. \A m \in Written : rows[m].key = k => m < n
  BY <1>1, <1>2, <1>3, OpenGrant
<1>5. rows[n].kind = "share" => ActiveOf(k) = {}
  BY <1>1 DEF OpenInv
<1>6. rows' = rows /\ Written' = Written \cup {n}
  BY CommitEffect
<1>7. ASSUME NEW p \in Written'
      PROVE  \/ ActiveOf(rows[p].key)' # {}
             \/ \E r \in Written' : rows[r].key = rows[p].key /\ rows[r].kind = "revoke" /\ p <= r
  <2>1. CASE rows[p].key = k
    <3>1. p <= n
      <4>1. CASE p = n
        BY <1>2, <4>1
      <4>2. CASE p # n
        <5>1. p \in Written
          BY <1>6, <4>2
        <5>2. p < n /\ p \in Nat
          BY <1>3, <1>4, <2>1, <5>1
        <5> QED BY <1>2, <5>2
      <4> QED BY <4>1, <4>2
    <3>2. CASE rows[n].kind = "revoke"
      <4>1. n \in Written'
        BY <1>6
      <4> QED BY <2>1, <3>1, <3>2, <4>1
    <3>3. CASE rows[n].kind # "revoke"
      <4>1. rows[n].grant \in ActiveOf(k)'
        BY <1>6, <3>3, CommitEffect
      <4>2. ActiveOf(rows[p].key)' # {}
        BY <1>6, <2>1, <4>1
      <4> QED BY <4>2
    <3> QED BY <3>2, <3>3
  <2>2. CASE rows[p].key # k
    <3>1. p \in Written /\ ActiveOf(rows[p].key)' = ActiveOf(rows[p].key)
      BY <1>3, <1>6, <2>2, CommitEffect
    <3> QED BY <1>6, <3>1 DEF HistoryInv
  <2> QED BY <2>1, <2>2
<1>8. ASSUME NEW p \in Written'
      PROVE  \/ rows[p].kind = "revoke"
             \/ rows[p].value = desired'[rows[p].key]
             \/ \E q \in Written' : rows[q].key = rows[p].key /\ rows[q].kind # "share" /\ p < q
  <2>1. CASE p = n
    BY <1>2, <2>1, CommitEffect
  <2>2. CASE p # n /\ rows[p].key = k
    <3>1. p \in Written /\ p < n
      BY <1>4, <1>6, <2>2
    <3>2. CASE rows[n].kind # "share"
      BY <1>6, <2>2, <3>1, <3>2
    <3>3. CASE rows[n].kind = "share"
      <4>1. PICK r \in Written : rows[r].key = k /\ rows[r].kind = "revoke" /\ p <= r
        BY <1>5, <2>2, <3>1, <3>3 DEF HistoryInv
      <4>2. p = r \/ p < r
        BY <1>3, <3>1, <4>1
      <4> QED BY <1>6, <2>2, <4>1, <4>2
    <3> QED BY <3>2, <3>3
  <2>3. CASE rows[p].key # k
    <3>1. p \in Written /\ desired'[rows[p].key] = desired[rows[p].key]
      BY <1>3, <1>6, <2>3, CommitEffect
    <3> QED BY <1>6, <3>1 DEF HistoryInv
  <2> QED BY <2>1, <2>2, <2>3
<1>9. ASSUME NEW p \in Written', NEW s \in Written', p < s, rows[p].key = rows[s].key,
             rows[s].kind = "share"
      PROVE  \E r \in Written' : rows[r].key = rows[p].key /\ rows[r].kind = "revoke" /\ p <= r /\ r < s
  <2>1. CASE s = n
    <3>1. p \in Written
      BY <1>2, <1>6, <1>9, <2>1
    <3>2. PICK r \in Written : rows[r].key = k /\ rows[r].kind = "revoke" /\ p <= r
      BY <1>5, <1>9, <2>1, <3>1 DEF HistoryInv
    <3> QED BY <1>4, <1>6, <1>9, <2>1, <3>2
  <2>2. CASE s # n
    <3>1. s \in Written /\ p \in Nat /\ s \in Nat
      BY <1>2, <1>3, <1>6, <2>2
    <3>2. p # n
      BY <1>2, <1>4, <1>9, <3>1
    <3>3. p \in Written
      BY <1>6, <3>2
    <3> QED BY <1>6, <1>9, <3>1, <3>3 DEF HistoryInv
  <2> QED BY <2>1, <2>2
<1>10. ASSUME NEW r \in Written', rows[r].kind = "revoke"
       PROVE  /\ grantState'[rows[r].grant] \in {"revoking", "revoked"}
              /\ \A m \in Written' : rows[m].grant = rows[r].grant => m <= r
  <2>1. CASE r = n
    <3>1. \A m \in Written' : rows[m].grant = rows[n].grant => rows[m].key = k
      <4>1. \A m \in RowsSoFar : rows[rows[m].grant].key = rows[m].key
        BY DEF RowInv
      <4>2. Written' \subseteq RowsSoFar
        BY <1>2, <1>3, <1>6
      <4> QED BY <1>2, <4>1, <4>2
    <3>2. \A m \in Written' : rows[m].grant = rows[n].grant => m <= n
      BY <1>2, <1>3, <1>4, <1>6, <3>1
    <3>3. grantState'[rows[n].grant] = "revoking"
      <4>1. rows[n].grant \in RowNumbers
        BY <1>2, <1>3
      <4> QED BY <1>10, <2>1, <4>1, CommitEffect
    <3> QED BY <2>1, <3>2, <3>3
  <2>2. CASE r # n
    <3>1. r \in Written /\ grantState[rows[r].grant] \in {"revoking", "revoked"}
      BY <1>6, <1>10, <2>2 DEF HistoryInv
    <3>2. rows[r].grant # rows[n].grant
      BY <1>1, <3>1, OpenGrant
    <3> QED BY <1>3, <1>6, <1>10, <3>1, <3>2, CommitEffect DEF HistoryInv
  <2> QED BY <2>1, <2>2
<1>11. ASSUME NEW g \in RowNumbers, grantState'[g] = "revoking"
       PROVE  \E r \in Written' : rows[r].kind = "revoke" /\ rows[r].grant = g
  BY <1>6, <1>11, CommitEffect DEF HistoryInv
<1> QED BY <1>6, <1>7, <1>8, <1>9, <1>10, <1>11 DEF HistoryInv

\* A commit keeps the invariant; a marker is there with its row, and, unless a revocation
\* commits between the two statements, no worker has its grant for landed.
LEMMA CommitKeeps ==
    ASSUME TypeOK, OrderInv, NEW n \in RowNumbers, CommitChange(n)
    PROVE  OrderInv' /\ (~CommitBetween /\ CoverInv => CoverInv')
<1>1. n \in RowsIn("open")
  BY CommitEffect DEF OrderInv
<1> DEFINE g == rows[n].grant
<1>2. /\ n \in RowsSoFar /\ n \notin Written /\ g \in RowNumbers /\ rows[g].key = rows[n].key
      /\ rows[n].key \in Keys
      /\ grantState[g] = IF rows[n].kind = "share" THEN "none" ELSE "active"
      /\ \A m \in RowsSoFar : rows[m].key = rows[n].key => m <= n
  BY <1>1, OpenGrant DEF OrderInv
<1>3. /\ Written \subseteq RowsSoFar /\ RowsIn("open") \subseteq RowsSoFar
      /\ \A m \in RowsSoFar : m \in Nat /\ m \in RowNumbers /\ rows[m].key \in Keys /\ rows[m].grant \in RowNumbers
  BY <1>1, WrittenRows, OpenGrant, RowTyped DEF OrderInv
<1>4. /\ RowsSoFar' = RowsSoFar /\ rows' = rows
      /\ Written' = Written \cup {n} /\ Pending' = Pending \cup {n} /\ Unsettled' = Unsettled
      /\ RowsIn("open")' = RowsIn("open") \ {n} /\ RowsIn("processed")' = RowsIn("processed")
      /\ markers' = markers \cup (IF rows[n].kind = "share" THEN {} ELSE {n})
      /\ UNCHANGED <<store, phase, batch, older, done, failed, half, landed, held, closing>>
  BY CommitEffect DEF OrderInv, workerVars
<1>5. \A x \in RowNumbers : grantState'[x] = IF x # g THEN grantState[x]
                               ELSE IF rows[n].kind = "revoke" THEN "revoking" ELSE "active"
  BY CommitEffect DEF OrderInv
<1>6. \A k \in Keys : k # rows[n].key => ActiveOf(k)' = ActiveOf(k)
  BY CommitEffect DEF OrderInv
<1> HIDE DEF g
<1>7. RowInv'
  <2>1. \A x \in RowNumbers : (grantState[x] # "none")' => x \in RowsSoFar'
    <3>1. g \in RowsSoFar
      BY <1>2 DEF g, OrderInv, RowInv
    <3> QED BY <1>4, <1>5, <3>1 DEF OrderInv, RowInv
  <2>2. \A m \in RowNumbers : (rowState[m] # "none")' <=> m \in RowsSoFar'
    BY <1>2, <1>4 DEF CommitChange, OrderInv, RowInv, TypeOK
  <2>3. \A m \in Written' : (grantState[rows[m].grant] # "none")'
    BY <1>2, <1>3, <1>4, <1>5 DEF g, OrderInv, RowInv
  <2> QED BY <1>4, <2>1, <2>2, <2>3 DEF OrderInv, RowInv
<1>8. OpenInv'
  <2> SUFFICES ASSUME NEW m \in RowsIn("open")'
               PROVE  /\ \A s \in RowsSoFar : rows[s].key = rows[m].key => s <= m
                      /\ rows[m].kind = "share" => ActiveOf(rows[m].key)' = {} /\ grantState'[m] = "none"
                      /\ rows[m].kind # "share" => grantState'[rows[m].grant] = "active"
    BY <1>4 DEF OpenInv
  <2>1. m \in RowsIn("open") /\ m # n /\ m \in RowsSoFar
    BY <1>3, <1>4
  <2>2. rows[m].key # rows[n].key
    BY <1>1, <1>2, <1>3, <2>1 DEF OrderInv, OpenInv
  <2>3. ActiveOf(rows[m].key)' = ActiveOf(rows[m].key)
    BY <1>3, <1>4, <1>6, <2>1, <2>2
  <2>4. rows[rows[m].grant].key = rows[m].key /\ (rows[m].kind = "share" => rows[m].grant = m)
    BY <2>1 DEF OrderInv, RowInv
  <2>5. grantState'[rows[m].grant] = grantState[rows[m].grant]
    BY <1>2, <1>3, <1>5, <2>1, <2>2, <2>4
  <2> QED BY <2>1, <2>3, <2>4, <2>5 DEF OrderInv, OpenInv
<1>9. HistoryInv'
  BY CommitHistory DEF OrderInv
<1>10. BatchInv'
  <2>1. ASSUME NEW w \in Workers PROVE Batched(w)' /\ AppliedInOrder(w)' /\ KnowsOlder(w)'
    <3>1. Batched(w) /\ AppliedInOrder(w) /\ KnowsOlder(w)
      BY DEF OrderInv, BatchInv
    <3>2. held[w] \subseteq RowNumbers
      BY DEF TypeOK
    <3>3. Batched(w)'
      BY <1>2, <1>4, <1>5, <3>1, <3>2 DEF Batched
    <3> QED BY <1>4, <3>1, <3>3 DEF AppliedInOrder, KnowsOlder
  <2> QED BY <1>4, <2>1 DEF OrderInv, BatchInv, Apart
<1>11. StoreInv'
  <2>1. Applied' = Applied
    BY <1>4 DEF Applied
  <2>2. ASSUME NEW k \in Keys PROVE Shown(k)'
    BY <1>4, <2>1 DEF OrderInv, StoreInv, Shown
  <2>3. ASSUME NEW w \in Workers PROVE Replacing(w)'
    <3>1. \A m : Sending(w, m)' = Sending(w, m)
      BY <1>4, SendingSame DEF OrderInv, BatchInv
    <3> QED BY <1>4, <3>1 DEF OrderInv, StoreInv, Replacing
  <2> QED BY <2>2, <2>3 DEF StoreInv
<1>12. SettleOrder'
  BY <1>4 DEF OrderInv, SettleOrder
<1>13. ASSUME ~CommitBetween, CoverInv PROVE CoverInv'
  <2>1. ASSUME NEW w \in Workers, NEW m \in Pending'
        PROVE  /\ rows[m].grant \in landed[w] /\ rows[m].kind # "change" => m \in done[w]
               /\ rows[m].grant \in held[w] => m \in done[w]
               /\ m \in closing[w] => m \in done[w]
    <3>1. CASE m \in Pending
      BY <1>13, <3>1 DEF CoverInv
    <3>2. CASE m = n
      <4>1. g \in landed[w] => rows[n].kind = "change"
        <5>1. g \in landed[w] => rows[n].kind # "revoke"
          BY <1>13 DEF CommitChange, g
        <5>2. g \in landed[w] => rows[n].kind # "share"
          BY <1>2, <1>13 DEF CoverInv
        <5>3. rows[n].kind \in Kinds
          BY <1>2, RowTyped
        <5> QED BY <5>1, <5>2, <5>3 DEF Kinds
      <4>2. g \notin held[w]
        BY <1>2 DEF OrderInv, BatchInv, Batched
      <4>3. n \notin closing[w]
        BY <1>2, <1>13 DEF CoverInv
      <4> QED BY <3>2, <4>1, <4>2, <4>3 DEF g
    <3> QED BY <1>4, <3>1, <3>2
  <2>2. ASSUME NEW w \in Workers
        PROVE  (\A x \in landed[w] : grantState'[x] # "none") /\ closing[w] \subseteq Written'
    BY <1>4, <1>5, <1>13 DEF CoverInv, TypeOK
  <2>3. markers' \subseteq Written' /\ \A m \in Pending' : rows[m].kind # "share" => m \in markers'
    BY <1>4, <1>13 DEF CoverInv
  <2>4. ASSUME NEW m \in Pending' PROVE grantState'[rows[m].grant] # "revoked"
    <3>1. m \in Pending /\ rows[m].grant # g => grantState[rows[m].grant] # "revoked"
      BY <1>13 DEF CoverInv
    <3>2. m = n => rows[m].grant = g
      BY DEF g
    <3>3. m \in RowsSoFar
      BY <1>2, <1>3, <1>4 DEF Pending, RowsIn, Written
    <3> QED BY <1>3, <1>4, <1>5, <3>1, <3>2, <3>3
  <2> QED BY <1>4, <2>1, <2>2, <2>3, <2>4 DEF CoverInv
<1> QED BY <1>7, <1>8, <1>9, <1>10, <1>11, <1>12, <1>13 DEF OrderInv

\* A change that is rolled back leaves nothing but its number.
LEMMA RollbackKeeps ==
    ASSUME TypeOK, OrderInv, NEW n \in RowNumbers, RollbackChange(n)
    PROVE  OrderInv' /\ (CoverInv => CoverInv')
<1>1. /\ n \in RowsIn("open") /\ RowsSoFar' = RowsSoFar
      /\ \A m \in RowNumbers : rowState'[m] = IF m = n THEN "void" ELSE rowState[m]
      /\ UNCHANGED <<rows, grantState, desired, markers, store, phase, batch, older, done, failed,
                     half, landed, held, closing>>
  BY DEF RollbackChange, RowsIn, RowsSoFar, TypeOK, recordVars, workerVars
<1>2. /\ Written' = Written /\ Pending' = Pending /\ Unsettled' = Unsettled \ {n}
      /\ RowsIn("open")' = RowsIn("open") \ {n} /\ RowsIn("processed")' = RowsIn("processed")
  BY <1>1 DEF Written, Pending, Unsettled, RowsIn
<1>3. \A k : ActiveOf(k)' = ActiveOf(k)
  BY <1>1 DEF ActiveOf
<1>4. RowInv' /\ OpenInv'
  <2>1. RowInv'
    BY <1>1, <1>2 DEF OrderInv, RowInv, RowsIn
  <2>2. \A m \in RowsIn("open") : ActiveOf(rows[m].key)' = ActiveOf(rows[m].key)
    BY <1>1, <1>3
  <2>3. OpenInv'
    BY <1>1, <1>2, <2>2 DEF OrderInv, OpenInv
  <2> QED BY <2>1, <2>3
<1>5. HistoryInv'
  BY <1>1, <1>2, <1>3 DEF OrderInv, HistoryInv
<1>6. BatchInv'
  <2>1. ASSUME NEW w \in Workers PROVE Batched(w)' /\ AppliedInOrder(w)' /\ KnowsOlder(w)'
    BY <1>1, <1>2 DEF OrderInv, BatchInv, Batched, AppliedInOrder, KnowsOlder
  <2> QED BY <1>1, <2>1 DEF OrderInv, BatchInv, Apart
<1>7. StoreInv'
  <2>1. \A w \in Workers : \A m : Sending(w, m)' = Sending(w, m)
    BY <1>1, SendingSame DEF OrderInv, BatchInv
  <2>2. Applied' = Applied
    BY <1>1, <1>2 DEF Applied
  <2> QED BY <1>1, <1>2, <2>1, <2>2 DEF OrderInv, StoreInv, Shown, Replacing
<1>8. SettleOrder'
  BY <1>1, <1>2 DEF OrderInv, SettleOrder
<1>9. CoverInv => CoverInv'
  BY <1>1, <1>2 DEF CoverInv
<1> QED BY <1>4, <1>5, <1>6, <1>7, <1>8, <1>9 DEF OrderInv

-----------------------------------------------------------------------------
(* The steps of a worker before its commit *)

Records == <<rows, rowState, grantState, desired>>

\* A step that leaves rows and grants alone keeps what is said of them only.
LEMMA RecordsKept ==
    ASSUME OrderInv, UNCHANGED Records
    PROVE  /\ RowInv' /\ OpenInv' /\ HistoryInv' /\ SettleOrder' /\ rows' = rows
           /\ Written' = Written /\ Pending' = Pending /\ Unsettled' = Unsettled
           /\ RowsIn("processed")' = RowsIn("processed") /\ RowsSoFar' = RowsSoFar
<1>1. rows' = rows /\ rowState' = rowState /\ grantState' = grantState /\ desired' = desired
  BY DEF Records
<1>2. /\ Written' = Written /\ Pending' = Pending /\ Unsettled' = Unsettled
      /\ RowsIn("processed")' = RowsIn("processed") /\ RowsIn("open")' = RowsIn("open")
      /\ RowsSoFar' = RowsSoFar
  BY <1>1 DEF Written, Pending, Unsettled, RowsIn, RowsSoFar
<1>3. \A m \in RowNumbers : ActiveOf(rows[m].key)' = ActiveOf(rows[m].key)
  BY <1>1 DEF ActiveOf
<1>4. RowInv'
  BY <1>1, <1>2 DEF OrderInv, RowInv
<1>5. OpenInv'
  BY <1>1, <1>2, <1>3 DEF OrderInv, OpenInv, RowsIn
<1>6. HistoryInv'
  BY <1>1, <1>2, <1>3 DEF OrderInv, HistoryInv, Written
<1>7. SettleOrder'
  BY <1>1, <1>2 DEF OrderInv, SettleOrder
<1> QED BY <1>1, <1>2, <1>4, <1>5, <1>6, <1>7

\* The locals of a worker, and what is said of them alone.
Locals(w) == <<phase[w], batch[w], older[w], done[w], failed[w], half[w], landed[w], held[w], closing[w]>>
WorkerInv(w) == Batched(w) /\ AppliedInOrder(w) /\ KnowsOlder(w)

\* The other workers are where they were.
LEMMA OthersKept ==
    ASSUME OrderInv, UNCHANGED Records, NEW v \in Workers, UNCHANGED Locals(v)
    PROVE  /\ WorkerInv(v)'
           /\ store' = store => Replacing(v)'
           /\ \A n : Sending(v, n)' = Sending(v, n)
<1>1. WorkerInv(v) /\ Replacing(v)
  BY DEF OrderInv, BatchInv, StoreInv, WorkerInv
<1>2. /\ phase'[v] = phase[v] /\ batch'[v] = batch[v] /\ older'[v] = older[v] /\ done'[v] = done[v]
      /\ failed'[v] = failed[v] /\ half'[v] = half[v] /\ held'[v] = held[v]
  BY DEF Locals
<1>3. rows' = rows /\ grantState' = grantState
  BY DEF Records
<1>4. WorkerInv(v)'
  BY <1>1, <1>2, <1>3, RecordsKept DEF WorkerInv, Batched, AppliedInOrder, KnowsOlder
<1>5. \A n : Sending(v, n)' = Sending(v, n)
  BY <1>1, <1>2, <1>3, SendingSame DEF WorkerInv
<1>6. ASSUME store' = store PROVE Replacing(v)'
  BY <1>1, <1>2, <1>3, <1>5, <1>6 DEF Replacing
<1> QED BY <1>4, <1>5, <1>6

\* A worker that is not between the calls of a replacement.
LEMMA NotHalf ==
    ASSUME OrderInv, NEW w \in Workers, phase[w] # "sending" \/ ToSend(w) = {}, TypeOK
    PROVE  half[w] = FALSE
<1>1. half[w] \in BOOLEAN
  BY DEF TypeOK
<1>2. ~half[w]
  BY DEF OrderInv, StoreInv, Replacing, Sending
<1> QED BY <1>1, <1>2

\* A step that neither sends nor commits: nothing is applied, the worker may give up what
\* it applied, and it keeps to its batch.
LEMMA WorkerKeeps ==
    ASSUME TypeOK, OrderInv, UNCHANGED Records, store' = store, NEW w \in Workers,
           \A v \in Workers \ {w} : UNCHANGED Locals(v),
           WorkerInv(w)', half'[w] = FALSE, done'[w] \subseteq done[w],
           \A v \in Workers \ {w} : Apart(w, v)' /\ Apart(v, w)'
    PROVE  OrderInv'
<1>1. \A v \in Workers : WorkerInv(v)'
  BY OthersKept
<1>2. \A v \in Workers : Replacing(v)'
  BY OthersKept DEF Replacing
<1>3. ASSUME NEW u \in Workers, NEW v \in Workers, u # v PROVE Apart(u, v)'
  <2>1. CASE u # w /\ v # w
    BY <1>3, <2>1 DEF OrderInv, BatchInv, Apart, Locals
  <2> QED BY <1>3, <2>1
<1>4. BatchInv'
  BY <1>1, <1>3 DEF BatchInv, WorkerInv
<1>5. Applied' \subseteq Applied
  <2>1. \A v \in Workers : done'[v] \subseteq done[v]
    BY DEF Locals
  <2> QED BY <2>1, RecordsKept DEF Applied
<1>6. \A k \in Keys : Shown(k)'
  BY <1>5, RecordsKept DEF OrderInv, StoreInv, Shown
<1> QED BY <1>2, <1>4, <1>6, RecordsKept DEF OrderInv, StoreInv

\* A step that leaves the locals of the workers alone.
LEMMA IdleStepKeeps ==
    ASSUME TypeOK, OrderInv, UNCHANGED <<rows, rowState, recordVars, store, workerVars>>
    PROVE  OrderInv' /\ (CoverInv => CoverInv')
<1>1. UNCHANGED Records /\ store' = store /\ markers' = markers
  BY DEF Records, recordVars
<1>2. ASSUME NEW v \in Workers PROVE UNCHANGED Locals(v)
  BY DEF Locals, workerVars
<1>3. Applied' = Applied
  BY <1>1, RecordsKept DEF Applied, workerVars
<1>4. \A k \in Keys : Shown(k)'
  BY <1>1, <1>3, RecordsKept DEF OrderInv, StoreInv, Shown
<1>5. BatchInv'
  <2>1. \A v \in Workers : WorkerInv(v)'
    BY <1>1, <1>2, OthersKept
  <2> QED BY <1>1, <2>1 DEF OrderInv, BatchInv, WorkerInv, Apart, workerVars
<1>6. CoverInv => CoverInv'
  BY <1>1, RecordsKept DEF CoverInv, workerVars, Records
<1>7. \A v \in Workers : Replacing(v)'
  BY <1>1, <1>2, OthersKept
<1> QED BY <1>1, <1>4, <1>5, <1>6, <1>7, RecordsKept DEF OrderInv, StoreInv

\* A batch is taken from rows nobody has locked.
LEMMA TakeKeeps ==
    ASSUME TypeOK, OrderInv, NEW w \in Workers, NEW chosen \in SUBSET Takeable, Take(w, chosen)
    PROVE  OrderInv' /\ (CoverInv => CoverInv')
<1>1. /\ UNCHANGED Records /\ store' = store /\ markers' = markers
      /\ phase[w] = "idle" /\ phase'[w] = "taken" /\ batch'[w] = chosen
      /\ UNCHANGED <<older, done, failed, half, landed, held, closing>>
      /\ \A v \in Workers \ {w} : phase'[v] = phase[v] /\ batch'[v] = batch[v]
  BY DEF Take, Records, recordVars, TypeOK
<1>2. \A v \in Workers \ {w} : UNCHANGED Locals(v)
  BY <1>1 DEF Locals
<1>3. chosen \subseteq Pending /\ \A v \in Workers : chosen \cap batch[v] = {}
  BY DEF Takeable, LockedRows
<1>4. Batched(w) /\ done[w] = {} /\ failed[w] = {}
  BY <1>1 DEF OrderInv, BatchInv, Batched
<1>5. WorkerInv(w)'
  <2>1. Batched(w)'
    BY <1>1, <1>3, <1>4, RecordsKept DEF Batched, Records
  <2> QED BY <1>1, <1>4, <2>1 DEF WorkerInv, AppliedInOrder, KnowsOlder
<1>6. half'[w] = FALSE
  BY <1>1, NotHalf
<1>7. \A v \in Workers \ {w} : Apart(w, v)' /\ Apart(v, w)'
  BY <1>1, <1>3 DEF OrderInv, BatchInv, Apart
<1>8. OrderInv'
  BY <1>1, <1>2, <1>5, <1>6, <1>7, WorkerKeeps
<1>9. CoverInv => CoverInv'
  BY <1>1, RecordsKept DEF CoverInv, Records
<1> QED BY <1>8, <1>9

\* A worker reads the older rows of its keys.
LEMMA ReadOlderKeeps ==
    ASSUME TypeOK, OrderInv, NEW w \in Workers, ReadOlder(w)
    PROVE  OrderInv' /\ (CoverInv => CoverInv')
<1>1. /\ UNCHANGED Records /\ store' = store /\ markers' = markers
      /\ phase[w] = "taken" /\ phase'[w] = "sending" /\ older'[w] = OlderPending(w)
      /\ UNCHANGED <<batch, done, failed, half, landed, held, closing>>
      /\ \A v \in Workers \ {w} : phase'[v] = phase[v] /\ older'[v] = older[v]
  BY DEF ReadOlder, Records, recordVars, rowVars, TypeOK
<1>2. \A v \in Workers \ {w} : UNCHANGED Locals(v)
  BY <1>1 DEF Locals
<1>3. Batched(w) /\ done[w] = {} /\ failed[w] = {}
  BY <1>1 DEF OrderInv, BatchInv, Batched
<1>4. OlderPending(w) \subseteq Pending /\ Pending \subseteq Written
  BY DEF OlderPending, Pending, RowsIn, Written
<1>5. Batched(w)'
  BY <1>1, <1>3, <1>4, RecordsKept DEF Batched, Records
<1>6. KnowsOlder(w)'
  <2> SUFFICES ASSUME NEW n \in batch[w], NEW m \in Unsettled, m < n, rows[m].key = rows[n].key
               PROVE  m \in batch[w] \cup OlderPending(w)
    BY <1>1, RecordsKept DEF KnowsOlder
  <2>1. n \in RowsSoFar /\ m \in RowsSoFar
    BY <1>3, WrittenRows DEF OrderInv, Batched
  <2>2. m \notin RowsIn("open")
    BY <2>1 DEF OrderInv, OpenInv, RowsSoFar
  <2>3. m \in Pending
    BY <2>2 DEF Unsettled, Pending, RowsIn
  <2> QED BY <2>3 DEF OlderPending
<1>7. WorkerInv(w)'
  BY <1>1, <1>3, <1>5, <1>6 DEF WorkerInv, AppliedInOrder
<1>8. half'[w] = FALSE
  BY <1>1, NotHalf
<1>9. \A v \in Workers \ {w} : Apart(w, v)' /\ Apart(v, w)'
  BY <1>1 DEF OrderInv, BatchInv, Apart
<1>10. OrderInv'
  BY <1>1, <1>2, <1>7, <1>8, <1>9, WorkerKeeps
<1>11. CoverInv => CoverInv'
  BY <1>1, RecordsKept DEF CoverInv, Records
<1> QED BY <1>10, <1>11

\* A worker reads which grants have landed.
LEMMA ReadLandedKeeps ==
    ASSUME TypeOK, OrderInv, NEW w \in Workers, ReadLanded(w)
    PROVE  OrderInv' /\ (CoverInv => CoverInv')
<1>1. /\ UNCHANGED Records /\ store' = store /\ markers' = markers
      /\ phase[w] = "sending" /\ ToSend(w) = {} /\ phase'[w] = "locking"
      /\ older'[w] = {} /\ landed'[w] = Landed(w)
      /\ UNCHANGED <<batch, done, failed, half, held, closing>>
      /\ \A v \in Workers \ {w} : phase'[v] = phase[v] /\ older'[v] = older[v] /\ landed'[v] = landed[v]
  BY DEF ReadLanded, Records, recordVars, rowVars, TypeOK
<1>2. \A v \in Workers \ {w} : UNCHANGED Locals(v)
  BY <1>1 DEF Locals
<1>3. WorkerInv(w)
  BY DEF OrderInv, BatchInv, WorkerInv
<1>4. WorkerInv(w)'
  <2>1. Batched(w)'
    BY <1>1, <1>3, RecordsKept DEF WorkerInv, Batched, Records
  <2>2. AppliedInOrder(w)'
    BY <1>1, <1>3, RecordsKept DEF WorkerInv, AppliedInOrder
  <2> QED BY <1>1, <2>1, <2>2 DEF WorkerInv, KnowsOlder
<1>5. half'[w] = FALSE
  BY <1>1, NotHalf
<1>6. \A v \in Workers \ {w} : Apart(w, v)' /\ Apart(v, w)'
  BY <1>1 DEF OrderInv, BatchInv, Apart
<1>7. OrderInv'
  BY <1>1, <1>2, <1>4, <1>5, <1>6, WorkerKeeps
<1>8. ASSUME CoverInv PROVE CoverInv'
  <2>1. \A n \in Pending : rows[n].grant \in Landed(w) /\ rows[n].kind # "change" => n \in done[w]
    BY DEF Landed, PendingFor
  <2>2. \A g \in Landed(w) : grantState[g] # "none"
    <3>1. \A n \in done[w] : n \in Written
      BY <1>3 DEF WorkerInv, Batched, Pending, RowsIn, Written
    <3> QED BY <3>1 DEF Landed, Sources, OrderInv, RowInv
  <2>3. \A v \in Workers : landed'[v] = IF v = w THEN Landed(w) ELSE landed[v]
    BY <1>1
  <2> QED BY <1>1, <1>8, <2>1, <2>2, <2>3, RecordsKept DEF CoverInv, Records
<1> QED BY <1>7, <1>8

\* A worker locks the grants whose revocation it ends: what is left of each was applied by
\* the worker, for changes of it are older than its revocation.
LEMMA LockFinishedKeeps ==
    ASSUME TypeOK, OrderInv, NEW w \in Workers, LockFinished(w)
    PROVE  OrderInv' /\ (CoverInv => CoverInv')
<1> DEFINE finished == {g \in landed[w] : grantState[g] = "revoking"}
<1>1. /\ UNCHANGED Records /\ store' = store /\ markers' = markers
      /\ phase[w] = "locking" /\ phase'[w] = "closing" /\ finished \cap LockedGrants = {}
      /\ held'[w] = finished /\ landed'[w] = {}
      /\ UNCHANGED <<batch, older, done, failed, half, closing>>
      /\ \A v \in Workers \ {w} : phase'[v] = phase[v] /\ held'[v] = held[v] /\ landed'[v] = landed[v]
  BY DEF LockFinished, Records, recordVars, rowVars, TypeOK
<1>2. \A v \in Workers \ {w} : UNCHANGED Locals(v)
  BY <1>1 DEF Locals
<1>3. WorkerInv(w)
  BY DEF OrderInv, BatchInv, WorkerInv
<1>4. WorkerInv(w)'
  <2>1. Batched(w)'
    BY <1>1, <1>3, RecordsKept DEF WorkerInv, Batched, Records
  <2>2. AppliedInOrder(w)'
    BY <1>1, <1>3, RecordsKept DEF WorkerInv, AppliedInOrder
  <2> QED BY <1>1, <2>1, <2>2 DEF WorkerInv, KnowsOlder
<1>5. half'[w] = FALSE
  BY <1>1, NotHalf
<1>6. \A v \in Workers \ {w} : Apart(w, v)' /\ Apart(v, w)'
  <2>1. \A v \in Workers : held[v] \subseteq LockedGrants
    <3> SUFFICES ASSUME NEW v \in Workers, NEW g \in held[v] PROVE g \in LockedGrants
      OBVIOUS
    <3>1. g \in UNION {held[u] : u \in Workers}
      OBVIOUS
    <3> QED BY <3>1 DEF LockedGrants
  <2>2. \A v \in Workers \ {w} : held'[w] \cap held'[v] = {}
    BY <1>1, <2>1
  <2> QED BY <1>1, <2>2 DEF OrderInv, BatchInv, Apart
<1>7. OrderInv'
  BY <1>1, <1>2, <1>4, <1>5, <1>6, WorkerKeeps
<1>8. ASSUME CoverInv PROVE CoverInv'
  <2>1. ASSUME NEW n \in Pending, rows[n].grant \in finished PROVE n \in done[w]
    <3>1. CASE rows[n].kind # "change"
      BY <1>8, <2>1, <3>1 DEF CoverInv
    <3>2. CASE rows[n].kind = "change"
      <4>1. rows[n].grant \in RowNumbers
        BY <2>1, RowTyped, WrittenRows DEF OrderInv
      <4>2. PICK r \in Written : rows[r].kind = "revoke" /\ rows[r].grant = rows[n].grant
        BY <2>1, <4>1 DEF OrderInv, HistoryInv
      <4>3. n \in Written /\ n \in Unsettled /\ n \in RowsSoFar /\ r \in RowsSoFar
        BY WrittenRows DEF OrderInv, Written, Pending, Unsettled, RowsIn
      <4>4. n <= r /\ n # r /\ n \in Nat /\ r \in Nat
        BY <2>1, <3>2, <4>2, <4>3 DEF OrderInv, HistoryInv, RowsSoFar
      <4>5. rows[n].key = rows[r].key
        BY <4>2, <4>3 DEF OrderInv, RowInv
      <4>6. CASE r \in Pending
        <5>1. r \in done[w]
          BY <1>8, <2>1, <4>2, <4>6 DEF CoverInv
        <5> QED BY <1>3, <4>3, <4>4, <4>5, <5>1 DEF WorkerInv, AppliedInOrder
      <4>7. CASE r \in RowsIn("processed")
        BY <4>3, <4>4, <4>5, <4>7 DEF OrderInv, SettleOrder
      <4> QED BY <4>6, <4>7 DEF Written, Pending, RowsIn
    <3> QED BY <3>1, <3>2
  <2>2. \A v \in Workers : /\ landed'[v] = IF v = w THEN {} ELSE landed[v]
                           /\ held'[v] = IF v = w THEN finished ELSE held[v]
    BY <1>1
  <2> QED BY <1>1, <1>8, <2>1, <2>2, RecordsKept DEF CoverInv, Records
<1> QED BY <1>7, <1>8

\* A worker chooses the markers it lifts: those of revocations when no other grant of the
\* pair is being revoked, and those of the narrowings it has applied.
LEMMA ChooseMarkersKeeps ==
    ASSUME TypeOK, OrderInv, NEW w \in Workers, ChooseMarkers(w)
    PROVE  OrderInv' /\ (CoverInv => CoverInv')
<1>1. /\ UNCHANGED Records /\ store' = store /\ markers' = markers
      /\ phase[w] = "closing" /\ phase'[w] = "committing"
      /\ \/ held' = held /\ closing'[w] = PairMarkers(w) \cup NarrowingMarkers(w)
         \/ held'[w] = {} /\ closing' = closing
      /\ UNCHANGED <<batch, older, done, failed, half, landed>>
      /\ \A v \in Workers \ {w} : phase'[v] = phase[v] /\ held'[v] = held[v] /\ closing'[v] = closing[v]
  BY DEF ChooseMarkers, Records, recordVars, rowVars, TypeOK
<1>2. \A v \in Workers \ {w} : UNCHANGED Locals(v)
  BY <1>1 DEF Locals
<1>3. WorkerInv(w)
  BY DEF OrderInv, BatchInv, WorkerInv
<1>4. held'[w] \subseteq held[w]
  BY <1>1
<1>5. WorkerInv(w)'
  <2>1. Batched(w)'
    BY <1>1, <1>3, <1>4, RecordsKept DEF WorkerInv, Batched, Records
  <2>2. AppliedInOrder(w)'
    BY <1>1, <1>3, RecordsKept DEF WorkerInv, AppliedInOrder
  <2> QED BY <1>1, <2>1, <2>2 DEF WorkerInv, KnowsOlder
<1>6. half'[w] = FALSE
  BY <1>1, NotHalf
<1>7. \A v \in Workers \ {w} : Apart(w, v)' /\ Apart(v, w)'
  BY <1>1, <1>4 DEF OrderInv, BatchInv, Apart
<1>8. OrderInv'
  BY <1>1, <1>2, <1>5, <1>6, <1>7, WorkerKeeps
<1>9. ASSUME CoverInv PROVE CoverInv'
  <2>1. done[w] \subseteq Written
    BY <1>3 DEF WorkerInv, Batched, Pending, RowsIn, Written
  <2>2. ASSUME NEW n \in Pending, n \in PairMarkers(w) PROVE n \in done[w]
    <3>1. CASE rows[n].kind = "revoke"
      <4>1. n \in Written /\ n \in RowsSoFar
        BY WrittenRows DEF OrderInv, Pending, RowsIn, Written
      <4>2. rows[n].grant \in RowNumbers /\ grantState[rows[n].grant] \in {"revoking", "revoked"}
        BY <3>1, <4>1, RowTyped DEF OrderInv, HistoryInv
      <4>3. CASE rows[n].grant \in held[w]
        BY <1>9, <4>3 DEF CoverInv
      <4>4. CASE grantState[rows[n].grant] = "revoking" /\ rows[n].grant \notin held[w]
        BY <2>2, <4>2, <4>4 DEF PairMarkers
      <4>5. CASE grantState[rows[n].grant] = "revoked"
        BY <1>9, <4>5 DEF CoverInv
      <4> QED BY <4>2, <4>3, <4>4, <4>5
    <3>2. CASE rows[n].kind # "revoke"
      BY <2>2, <3>2 DEF PairMarkers, PendingFor
    <3> QED BY <3>1, <3>2
  <2>3. PairMarkers(w) \subseteq markers /\ NarrowingMarkers(w) \subseteq done[w]
    BY DEF PairMarkers, NarrowingMarkers
  <2>4. ASSUME NEW v \in Workers
        PROVE  /\ \A n \in Pending : n \in closing'[v] => n \in done[v]
               /\ closing'[v] \subseteq Written /\ held'[v] \subseteq held[v]
    <3>1. CASE v = w /\ closing'[w] = PairMarkers(w) \cup NarrowingMarkers(w)
      BY <1>4, <1>9, <2>1, <2>2, <2>3, <3>1 DEF CoverInv
    <3>2. CASE closing'[v] = closing[v] /\ held'[v] \subseteq held[v]
      BY <1>9, <3>2 DEF CoverInv
    <3> QED BY <1>1, <1>4, <3>1, <3>2
  <2> QED BY <1>1, <1>9, <2>4, RecordsKept DEF CoverInv, Records
<1> QED BY <1>8, <1>9

\* A transaction that is cut off gives up its rows and grants.
LEMMA AbortKeeps ==
    ASSUME TypeOK, OrderInv, NEW w \in Workers, Abort(w)
    PROVE  OrderInv' /\ (CoverInv => CoverInv')
<1>1. /\ UNCHANGED Records /\ store' = store /\ markers' = markers
      /\ phase'[w] = "idle" /\ batch'[w] = {} /\ older'[w] = {} /\ done'[w] = {} /\ failed'[w] = {}
      /\ half'[w] = FALSE /\ landed'[w] = {} /\ held'[w] = {} /\ closing'[w] = {}
  BY DEF Abort, Idle, Records, recordVars, rowVars, TypeOK
<1>2. \A v \in Workers \ {w} : UNCHANGED Locals(v)
  BY DEF Abort, Idle, Locals, TypeOK
<1>3. WorkerInv(w)'
  BY <1>1 DEF WorkerInv, Batched, AppliedInOrder, KnowsOlder
<1>4. \A v \in Workers \ {w} : Apart(w, v)' /\ Apart(v, w)'
  BY <1>1 DEF Apart
<1>5. OrderInv'
  BY <1>1, <1>2, <1>3, <1>4, WorkerKeeps
<1>6. ASSUME CoverInv PROVE CoverInv'
  <2>1. \A v \in Workers \ {w} :
           done'[v] = done[v] /\ landed'[v] = landed[v] /\ held'[v] = held[v] /\ closing'[v] = closing[v]
    BY <1>2 DEF Locals
  <2> QED BY <1>1, <1>6, <2>1, RecordsKept DEF CoverInv, Records
<1> QED BY <1>5, <1>6

-----------------------------------------------------------------------------
(* The calls of the store *)

\* What a worker is about to send follows everything of its key that was applied, and
\* nobody else sends to the key.
LEMMA SendFacts ==
    ASSUME TypeOK, OrderInv, NEW w \in Workers, NEW n \in RowNumbers, Sending(w, n)
    PROVE  /\ n \in batch[w] /\ n \in Written /\ n \in RowsSoFar /\ n \notin done[w] /\ n \notin failed[w]
           /\ rows[n].key \in Keys
           /\ \A m \in Unsettled : m < n /\ rows[m].key = rows[n].key => m \in done[w]
           /\ \A v \in Workers \ {w}, m \in RowNumbers : Sending(v, m) => rows[m].key # rows[n].key
           /\ \A q \in Applied : rows[q].key = rows[n].key => q < n
           /\ \A m \in RowNumbers : Sending(w, m) => m = n
<1>1. \A v \in Workers : WorkerInv(v)
  BY DEF OrderInv, BatchInv, WorkerInv
<1>2. /\ n \in batch[w] /\ n \in Pending /\ n \notin done[w] /\ n \notin failed[w] /\ phase[w] = "sending"
      /\ ~Deferred(w, n)
  BY <1>1 DEF Sending, ToSend, WorkerInv, Batched
<1>3. n \in Written /\ n \in Unsettled /\ n \in RowsSoFar /\ n \notin RowsIn("processed")
  BY <1>2, WrittenRows DEF OrderInv, Pending, RowsIn, Written, Unsettled
<1>4. rows[n].key \in Keys
  BY <1>3, RowTyped
<1>5. \A m \in RowNumbers : m \in Nat
  BY DEF RowNumbers
<1>6. ASSUME NEW m \in Unsettled, m < n, rows[m].key = rows[n].key PROVE m \in done[w]
  <2>1. m \notin older[w] /\ m \notin failed[w]
    BY <1>2, <1>6 DEF Deferred
  <2>2. m \in batch[w]
    BY <1>1, <1>2, <1>6, <2>1 DEF WorkerInv, KnowsOlder
  <2>3. CASE Deferred(w, m)
    <3>1. CASE \E x \in older[w] : x < m /\ rows[x].key = rows[m].key
      <4>1. PICK x \in older[w] : x < m /\ rows[x].key = rows[m].key
        BY <3>1
      <4>2. x \in RowNumbers /\ m \in RowNumbers
        BY <1>1 DEF WorkerInv, Batched, Written, Unsettled
      <4>3. x < n
        BY <1>5, <1>6, <4>1, <4>2
      <4> QED BY <1>2, <1>6, <4>1, <4>3 DEF Deferred
    <3>2. CASE \E x \in failed[w] : rows[x].key = rows[m].key
      BY <1>2, <1>6, <3>2 DEF Deferred
    <3> QED BY <2>3, <3>1, <3>2 DEF Deferred
  <2>4. CASE ~Deferred(w, m) /\ m \notin done[w]
    <3>1. m \in ToSend(w) /\ m \in RowNumbers
      BY <2>1, <2>2, <2>4 DEF ToSend, Unsettled
    <3>2. n <= m
      BY <3>1 DEF Sending
    <3> QED BY <1>5, <1>6, <3>1, <3>2
  <2> QED BY <2>3, <2>4
<1>7. ASSUME NEW q \in Applied, rows[q].key = rows[n].key PROVE q < n
  <2>1. q \in RowNumbers
    BY <1>1 DEF Applied, RowsIn, WorkerInv, Batched, Pending
  <2>2. ~(n < q)
    <3>1. CASE q \in RowsIn("processed")
      BY <1>3, <1>7, <3>1 DEF OrderInv, SettleOrder
    <3>2. ASSUME NEW v \in Workers, q \in done[v], n < q PROVE FALSE
      <4>1. n \in done[v]
        BY <1>1, <1>3, <1>7, <3>2 DEF WorkerInv, AppliedInOrder
      <4>2. n \in batch[v]
        BY <1>1, <4>1 DEF WorkerInv, Batched
      <4> QED BY <1>2, <4>1, <4>2 DEF OrderInv, BatchInv, Apart
    <3> QED BY <3>1, <3>2 DEF Applied
  <2>3. q # n
    <3>1. ASSUME NEW v \in Workers, n \in done[v] PROVE FALSE
      <4>1. n \in batch[v]
        BY <1>1, <3>1 DEF WorkerInv, Batched
      <4> QED BY <1>2, <3>1, <4>1 DEF OrderInv, BatchInv, Apart
    <3> QED BY <1>3, <3>1 DEF Applied
  <2> QED BY <1>5, <2>1, <2>2, <2>3
<1>8. \A m \in RowNumbers : Sending(w, m) => m = n
  BY <1>5 DEF Sending
<1>9. ASSUME NEW v \in Workers \ {w}, NEW m \in RowNumbers, Sending(v, m), rows[m].key = rows[n].key
      PROVE  FALSE
  <2>1. /\ m \in batch[v] /\ m \in Pending /\ m \notin done[v] /\ phase[v] = "sending"
        /\ ~Deferred(v, m) /\ m \in Unsettled
    BY <1>1, <1>9 DEF Sending, ToSend, WorkerInv, Batched, Pending, RowsIn, Unsettled
  <2>2. batch[w] \cap batch[v] = {}
    BY DEF OrderInv, BatchInv, Apart
  <2>3. CASE m < n
    <3>1. m \in older[w]
      BY <1>1, <1>2, <1>9, <2>1, <2>2, <2>3 DEF WorkerInv, KnowsOlder
    <3> QED BY <1>2, <1>9, <2>3, <3>1 DEF Deferred
  <2>4. CASE n < m
    <3>1. n \in older[v]
      BY <1>1, <1>2, <1>3, <1>9, <2>1, <2>2, <2>4 DEF WorkerInv, KnowsOlder
    <3> QED BY <1>9, <2>1, <2>4, <3>1 DEF Deferred
  <2>5. CASE m = n
    BY <1>2, <2>1, <2>2, <2>5
  <2> QED BY <1>5, <2>3, <2>4, <2>5
<1> QED BY <1>2, <1>3, <1>4, <1>6, <1>7, <1>8, <1>9

\* What the store shows after a call: nothing of another key changes, and a tuple of the
\* key is that of the row that was sent or of a later one.
LEMMA CallStore ==
    ASSUME TypeOK, OrderInv, NEW w \in Workers, NEW n \in RowNumbers, Sending(w, n)
    PROVE  /\ \A k \in Keys : k # rows[n].key => Called(w, n)[k] = store[k]
           /\ Deleting(w, n) => Called(w, n)[rows[n].key] = Absent
           /\ Called(w, n)[rows[n].key] # Absent =>
                \E p \in Written : /\ rows[p].key = rows[n].key /\ rows[p].value = Called(w, n)[rows[n].key]
                                   /\ n <= p
                                   /\ \A q \in Applied : rows[q].key = rows[n].key => q <= p
<1> DEFINE k == rows[n].key
<1>1. /\ n \in batch[w] /\ n \in Written /\ n \in RowsSoFar /\ k \in Keys
      /\ \A m \in Unsettled : m < n /\ rows[m].key = k => m \in done[w]
      /\ \A q \in Applied : rows[q].key = k => q < n
      /\ \A m \in RowNumbers : Sending(w, m) => m = n
  BY SendFacts
<1>2. /\ \A j \in Keys : j # k => Called(w, n)[j] = store[j]
      /\ Called(w, n)[k] = IF Deleting(w, n) THEN Absent
                           ELSE IF store[k] = Absent THEN rows[n].value ELSE store[k]
  BY <1>1 DEF Called, TypeOK
<1>3. \A m \in RowNumbers : m \in Nat
  BY DEF RowNumbers
<1>4. Applied \subseteq RowNumbers
  BY DEF Applied, RowsIn, TypeOK
<1>5. ASSUME ~Deleting(w, n), store[k] = Absent
      PROVE  /\ Called(w, n)[k] = rows[n].value
             /\ \A q \in Applied : rows[q].key = k => q <= n
  BY <1>1, <1>2, <1>3, <1>4, <1>5
<1>6. ASSUME ~Deleting(w, n), store[k] # Absent
      PROVE  \E p \in Written : /\ rows[p].key = k /\ rows[p].value = store[k] /\ n <= p
                                /\ \A q \in Applied : rows[q].key = k => q <= p
  <2>1. PICK p \in Written : /\ rows[p].key = k /\ rows[p].value = store[k]
                             /\ \A q \in Applied : rows[q].key = k => q <= p
    BY <1>1, <1>6 DEF OrderInv, StoreInv, Shown
  <2>2. rows[n].kind = "share"
    <3>1. half[w] => store[k] = Absent
      BY <1>1 DEF OrderInv, StoreInv, Replacing
    <3>2. rows[n].kind \in Kinds
      BY <1>1, RowTyped
    <3> QED BY <1>6, <3>1, <3>2 DEF Deleting, DeletesFirst, Kinds
  <2>3. p \in RowNumbers /\ p \in RowsSoFar
    BY WrittenRows DEF OrderInv, Written
  <2>4. ASSUME p < n PROVE FALSE
    <3>1. PICK r \in Written : rows[r].key = k /\ rows[r].kind = "revoke" /\ p <= r /\ r < n
      BY <1>1, <2>1, <2>2, <2>4 DEF OrderInv, HistoryInv
    <3>2. r \in RowsIn("processed") \/ r \in Unsettled
      BY DEF Written, RowsIn, Unsettled
    <3>3. r \in Applied
      BY <1>1, <3>1, <3>2 DEF Applied
    <3>4. r \in RowsSoFar /\ r \in RowNumbers
      BY WrittenRows DEF OrderInv, Written
    <3>5. r = p
      BY <1>3, <2>1, <2>3, <3>1, <3>3, <3>4
    <3> QED BY <1>6, <2>1, <3>1, <3>4, <3>5 DEF OrderInv, RowInv
  <2>5. n <= p
    BY <1>3, <2>3, <2>4
  <2> QED BY <2>1, <2>5
<1> QED BY <1>1, <1>2, <1>3, <1>5, <1>6

\* The call of a worker, whether it is taken and confirmed or raises, keeps the invariant.
LEMMA CallKeeps ==
    ASSUME TypeOK, OrderInv, NEW w \in Workers, NEW n \in RowNumbers,
           CallOk(w, n) \/ CallFails(w, n)
    PROVE  OrderInv' /\ (CoverInv => CoverInv')
<1> DEFINE k == rows[n].key
<1>1. Sending(w, n) /\ phase[w] = "sending"
  BY DEF CallOk, CallFails, Sending
<1>2. /\ n \in batch[w] /\ n \in Written /\ n \notin done[w] /\ n \notin failed[w] /\ k \in Keys
      /\ \A m \in Unsettled : m < n /\ rows[m].key = k => m \in done[w]
      /\ \A v \in Workers \ {w}, m \in RowNumbers : Sending(v, m) => rows[m].key # k
      /\ \A m \in RowNumbers : Sending(w, m) => m = n
  BY <1>1, SendFacts
<1>3. /\ UNCHANGED Records /\ markers' = markers /\ rows' = rows
      /\ UNCHANGED <<phase, batch, older, landed, held, closing>>
      /\ store' = store \/ store' = Called(w, n)
  BY DEF CallOk, CallFails, Records, recordVars, rowVars
<1>4. \A v \in Workers \ {w} : half'[v] = half[v] /\ done'[v] = done[v] /\ failed'[v] = failed[v]
  BY DEF CallOk, CallFails, TypeOK
<1>5. \/ /\ half'[w] = TRUE /\ done' = done /\ failed' = failed
         /\ store' = Called(w, n) /\ Deleting(w, n) /\ rows[n].kind = "change"
      \/ half'[w] = FALSE /\ done'[w] = done[w] \cup {n} /\ failed' = failed /\ store' = Called(w, n)
      \/ half'[w] = FALSE /\ done' = done /\ failed'[w] = failed[w] \cup {n}
  BY DEF CallOk, CallFails, TypeOK
<1>6. \A v \in Workers \ {w} : UNCHANGED Locals(v)
  BY <1>3, <1>4 DEF Locals
<1>7. WorkerInv(w)
  BY DEF OrderInv, BatchInv, WorkerInv
<1>8. WorkerInv(w)'
  <2>1. Batched(w)'
    BY <1>1, <1>2, <1>3, <1>5, <1>7, RecordsKept DEF WorkerInv, Batched, Records
  <2>2. AppliedInOrder(w)'
    BY <1>2, <1>3, <1>5, <1>7, RecordsKept DEF WorkerInv, AppliedInOrder
  <2>3. KnowsOlder(w)'
    BY <1>3, <1>7, RecordsKept DEF WorkerInv, KnowsOlder
  <2> QED BY <2>1, <2>2, <2>3 DEF WorkerInv
<1>9. BatchInv'
  <2>1. \A v \in Workers : WorkerInv(v)'
    BY <1>3, <1>6, <1>8, OthersKept
  <2> QED BY <1>3, <2>1 DEF OrderInv, BatchInv, WorkerInv, Apart
<1>10. Applied' \subseteq Applied \cup {n} /\ (store' # Called(w, n) => Applied' = Applied)
  <2>1. \A v \in Workers : done'[v] = done[v] \/ (done'[v] = done[v] \cup {n} /\ store' = Called(w, n))
    BY <1>4, <1>5
  <2>2. RowsIn("processed")' = RowsIn("processed")
    BY <1>3, RecordsKept
  <2>3. Applied' \subseteq Applied \cup {n}
    BY <2>1, <2>2 DEF Applied
  <2>4. ASSUME store' # Called(w, n) PROVE Applied' = Applied
    <3>1. \A v \in Workers : done'[v] = done[v]
      BY <2>1, <2>4
    <3> QED BY <2>2, <3>1 DEF Applied
  <2> QED BY <2>3, <2>4
<1>11. ASSUME NEW j \in Keys PROVE Shown(j)'
  <2>1. CASE store' = Called(w, n) /\ j = k
    <3> SUFFICES ASSUME Called(w, n)[k] # Absent
                 PROVE  \E p \in Written : /\ rows[p].key = k /\ rows[p].value = Called(w, n)[k]
                                           /\ \A q \in Applied' : rows[q].key = k => q <= p
      BY <1>3, <2>1, RecordsKept DEF Shown
    <3> QED BY <1>1, <1>10, CallStore
  <2>2. CASE store' = Called(w, n) /\ j # k
    <3>1. store'[j] = store[j]
      BY <1>1, <2>2, CallStore
    <3>2. \A q \in Applied' : rows[q].key = j => q \in Applied
      BY <1>10, <2>2
    <3> QED BY <1>3, <3>1, <3>2, RecordsKept DEF OrderInv, StoreInv, Shown
  <2>3. CASE store' = store /\ store' # Called(w, n)
    BY <1>3, <1>10, <2>3, RecordsKept DEF OrderInv, StoreInv, Shown
  <2> QED BY <1>3, <2>1, <2>2, <2>3
<1>12. ASSUME NEW v \in Workers, half'[v]
       PROVE  \E m \in RowNumbers : Sending(v, m)' /\ rows[m].kind = "change" /\ store'[rows[m].key] = Absent
  <2>1. CASE v = w
    <3>1. /\ done' = done /\ failed' = failed /\ rows[n].kind = "change"
          /\ store' = Called(w, n) /\ Deleting(w, n)
      BY <1>5, <1>12, <2>1
    <3>2. Sending(w, n)'
      BY <1>1, <1>3, <1>7, <3>1, SendingSame DEF WorkerInv
    <3>3. store'[k] = Absent
      BY <1>1, <3>1, CallStore
    <3> QED BY <2>1, <3>1, <3>2, <3>3
  <2>2. CASE v # w
    <3>1. PICK m \in RowNumbers : Sending(v, m) /\ rows[m].kind = "change" /\ store[rows[m].key] = Absent
      BY <1>4, <1>12, <2>2 DEF OrderInv, StoreInv, Replacing
    <3>2. Sending(v, m)'
      BY <1>3, <1>6, <2>2, <3>1, OthersKept
    <3>3. rows[m].key # k /\ rows[m].key \in Keys
      BY <1>2, <2>2, <3>1, SendFacts
    <3>4. store'[rows[m].key] = store[rows[m].key]
      BY <1>1, <1>3, <3>3, CallStore
    <3> QED BY <3>1, <3>2, <3>4
  <2> QED BY <2>1, <2>2
<1>13. StoreInv'
  BY <1>3, <1>11, <1>12 DEF StoreInv, Replacing
<1>14. CoverInv => CoverInv'
  <2>1. \A v \in Workers : done[v] \subseteq done'[v]
    BY <1>4, <1>5
  <2> QED BY <1>3, <2>1, RecordsKept DEF CoverInv, Records
<1> QED BY <1>3, <1>9, <1>13, <1>14, RecordsKept DEF OrderInv

-----------------------------------------------------------------------------
(* The commit of a worker *)

\* The commit settles what was applied in its order, ends the revocations that are gone
\* from the queue and lifts the markers whose rows are processed.
LEMMA CommitBatchKeeps ==
    ASSUME TypeOK, OrderInv, NEW w \in Workers, CommitBatch(w)
    PROVE  OrderInv' /\ (CoverInv => CoverInv')
<1>1. /\ rows' = rows /\ RowsSoFar' = RowsSoFar /\ store' = store /\ desired' = desired
      /\ \A m \in RowNumbers : rowState'[m] = IF m \in done[w] THEN "processed" ELSE rowState[m]
      /\ \A g \in RowNumbers : grantState'[g] = IF g \in held[w] THEN "revoked" ELSE grantState[g]
      /\ markers' = markers \ closing[w]
      /\ phase'[w] = "idle" /\ batch'[w] = {} /\ older'[w] = {} /\ done'[w] = {} /\ failed'[w] = {}
      /\ half'[w] = FALSE /\ landed'[w] = {} /\ held'[w] = {} /\ closing'[w] = {}
  BY DEF CommitBatch, Idle, TypeOK, RowsSoFar
<1>2. \A v \in Workers \ {w} :
         /\ phase'[v] = phase[v] /\ batch'[v] = batch[v] /\ older'[v] = older[v] /\ done'[v] = done[v]
         /\ failed'[v] = failed[v] /\ half'[v] = half[v] /\ landed'[v] = landed[v]
         /\ held'[v] = held[v] /\ closing'[v] = closing[v]
  BY DEF CommitBatch, Idle, TypeOK
<1>3. WorkerInv(w) /\ done[w] \subseteq Pending /\ \A g \in held[w] : grantState[g] = "revoking"
  BY DEF OrderInv, BatchInv, WorkerInv, Batched
<1>4. /\ Written' = Written /\ Pending' = Pending \ done[w] /\ Unsettled' = Unsettled \ done[w]
      /\ RowsIn("open")' = RowsIn("open") /\ RowsIn("processed")' = RowsIn("processed") \cup done[w]
  BY <1>1, <1>3 DEF Written, Pending, Unsettled, RowsIn
<1>5. \A m \in RowNumbers : ActiveOf(rows[m].key)' = ActiveOf(rows[m].key)
  BY <1>1, <1>3 DEF ActiveOf
<1>6. RowInv'
  <2>1. \A m \in Written : rows[m].grant \in RowNumbers
    BY WrittenRows, RowTyped DEF OrderInv
  <2>2. \A m \in RowNumbers : (rowState[m] # "none")' <=> m \in RowsSoFar'
    BY <1>1, <1>3 DEF OrderInv, RowInv, Pending, RowsIn
  <2> QED BY <1>1, <1>3, <1>4, <2>1, <2>2 DEF OrderInv, RowInv
<1>7. OpenInv'
  <2> SUFFICES ASSUME NEW m \in RowsIn("open")
               PROVE  /\ \A s \in RowsSoFar : rows[s].key = rows[m].key => s <= m
                      /\ rows[m].kind = "share" => ActiveOf(rows[m].key)' = {} /\ grantState'[m] = "none"
                      /\ rows[m].kind # "share" => grantState'[rows[m].grant] = "active"
    BY <1>1, <1>4 DEF OpenInv
  <2>1. m \in RowNumbers /\ rows[m].grant \in RowNumbers
    BY OpenGrant DEF OrderInv
  <2> QED BY <1>1, <1>3, <1>5, <2>1 DEF OrderInv, OpenInv
<1>8. HistoryInv'
  <2>1. Written \subseteq RowNumbers /\ \A m \in Written : rows[m].grant \in RowNumbers
    BY WrittenRows, RowTyped DEF OrderInv
  <2>2. \A g \in RowNumbers : /\ grantState[g] \in {"revoking", "revoked"} => grantState'[g] \in {"revoking", "revoked"}
                              /\ grantState'[g] = "revoking" => grantState[g] = "revoking"
    BY <1>1
  <2> QED BY <1>1, <1>4, <1>5, <2>1, <2>2 DEF OrderInv, HistoryInv
<1>9. ASSUME NEW v \in Workers PROVE WorkerInv(v)'
  <2>1. CASE v = w
    BY <1>1, <2>1 DEF WorkerInv, Batched, AppliedInOrder, KnowsOlder
  <2>2. CASE v # w
    <3>1. WorkerInv(v) /\ Apart(v, w)
      BY <2>2 DEF OrderInv, BatchInv, WorkerInv
    <3>2. held[v] \subseteq RowNumbers /\ done[w] \subseteq batch[w]
      BY <1>3 DEF TypeOK, WorkerInv, Batched
    <3>3. Batched(v)'
      BY <1>1, <1>2, <1>4, <2>2, <3>1, <3>2 DEF WorkerInv, Batched, Apart
    <3> QED BY <1>1, <1>2, <1>4, <2>2, <3>1, <3>3 DEF WorkerInv, AppliedInOrder, KnowsOlder
  <2> QED BY <2>1, <2>2
<1>10. BatchInv'
  BY <1>1, <1>2, <1>9 DEF OrderInv, BatchInv, WorkerInv, Apart
<1>11. StoreInv'
  <2>1. Applied' \subseteq Applied
    <3>1. \A v \in Workers : done'[v] \subseteq done[v]
      BY <1>1, <1>2
    <3> QED BY <1>4, <3>1 DEF Applied
  <2>2. \A j \in Keys : Shown(j)'
    BY <1>1, <1>4, <2>1 DEF OrderInv, StoreInv, Shown
  <2>3. ASSUME NEW v \in Workers PROVE Replacing(v)'
    <3>1. CASE v = w
      BY <1>1, <3>1 DEF Replacing
    <3>2. CASE v # w
      <4>1. \A m : Sending(v, m)' = Sending(v, m)
        BY <1>1, <1>2, <3>2, SendingSame DEF OrderInv, BatchInv
      <4> QED BY <1>1, <1>2, <3>2, <4>1 DEF OrderInv, StoreInv, Replacing
    <3> QED BY <3>1, <3>2
  <2> QED BY <2>2, <2>3 DEF StoreInv
<1>12. SettleOrder'
  BY <1>1, <1>3, <1>4 DEF OrderInv, SettleOrder, WorkerInv, AppliedInOrder
<1>13. ASSUME CoverInv PROVE CoverInv'
  <2>1. ASSUME NEW v \in Workers, NEW n \in Pending'
        PROVE  /\ rows[n].grant \in landed'[v] /\ rows[n].kind # "change" => n \in done'[v]
               /\ rows[n].grant \in held'[v] => n \in done'[v]
               /\ n \in closing'[v] => n \in done'[v]
    BY <1>1, <1>2, <1>4, <1>13 DEF CoverInv
  <2>2. ASSUME NEW n \in Pending'
        PROVE  grantState'[rows[n].grant] # "revoked" /\ (rows[n].kind # "share" => n \in markers')
    <3>1. n \in Pending /\ n \notin done[w] /\ n \in RowsSoFar
      BY <1>4, WrittenRows DEF OrderInv
    <3>2. rows[n].grant \in RowNumbers /\ rows[n].grant \notin held[w] /\ n \notin closing[w]
      BY <1>13, <3>1, RowTyped DEF CoverInv
    <3> QED BY <1>1, <1>13, <3>1, <3>2 DEF CoverInv
  <2>3. ASSUME NEW v \in Workers
        PROVE  (\A g \in landed'[v] : grantState'[g] # "none") /\ closing'[v] \subseteq Written'
    <3>1. landed[v] \subseteq RowNumbers
      BY DEF TypeOK
    <3> QED BY <1>1, <1>2, <1>4, <1>13, <3>1 DEF CoverInv
  <2>4. markers' \subseteq Written'
    BY <1>1, <1>4, <1>13 DEF CoverInv
  <2> QED BY <1>1, <2>1, <2>2, <2>3, <2>4 DEF CoverInv
<1> QED BY <1>6, <1>7, <1>8, <1>10, <1>11, <1>12, <1>13 DEF OrderInv

-----------------------------------------------------------------------------
(* The theorems *)

\* The pairs that start shared satisfy the whole invariant.
LEMMA InvInit == Init => TypeOK /\ OrderInv /\ CoverInv
<1> SUFFICES ASSUME Init PROVE TypeOK /\ OrderInv /\ CoverInv
  OBVIOUS
<1>1. TypeOK
  BY TypeInit
<1>2. PICK granted \in Starts :
        /\ rowState = [n \in RowNumbers |->
              IF n \in granted THEN "processed" ELSE IF n \in Keys THEN "void" ELSE "none"]
        /\ desired = [k \in Keys |-> IF k \in granted THEN "wide" ELSE Absent]
  BY DEF Init
<1>3. granted \subseteq Keys /\ Keys \subseteq RowNumbers /\ \A n \in RowNumbers : n \in Nat
  BY StartsAssumption, BoundAssumption DEF Keys, RowNumbers
<1>4. RowsSoFar = Keys
  BY BoundAssumption DEF Init, Keys, RowsSoFar
<1>5. \A n \in Keys : rows[n].key = n /\ rows[n].kind = "share" /\ rows[n].value = "wide" /\ rows[n].grant = n
  BY DEF Init
<1>6. /\ Written = granted /\ Pending = {} /\ Unsettled = {} /\ RowsIn("open") = {}
      /\ RowsIn("processed") = granted
  BY <1>2, <1>3 DEF Written, Pending, Unsettled, RowsIn
<1>7. \A g \in RowNumbers : grantState[g] = IF g \in granted THEN "active" ELSE "none"
  BY <1>2 DEF Init
<1>8. RowInv
  BY <1>2, <1>3, <1>4, <1>5, <1>6, <1>7, ValuesAssumption DEF RowInv
<1>9. OpenInv
  BY <1>6 DEF OpenInv
<1>10. HistoryInv
  <2>1. \A p \in granted : p \in ActiveOf(rows[p].key)
    BY <1>3, <1>5, <1>7 DEF ActiveOf
  <2>2. \A p \in granted : rows[p].value = desired[rows[p].key]
    BY <1>2, <1>3, <1>5
  <2> QED BY <1>3, <1>5, <1>6, <1>7, <2>1, <2>2 DEF HistoryInv
<1>11. BatchInv
  BY DEF Init, BatchInv, Batched, AppliedInOrder, KnowsOlder, Apart
<1>12. StoreInv
  <2>1. Applied \subseteq granted
    BY <1>6 DEF Applied, Init
  <2>2. ASSUME NEW k \in Keys, store[k] # Absent PROVE k \in granted /\ store[k] = "wide"
    BY <1>2, <2>2 DEF Init
  <2>3. \A k \in Keys : Shown(k)
    BY <1>3, <1>5, <1>6, <2>1, <2>2 DEF Shown
  <2>4. \A w \in Workers : Replacing(w)
    BY DEF Init, Replacing
  <2> QED BY <2>3, <2>4 DEF StoreInv
<1>13. SettleOrder
  BY <1>6 DEF SettleOrder
<1>14. CoverInv
  BY <1>6 DEF Init, CoverInv
<1> QED BY <1>1, <1>8, <1>9, <1>10, <1>11, <1>12, <1>13, <1>14 DEF OrderInv

\* Every step keeps the invariant; only a commit of a revocation between the two
\* statements of complete_sources could break the part about grants and markers.
LEMMA InvStep ==
    ASSUME TypeOK, OrderInv, [Next]_vars
    PROVE  OrderInv' /\ (~CommitBetween /\ CoverInv => CoverInv')
<1> DEFINE Kept == OrderInv' /\ (~CommitBetween /\ CoverInv => CoverInv')
<1>1. ASSUME UNCHANGED <<rows, rowState, recordVars, store, workerVars>> PROVE Kept
  BY <1>1, IdleStepKeeps
<1>2. CASE UNCHANGED vars
  BY <1>1, <1>2 DEF vars, rowVars
<1>3. ASSUME NEW k \in Keys, NEW kind \in Kinds, NEW v \in Values \cup {Absent}, Enqueue(k, kind, v)
      PROVE  Kept
  BY <1>3, EnqueueKeeps
<1>4. ASSUME NEW n \in RowNumbers, CommitChange(n) \/ RollbackChange(n) \/ BackedOff(n) PROVE Kept
  <2>1. CASE CommitChange(n)
    BY <2>1, CommitKeeps
  <2>2. CASE RollbackChange(n)
    BY <2>2, RollbackKeeps
  <2>3. CASE BackedOff(n)
    BY <1>1, <2>3 DEF BackedOff
  <2> QED BY <1>4, <2>1, <2>2, <2>3
<1>5. ASSUME NEW w \in Workers, NEW n \in RowNumbers, ApplyNow(w, n) PROVE Kept
  <2>1. CASE n \in Takeable
    <3>1. {n} \in SUBSET Takeable /\ Take(w, {n})
      BY <1>5, <2>1 DEF ApplyNow
    <3> QED BY <3>1, TakeKeeps
  <2>2. CASE n \notin Takeable
    BY <1>1, <1>5, <2>2 DEF ApplyNow
  <2> QED BY <2>1, <2>2
<1>6. ASSUME NEW w \in Workers, Step(w) \/ Abort(w) PROVE Kept
  <2>1. CASE Drain(w)
    <3>1. {n \in Takeable : Cardinality({m \in Takeable : m < n}) < BatchLimit} \in SUBSET Takeable
      OBVIOUS
    <3> QED BY <2>1, <3>1, TakeKeeps DEF Drain
  <2>2. CASE ReadOlder(w)
    BY <2>2, ReadOlderKeeps
  <2>3. CASE ReadLanded(w)
    BY <2>3, ReadLandedKeeps
  <2>4. CASE LockFinished(w)
    BY <2>4, LockFinishedKeeps
  <2>5. CASE ChooseMarkers(w)
    BY <2>5, ChooseMarkersKeeps
  <2>6. CASE CommitBatch(w)
    BY <2>6, CommitBatchKeeps
  <2>7. CASE Abort(w)
    BY <2>7, AbortKeeps
  <2>8. ASSUME NEW n \in RowNumbers, CallOk(w, n) \/ CallFails(w, n) PROVE Kept
    BY <2>8, CallKeeps
  <2> QED BY <1>6, <2>1, <2>2, <2>3, <2>4, <2>5, <2>6, <2>7, <2>8 DEF Step
<1> QED BY <1>2, <1>3, <1>4, <1>5, <1>6 DEF Next

\* The inductive invariant of the queue: rows, grants, batches and the store, whatever
\* workers and writers fail, crash or overlap.
THEOREM OutboxInvHolds == Spec => [](TypeOK /\ OrderInv)
<1>1. Init => TypeOK /\ OrderInv
  BY InvInit
<1>2. TypeOK /\ OrderInv /\ [Next]_vars => (TypeOK /\ OrderInv)'
  BY InvStep, TypeStep DEF OrderInv
<1> QED BY <1>1, <1>2, PTL DEF Spec

\* The columns of authz_outbox, resource_grants and authz_revocations, and the locals of
\* process_outbox, keep the values their code writes.
THEOREM OutboxTypeCorrect == Spec => []TypeOK
BY OutboxInvHolds, PTL

\* No row of a key is processed before an older one of it is settled, however many workers
\* drain, apply, fail or are cut off (_due, _older_pending and _apply).
THEOREM SettledInOrder == Spec => []RowsSettleInOrder
<1>1. OrderInv => RowsSettleInOrder
  <2> SUFFICES ASSUME OrderInv, NEW m \in RowNumbers, NEW n \in RowNumbers, m < n,
                      rowState[n] = "processed", rowState[m] \in {"open", "pending"}
               PROVE  rows[m].key # rows[n].key
    BY DEF RowsSettleInOrder
  <2> QED BY DEF OrderInv, SettleOrder, Unsettled, RowsIn
<1> QED BY <1>1, OutboxInvHolds, PTL

\* The part about landed grants and markers, unless a revocation commits between _landed
\* and the lock of the grants.
LEMMA CoverHolds == ASSUME ~CommitBetween PROVE Spec => [](TypeOK /\ OrderInv /\ CoverInv)
<1>1. Init => TypeOK /\ OrderInv /\ CoverInv
  BY InvInit
<1>2. TypeOK /\ OrderInv /\ CoverInv /\ [Next]_vars => (TypeOK /\ OrderInv /\ CoverInv)'
  BY InvStep, TypeStep DEF OrderInv
<1> QED BY <1>1, <1>2, PTL DEF Spec

\* complete_revocations writes a grant as revoked only when its rows have left the queue.
THEOREM RevokedHasLanded == ASSUME ~CommitBetween PROVE Spec => []RevokedIsGone
<1>1. OrderInv /\ CoverInv => RevokedIsGone
  BY DEF CoverInv, RevokedIsGone, Pending, RowsIn
<1> QED BY <1>1, CoverHolds, PTL

\* While the store allows a principal more than the grants do, a marker of the pair denies
\* it (authz/revocations.py): the tuple that is left is older than some row that was not
\* processed, and the marker of that row is still there.
THEOREM OverlayHolds == ASSUME ~CommitBetween PROVE Spec => []OverlayCovers
<1>1. TypeOK /\ OrderInv /\ CoverInv => OverlayCovers
  <2> SUFFICES ASSUME TypeOK, OrderInv, CoverInv, NEW k \in Keys, Exceeds(k) PROVE markers # {}
    BY DEF OverlayCovers
  <2>1. store[k] # Absent /\ store[k] # desired[k]
    BY ValuesAssumption DEF Exceeds
  <2>2. PICK p \in Written : /\ rows[p].key = k /\ rows[p].value = store[k]
                             /\ \A q \in Applied : rows[q].key = k => q <= p
    BY <2>1 DEF OrderInv, StoreInv, Shown
  <2>3. rows[p].kind # "revoke"
    BY <2>1, <2>2, WrittenRows DEF OrderInv, RowInv
  <2>4. PICK q \in Written : rows[q].key = k /\ rows[q].kind # "share" /\ p < q
    BY <2>1, <2>2, <2>3 DEF OrderInv, HistoryInv
  <2>5. q \notin RowsIn("processed")
    <3>1. p \in Nat /\ q \in Nat
      BY DEF Written, RowNumbers
    <3> QED BY <2>2, <2>4, <3>1 DEF Applied
  <2>6. q \in Pending
    BY <2>5 DEF Written, Pending, RowsIn
  <2> QED BY <2>4, <2>6 DEF CoverInv
<1> QED BY <1>1, CoverHolds, PTL

=============================================================================
