-------------------------- MODULE ProjectionOutbox --------------------------
(***************************************************************************)
(* The transactional projection queue of the authorization tuples          *)
(* (authz/outbox.py), the grants that feed it (authz/grants.py,            *)
(* grant_projection.py), the completion of revocations                     *)
(* (authz/grant_completion.py) and the deny markers (authz/revocations.py).*)
(*                                                                         *)
(* One principal and one object: a tuple key is one relation between them, *)
(* and every marker here is of that pair.  A change of a grant is a        *)
(* transaction that takes its place in the queue (seq) and commits or      *)
(* rolls back later.  A worker (the drain of the leader job, or the        *)
(* request that applies its own row right after commit) runs               *)
(* process_outbox: each SQL statement and each call of the store is one    *)
(* step, under READ COMMITTED.  A row number is its seq; a grant and a     *)
(* marker have the number of the row that created them.                    *)
(***************************************************************************)
EXTENDS Naturals, FiniteSets, Sequences

CONSTANTS
    NumKeys,            \* how many tuple keys the pair has
    Values,             \* conditions of a tuple: "wide" allows more than "narrow"
    Absent,             \* no tuple under the key
    Starts,             \* the sets of keys that may be granted, "wide", when the model begins
    Workers,            \* concurrent runs of process_outbox
    MaxRows,            \* bound: changes of grants
    BatchLimit,         \* limit of a drain (MAX_BATCH)
    MaxAborts,          \* bound: transactions of workers that are cut off
    CompletionMayFail,  \* whether complete_sources may raise
    CommitBetween       \* whether a revocation may commit between _landed and the lock of the grants

Keys == 1 .. NumKeys

ASSUME ValuesAssumption == Values = {"wide", "narrow"} /\ Absent \notin Values
ASSUME BoundAssumption ==
    /\ NumKeys \in Nat /\ MaxRows \in Nat /\ NumKeys <= MaxRows
    /\ BatchLimit \in Nat \ {0} /\ MaxAborts \in Nat
ASSUME StartsAssumption == Starts \subseteq SUBSET Keys
ASSUME SwitchAssumption == CompletionMayFail \in BOOLEAN /\ CommitBetween \in BOOLEAN

VARIABLES
    \* authz_outbox: the rows by seq, their state, the ones whose next_attempt_at has passed,
    \* and the ones whose request has still to apply them
    rows, rowState, due, requests,
    \* resource_grants: state of a grant, and what the active grant of a key projects
    grantState, desired,
    \* authz_revocations: the markers not finalized
    markers,
    \* the grants an open transaction of a writer has locked, by row
    locks,
    \* the tuple store
    store,
    \* a run of process_outbox: where it is, its batch, the older rows it has read, the
    \* rows it has applied and the ones that failed, whether a replacement has deleted,
    \* the landed grants, the grants it holds locked, and the markers it finalizes
    phase, batch, older, done, failed, half, landed, held, closing,
    \* how many transactions of workers were cut off
    aborts

rowVars == <<rows, rowState, due, requests>>
recordVars == <<grantState, desired, markers>>
workerVars == <<phase, batch, older, done, failed, half, landed, held, closing>>
vars == <<rowVars, recordVars, locks, store, workerVars, aborts>>

RowNumbers == 1 .. MaxRows
Kinds == {"share", "change", "revoke"}
Row == [key : Keys, kind : Kinds, value : Values \cup {Absent}, grant : RowNumbers]
Phases == {"idle", "taken", "sending", "locking", "closing", "committing"}

\* Every column and every local of a worker has one of the values its code writes.
TypeOK ==
    /\ rows \in Seq(Row) /\ Len(rows) <= MaxRows
    /\ rowState \in [RowNumbers -> {"none", "open", "pending", "processed", "void"}]
    /\ due \subseteq RowNumbers
    /\ requests \subseteq RowNumbers
    /\ grantState \in [RowNumbers -> {"none", "active", "revoking", "revoked"}]
    /\ desired \in [Keys -> Values \cup {Absent}]
    /\ markers \subseteq RowNumbers
    /\ locks \in [RowNumbers -> SUBSET RowNumbers]
    /\ store \in [Keys -> Values \cup {Absent}]
    /\ phase \in [Workers -> Phases]
    /\ batch \in [Workers -> SUBSET RowNumbers]
    /\ older \in [Workers -> SUBSET RowNumbers]
    /\ done \in [Workers -> SUBSET RowNumbers]
    /\ failed \in [Workers -> SUBSET RowNumbers]
    /\ half \in [Workers -> BOOLEAN]
    /\ landed \in [Workers -> SUBSET RowNumbers]
    /\ held \in [Workers -> SUBSET RowNumbers]
    /\ closing \in [Workers -> SUBSET RowNumbers]
    /\ aborts \in 0 .. MaxAborts

\* The first rows shared each key once: the keys of some start were granted and have
\* landed, the transactions of the others were rolled back.
Init ==
    /\ rows = [n \in Keys |-> [key |-> n, kind |-> "share", value |-> "wide", grant |-> n]]
    /\ \E granted \in Starts :
        /\ rowState = [n \in RowNumbers |->
              IF n \in granted THEN "processed" ELSE IF n \in Keys THEN "void" ELSE "none"]
        /\ desired = [k \in Keys |-> IF k \in granted THEN "wide" ELSE Absent]
    /\ grantState = [n \in RowNumbers |-> IF rowState[n] = "processed" THEN "active" ELSE "none"]
    /\ due = {}
    /\ requests = {}
    /\ markers = {}
    /\ locks = [n \in RowNumbers |-> {}]
    /\ store = desired
    /\ phase = [w \in Workers |-> "idle"]
    /\ batch = [w \in Workers |-> {}]
    /\ older = [w \in Workers |-> {}]
    /\ done = [w \in Workers |-> {}]
    /\ failed = [w \in Workers |-> {}]
    /\ half = [w \in Workers |-> FALSE]
    /\ landed = [w \in Workers |-> {}]
    /\ held = [w \in Workers |-> {}]
    /\ closing = [w \in Workers |-> {}]
    /\ aborts = 0

-----------------------------------------------------------------------------
(* Queries *)

RowsIn(s) == {n \in RowNumbers : rowState[n] = s}
Pending == RowsIn("pending")
Live == {g \in RowNumbers : grantState[g] \in {"active", "revoking"}}
ActiveOf(k) == {g \in RowNumbers : grantState[g] = "active" /\ rows[g].key = k}

\* Grants some open transaction has locked FOR UPDATE.
LockedGrants == (UNION {locks[n] : n \in RowsIn("open")}) \cup (UNION {held[w] : w \in Workers})
\* Queue rows some worker has locked FOR UPDATE.
LockedRows == UNION {batch[w] : w \in Workers}

-----------------------------------------------------------------------------
(* Writers: GrantService.grant, GrantService._close *)

\* What a writer waits for before it inserts its queue row: the organization row that
\* record_revocation updates, the unique active grant of the key, and (lock_object) the
\* live grants of the object.
MayEnqueue(k, kind) ==
    /\ kind # "share" => \A n \in RowsIn("open") : rows[n].kind = "share"
    /\ kind = "share" => \A n \in RowsIn("open") : rows[n].key # k \/ rows[n].kind # "share"
    /\ Live \cap LockedGrants = {}

\* The transaction of a change up to its queue row.  A first grant of the key is a plain
\* write; a change of the active grant is a write that replaces; a revocation deletes.
Enqueue(k, kind, v) ==
    LET n == Len(rows) + 1 IN
    /\ n <= MaxRows
    /\ (kind = "share") <=> (ActiveOf(k) = {})
    /\ (kind = "revoke") <=> (v = Absent)
    /\ v # desired[k]
    /\ MayEnqueue(k, kind)
    /\ rows' = Append(rows, [key |-> k, kind |-> kind, value |-> v,
                             grant |-> IF kind = "share" THEN n ELSE CHOOSE g \in ActiveOf(k) : TRUE])
    /\ rowState' = [rowState EXCEPT ![n] = "open"]
    /\ locks' = [locks EXCEPT ![n] = Live]
    /\ UNCHANGED <<due, requests, recordVars, store, workerVars, aborts>>

\* The marker a change records (_record): none for a first grant.
MarkersOf(n) == IF rows[n].kind = "share" THEN {} ELSE {n}

\* Mutant of GrantAfter: the kind of the change is written as the state.
GrantAfterRaw(n) == rows[n].kind
\* The state the change gives to its grant.
GrantAfter(n) == IF rows[n].kind = "revoke" THEN "revoking" ELSE "active"

\* The transaction commits: grant, marker and queue row become visible together.
CommitChange(n) ==
    LET r == rows[n] IN
    /\ rowState[n] = "open"
    /\ (r.kind = "revoke" /\ ~CommitBetween) => \A w \in Workers : r.grant \notin landed[w]
    /\ rowState' = [rowState EXCEPT ![n] = "pending"]
    /\ due' = due \cup {n}
    /\ requests' = requests \cup {n}
    /\ grantState' = [grantState EXCEPT ![r.grant] = GrantAfter(n)]
    /\ desired' = [desired EXCEPT ![r.key] = r.value]
    /\ markers' = markers \cup MarkersOf(n)
    /\ locks' = [locks EXCEPT ![n] = {}]
    /\ UNCHANGED <<rows, store, workerVars, aborts>>

RollbackChange(n) ==
    /\ rowState[n] = "open"
    /\ rowState' = [rowState EXCEPT ![n] = "void"]
    /\ locks' = [locks EXCEPT ![n] = {}]
    /\ UNCHANGED <<rows, due, requests, recordVars, store, workerVars, aborts>>

-----------------------------------------------------------------------------
(* Workers: process_outbox *)

\* _due: the pending rows whose time has come and that nobody has locked.
Takeable == {n \in Pending : n \in due /\ n \notin LockedRows}

Take(w, chosen) ==
    /\ phase[w] = "idle"
    /\ chosen # {}
    /\ phase' = [phase EXCEPT ![w] = "taken"]
    /\ batch' = [batch EXCEPT ![w] = chosen]
    /\ UNCHANGED <<rows, rowState, due, recordVars, locks, store>>
    /\ UNCHANGED <<older, done, failed, half, landed, held, closing, aborts>>

\* drain_outbox: the lowest BatchLimit rows.
Drain(w) ==
    /\ Take(w, {n \in Takeable : Cardinality({m \in Takeable : m < n}) < BatchLimit})
    /\ UNCHANGED requests

\* apply_now: the row of the request's own change, once, as late as the request is.
ApplyNow(w, n) ==
    /\ n \in requests
    /\ requests' = requests \ {n}
    /\ IF n \in Takeable THEN Take(w, {n})
       ELSE phase[w] = "idle" /\ UNCHANGED <<rows, rowState, due, recordVars, locks, store, workerVars, aborts>>

\* Mutant of OlderPending: the rows another worker has locked are not read.
OlderPendingUnlocked(w) ==
    {n \in Takeable : \E m \in batch[w] : rows[m].key = rows[n].key}
\* _older_pending: the unprocessed rows outside the batch of a key in it.
OlderPending(w) ==
    {n \in Pending \ batch[w] : \E m \in batch[w] : rows[m].key = rows[n].key}

ReadOlder(w) ==
    /\ phase[w] = "taken"
    /\ phase' = [phase EXCEPT ![w] = "sending"]
    /\ older' = [older EXCEPT ![w] = OlderPending(w)]
    /\ UNCHANGED <<rowVars, recordVars, locks, store, batch, done, failed, half, landed, held, closing, aborts>>

\* Mutant of Deferred: a row without older rows is compared with itself.
DeferredAtSeq(w, n) ==
    \/ \E m \in older[w] : m <= n /\ rows[m].key = rows[n].key
    \/ \A m \in older[w] : rows[m].key # rows[n].key
\* A row waits for an older row of its key, outside the batch or failed in it.
Deferred(w, n) ==
    \/ \E m \in older[w] : m < n /\ rows[m].key = rows[n].key
    \/ \E m \in failed[w] : rows[m].key = rows[n].key

\* The rows of the batch _apply has still to send; it takes them in seq order.
ToSend(w) == {n \in batch[w] \ (done[w] \cup failed[w]) : ~Deferred(w, n)}
Sending(w, n) ==
    /\ phase[w] = "sending"
    /\ n \in ToSend(w)
    /\ \A m \in ToSend(w) : n <= m

\* Mutant of DeletesFirst: a replacing write does not delete the stored tuple.
DeletesFirstOnlyRevoke(n) == rows[n].kind = "revoke"
\* _send: a delete and a replacing write begin with a delete call.
DeletesFirst(n) == rows[n].kind \in {"revoke", "change"}

\* The call _send is about to make, and what it does to the store: a missing delete is
\* ignored, and so is the write of a tuple that is there, whatever its condition.
Deleting(w, n) == DeletesFirst(n) /\ ~half[w]
Called(w, n) ==
    [store EXCEPT ![rows[n].key] =
        IF Deleting(w, n) THEN Absent
        ELSE IF @ = Absent THEN rows[n].value ELSE @]

\* The call succeeds: a replacement goes on to its write, any other row is applied.
CallOk(w, n) ==
    /\ Sending(w, n)
    /\ store' = Called(w, n)
    /\ IF Deleting(w, n) /\ rows[n].kind = "change"
       THEN half' = [half EXCEPT ![w] = TRUE] /\ UNCHANGED done
       ELSE half' = [half EXCEPT ![w] = FALSE] /\ done' = [done EXCEPT ![w] = @ \cup {n}]
    /\ UNCHANGED <<rowVars, recordVars, locks, phase, batch, older, failed, landed, held, closing, aborts>>

\* The call raises, whether the store made the change or not; the row backs off.
CallFails(w, n) ==
    /\ Sending(w, n)
    /\ store' \in {store, Called(w, n)}
    /\ half' = [half EXCEPT ![w] = FALSE]
    /\ failed' = [failed EXCEPT ![w] = @ \cup {n}]
    /\ UNCHANGED <<rowVars, recordVars, locks, phase, batch, older, done, landed, held, closing, aborts>>

-----------------------------------------------------------------------------
(* Workers: complete_sources *)

\* Queue rows that are unprocessed as the transaction of w sees them.
PendingFor(w) == Pending \ done[w]
Sources(w) == {rows[n].grant : n \in {m \in done[w] : rows[m].kind \in {"share", "revoke"}}}

\* Mutant of Landed: one landed row of the grant is enough.
LandedAny(w) == Sources(w)
\* _landed: the grants among the sources with no unprocessed row of theirs.
Landed(w) ==
    {g \in Sources(w) : \A n \in PendingFor(w) : rows[n].kind = "change" \/ rows[n].grant # g}

ReadLanded(w) ==
    /\ phase[w] = "sending"
    /\ ToSend(w) = {}
    /\ phase' = [phase EXCEPT ![w] = "locking"]
    /\ landed' = [landed EXCEPT ![w] = Landed(w)]
    /\ older' = [older EXCEPT ![w] = {}]
    /\ UNCHANGED <<rowVars, recordVars, locks, store, batch, done, failed, half, held, closing, aborts>>

\* complete_revocations locks the landed grants that are revoking, and makes them revoked.
LockFinished(w) ==
    LET finished == {g \in landed[w] : grantState[g] = "revoking"} IN
    /\ phase[w] = "locking"
    /\ finished \cap LockedGrants = {}
    /\ phase' = [phase EXCEPT ![w] = "closing"]
    /\ landed' = [landed EXCEPT ![w] = {}]
    /\ held' = [held EXCEPT ![w] = finished]
    /\ UNCHANGED <<rowVars, recordVars, locks, store, batch, older, done, failed, half, closing, aborts>>

\* Mutant of PairMarkers: the pair is closed while other grants of it are revoking.
PairMarkersAlways(w) ==
    IF held[w] = {} THEN {}
    ELSE {m \in markers : rows[m].kind = "revoke" \/ m \notin PendingFor(w)}
\* _finalize_pair: the markers the last revocation of the pair closes.
PairMarkers(w) ==
    IF held[w] = {} \/ \E g \in RowNumbers \ held[w] : grantState[g] = "revoking" THEN {}
    ELSE {m \in markers : rows[m].kind = "revoke" \/ m \notin PendingFor(w)}

\* The markers of the narrowings that landed in this batch.
NarrowingMarkers(w) == {n \in done[w] : rows[n].kind = "change"}

\* The rest of complete_sources: it chooses the markers, or raises and is undone.
ChooseMarkers(w) ==
    /\ phase[w] = "closing"
    /\ phase' = [phase EXCEPT ![w] = "committing"]
    /\ \/ /\ closing' = [closing EXCEPT ![w] = PairMarkers(w) \cup NarrowingMarkers(w)]
          /\ UNCHANGED held
       \/ /\ CompletionMayFail
          /\ held' = [held EXCEPT ![w] = {}]
          /\ UNCHANGED closing
    /\ UNCHANGED <<rowVars, recordVars, locks, store, batch, older, done, failed, half, landed, aborts>>

Idle(w) ==
    /\ phase' = [phase EXCEPT ![w] = "idle"]
    /\ batch' = [batch EXCEPT ![w] = {}]
    /\ older' = [older EXCEPT ![w] = {}]
    /\ done' = [done EXCEPT ![w] = {}]
    /\ failed' = [failed EXCEPT ![w] = {}]
    /\ half' = [half EXCEPT ![w] = FALSE]
    /\ landed' = [landed EXCEPT ![w] = {}]
    /\ held' = [held EXCEPT ![w] = {}]
    /\ closing' = [closing EXCEPT ![w] = {}]

\* The commit: processed and backed off rows, revoked grants, finalized markers.
CommitBatch(w) ==
    /\ phase[w] = "committing"
    /\ rowState' = [n \in RowNumbers |-> IF n \in done[w] THEN "processed" ELSE rowState[n]]
    /\ due' = due \ (done[w] \cup failed[w])
    /\ grantState' = [g \in RowNumbers |-> IF g \in held[w] THEN "revoked" ELSE grantState[g]]
    /\ markers' = markers \ closing[w]
    /\ Idle(w)
    /\ UNCHANGED <<rows, requests, desired, locks, store, aborts>>

\* The process dies, the database fails or the 2 seconds of apply_now are over: nothing
\* of the transaction remains, and what the calls did to the store does.
Abort(w) ==
    /\ phase[w] # "idle"
    /\ aborts < MaxAborts
    /\ aborts' = aborts + 1
    /\ Idle(w)
    /\ UNCHANGED <<rowVars, recordVars, locks, store>>

\* The back-off of a failed row is over.
BackedOff(n) ==
    /\ n \in Pending \ due
    /\ due' = due \cup {n}
    /\ UNCHANGED <<rows, rowState, requests, recordVars, locks, store, workerVars, aborts>>

\* What process_outbox does from its first statement on, whatever the store answers.
Step(w) ==
    \/ Drain(w) \/ ReadOlder(w) \/ ReadLanded(w) \/ LockFinished(w) \/ ChooseMarkers(w) \/ CommitBatch(w)
    \/ \E n \in RowNumbers : CallOk(w, n) \/ CallFails(w, n)

Next ==
    \/ \E k \in Keys, kind \in Kinds, v \in Values \cup {Absent} : Enqueue(k, kind, v)
    \/ \E n \in RowNumbers : CommitChange(n) \/ RollbackChange(n) \/ BackedOff(n)
    \/ \E w \in Workers : Step(w) \/ Abort(w)
    \/ \E w \in Workers, n \in RowNumbers : ApplyNow(w, n)

Spec == Init /\ [][Next]_vars

\* A writer's transaction ends, a back-off is at most five minutes, the leader job runs
\* every few seconds and ends its batch, and the store does not
\* refuse every first call, nor every second call of a replacement.
FairSpec ==
    /\ Spec
    /\ WF_vars(\E n \in RowNumbers : CommitChange(n) \/ RollbackChange(n))
    /\ WF_vars(\E n \in RowNumbers : BackedOff(n))
    /\ \A w \in Workers : WF_vars(Step(w))
    /\ \A second \in BOOLEAN :
        SF_vars(\E w \in Workers, n \in RowNumbers : half[w] = second /\ CallOk(w, n))

-----------------------------------------------------------------------------
(* Properties *)

\* What the store allows under key k goes beyond what the active grant says.
Exceeds(k) ==
    /\ store[k] # Absent
    /\ desired[k] = Absent \/ (store[k] = "wide" /\ desired[k] = "narrow")

\* The deny overlay stays in force until every delete of the pair is confirmed: while
\* the store allows more than the grants, some marker of the pair refuses it.
OverlayCovers == (\E k \in Keys : Exceeds(k)) => markers # {}

\* Rows apply in seq order: a processed row of a key leaves no older row of it behind,
\* whichever workers failed, crashed or overlapped.
RowsSettleInOrder ==
    \A m, n \in RowNumbers :
        m < n /\ rowState[n] = "processed" /\ rowState[m] \in {"open", "pending"}
            => rows[m].key # rows[n].key

\* A grant becomes revoked only when nothing of it is left in the queue.
RevokedIsGone ==
    \A g \in RowNumbers : grantState[g] = "revoked" =>
        \A n \in RowNumbers : rowState[n] = "pending" => rows[n].grant # g

\* The queue implements the projection: the history of a key is what was committed for
\* it, in the order of the rows, and what has landed of it is the processed part.
CommittedOf(k) ==
    {n \in 1 .. Len(rows) : rows[n].key = k /\ rowState[n] \in {"pending", "processed"}}
Nth(S, i) == CHOOSE n \in S : Cardinality({m \in S : m <= n}) = i
Committed(k) ==
    [i \in 1 .. Cardinality(CommittedOf(k)) |-> rows[Nth(CommittedOf(k), i)].value]
LandedOf(k) == Cardinality({n \in RowsIn("processed") : rows[n].key = k})

History == [k \in Keys |-> Committed(k)]
LandedCounts == [k \in Keys |-> LandedOf(k)]

Store == INSTANCE TupleProjection WITH
    history <- History,
    landed <- LandedCounts,
    stored <- store

ImplementsProjection == Store!Projection

\* Every queue row is applied in the end: failures, crashes and the order of the rows
\* of a key delay it and never hold it back for ever.
EveryRowLands ==
    \A n \in NumKeys + 1 .. MaxRows : rowState[n] = "pending" ~> rowState[n] = "processed"
=============================================================================
