--------------------- MODULE ProjectionRefinement_proof ---------------------
(***************************************************************************)
(* The queue of ProjectionOutbox implements TupleProjection, for any       *)
(* number of keys, changes, workers and cut off transactions.              *)
(***************************************************************************)
EXTENDS ProjectionOutbox_proof, ListFacts

-----------------------------------------------------------------------------
(* The place of a number in a finite set *)

Rank(S, n) == Cardinality({m \in S : m <= n})

\* The members of a bounded set.
LEMMA Members ==
    ASSUME NEW N \in Nat, NEW S \in SUBSET (1 .. N)
    PROVE  \A m \in S : m \in Nat /\ 1 <= m /\ m <= N
<1> SUFFICES ASSUME NEW m \in S PROVE m \in Nat /\ 1 <= m /\ m <= N
  OBVIOUS
<1>1. m \in 1 .. N
  OBVIOUS
<1> QED BY <1>1

\* Parts of a bounded set have sizes that grow with them.
LEMMA Parts ==
    ASSUME NEW N \in Nat, NEW S \in SUBSET (1 .. N)
    PROVE  /\ IsFiniteSet(S) /\ Cardinality(S) \in Nat
           /\ \A T \in SUBSET S : /\ IsFiniteSet(T) /\ Cardinality(T) \in Nat
                                  /\ Cardinality(T) <= Cardinality(S)
                                  /\ Cardinality(T) = Cardinality(S) => T = S
<1>1. IsFiniteSet(1 .. N)
  BY FS_Interval
<1>2. IsFiniteSet(S)
  BY <1>1, FS_Subset
<1>3. \A T \in SUBSET S : /\ IsFiniteSet(T) /\ Cardinality(T) <= Cardinality(S)
                          /\ Cardinality(T) = Cardinality(S) => T = S
  BY <1>2, FS_Subset
<1> QED BY <1>2, <1>3, FS_CardinalityType

\* Ranks follow the order of the numbers.
LEMMA RankOrder ==
    ASSUME NEW N \in Nat, NEW S \in SUBSET (1 .. N)
    PROVE  /\ \A n \in S : Rank(S, n) \in 1 .. Cardinality(S)
           /\ \A m, n \in S : m < n => Rank(S, m) < Rank(S, n)
<1>0. IsFiniteSet(S) /\ Cardinality(S) \in Nat
  BY Parts
<1>1. ASSUME NEW n \in S PROVE Rank(S, n) \in 1 .. Cardinality(S)
  <2> DEFINE T == {m \in S : m <= n}
  <2>1. T \in SUBSET S /\ n \in T
    OBVIOUS
  <2>2. /\ IsFiniteSet(T) /\ Cardinality(T) \in Nat /\ Cardinality(T) <= Cardinality(S)
    BY <2>1, Parts
  <2>3. Cardinality(T) # 0
    BY <2>1, <2>2, FS_EmptySet
  <2> QED BY <1>0, <2>2, <2>3 DEF Rank
<1>2. ASSUME NEW m \in S, NEW n \in S, m < n PROVE Rank(S, m) < Rank(S, n)
  <2> DEFINE T == {x \in S : x <= n}
             U == {x \in S : x <= m}
  <2>1. T \in SUBSET (1 .. N) /\ U \in SUBSET T /\ n \in T /\ n \notin U
    <3>1. n \in Nat /\ m \in Nat /\ \A x \in S : x \in Nat
      BY Members
    <3>2. (\A x \in S : x <= m => x <= n) /\ n <= n /\ ~(n <= m)
      BY <1>2, <3>1
    <3> QED BY <3>2
  <2>2. /\ Cardinality(T) \in Nat /\ Cardinality(U) \in Nat /\ Cardinality(U) <= Cardinality(T)
        /\ Cardinality(U) = Cardinality(T) => U = T
    BY <2>1, Parts
  <2>3. Cardinality(U) # Cardinality(T)
    BY <2>1, <2>2
  <2> QED BY <2>2, <2>3 DEF Rank
<1> QED BY <1>1, <1>2

\* Every place of a set is taken.
LEMMA RankTaken ==
    ASSUME NEW N \in Nat, NEW S \in SUBSET (1 .. N), NEW i \in 1 .. Cardinality(S)
    PROVE  \E n \in S : Rank(S, n) = i
<1> DEFINE To(n) == {m \in S : m <= n}
           P == {n \in 0 .. N : Cardinality(To(n)) < i}
<1>0. Cardinality(S) \in Nat /\ i \in Nat /\ 1 <= i /\ i <= Cardinality(S)
  <2>1. Cardinality(S) \in Nat
    BY Parts
  <2> QED BY <2>1
<1>a. \A m \in S : m \in Nat /\ 1 <= m /\ m <= N
  BY Members
<1>1. \A n \in 0 .. N : IsFiniteSet(To(n)) /\ Cardinality(To(n)) \in Nat
  <2>1. \A n \in 0 .. N : To(n) \in SUBSET S
    OBVIOUS
  <2> QED BY <2>1, Parts
<1>2. 0 \in P
  <2>1. To(0) = {}
    <3>1. \A m \in S : ~(m <= 0)
      BY <1>a
    <3> QED BY <3>1
  <2> QED BY <1>0, <2>1, FS_EmptySet
<1>3. N \notin P
  <2>1. To(N) = S
    BY <1>a
  <2> QED BY <1>0, <2>1
<1>4. PICK n \in 1 .. N : n - 1 \in P /\ n \notin P
  <2>1. ~(\A n \in 1 .. N : n - 1 \in P => n \in P)
    <3> SUFFICES ASSUME \A n \in 1 .. N : n - 1 \in P => n \in P PROVE FALSE
      OBVIOUS
    <3>1. 0 .. N \subseteq P
      <4> HIDE DEF P
      <4> QED BY <1>2, Climb
    <3> QED BY <1>3, <3>1
  <2> QED BY <2>1
<1>5. n \in 0 .. N /\ n - 1 \in 0 .. N /\ n - 1 \in Nat
  OBVIOUS
<1>6. n \in S
  <2>1. n \notin S => To(n) = To(n - 1)
    <3>1. \A m \in S : m <= n <=> m <= n - 1 \/ m = n
      BY <1>a, <1>5
    <3> QED BY <3>1
  <2> QED BY <1>4, <1>5, <2>1
<1>7. Cardinality(To(n)) = Cardinality(To(n - 1)) + 1
  <2>1. To(n) = To(n - 1) \cup {n} /\ n \notin To(n - 1)
    <3>1. \A m \in S : m <= n <=> m <= n - 1 \/ m = n
      BY <1>a, <1>5
    <3>2. n <= n /\ ~(n <= n - 1)
      OBVIOUS
    <3> QED BY <1>6, <3>1, <3>2
  <2> QED BY <1>1, <1>5, <2>1, FS_AddElement
<1>8. Cardinality(To(n)) = i
  <2> HIDE DEF To
  <2> QED BY <1>0, <1>1, <1>4, <1>5, <1>7
<1> QED BY <1>6, <1>8 DEF Rank

\* Nth is the inverse of the rank.
LEMMA NthRank ==
    ASSUME NEW N \in Nat, NEW S \in SUBSET (1 .. N)
    PROVE  /\ \A i \in 1 .. Cardinality(S) : Nth(S, i) \in S /\ Rank(S, Nth(S, i)) = i
           /\ \A n \in S : Nth(S, Rank(S, n)) = n
<1>1. ASSUME NEW i \in 1 .. Cardinality(S) PROVE Nth(S, i) \in S /\ Rank(S, Nth(S, i)) = i
  <2>1. \E n \in S : Cardinality({m \in S : m <= n}) = i
    BY RankTaken DEF Rank
  <2> QED BY <2>1 DEF Nth, Rank
<1>2. ASSUME NEW n \in S PROVE Nth(S, Rank(S, n)) = n
  <2>1. Rank(S, n) \in 1 .. Cardinality(S)
    BY RankOrder
  <2>2. Nth(S, Rank(S, n)) \in S /\ Rank(S, Nth(S, Rank(S, n))) = Rank(S, n)
    BY <1>1, <2>1
  <2>3. n \in Nat /\ Nth(S, Rank(S, n)) \in Nat
    BY <2>2, Members
  <2>4. Rank(S, n) \in Nat
    <3>1. Cardinality(S) \in Nat
      BY Parts
    <3> QED BY <2>1, <3>1
  <2>5. ASSUME NEW x \in S, NEW y \in S, x < y PROVE Rank(S, x) < Rank(S, y)
    BY <2>5, RankOrder
  <2>6. ~(n < Nth(S, Rank(S, n))) /\ ~(Nth(S, Rank(S, n)) < n)
    <3> DEFINE x == Nth(S, Rank(S, n))
    <3>1. x \in S /\ Rank(S, x) = Rank(S, n)
      BY <2>2
    <3>2. n \in S /\ ~(Rank(S, n) < Rank(S, n))
      BY <2>4
    <3>3. ~(n < x) /\ ~(x < n)
      <4> HIDE DEF x
      <4> QED BY <2>5, <3>1, <3>2
    <3> QED BY <3>3
  <2> QED BY <2>3, <2>6
<1> QED BY <1>1, <1>2

\* A number above all others takes the next place.
LEMMA RankOfNext ==
    ASSUME NEW N \in Nat, NEW S \in SUBSET (1 .. N), NEW x \in 1 .. N, \A m \in S : m < x
    PROVE  /\ Cardinality(S \cup {x}) = Cardinality(S) + 1
           /\ \A i \in 1 .. Cardinality(S) : Nth(S \cup {x}, i) = Nth(S, i)
           /\ Nth(S \cup {x}, Cardinality(S) + 1) = x
<1> DEFINE T == S \cup {x}
<1>a. \A m \in S : m \in Nat /\ 1 <= m /\ m <= N
  BY Members
<1>0. IsFiniteSet(S) /\ Cardinality(S) \in Nat /\ x \notin S /\ T \in SUBSET (1 .. N)
  <2>1. IsFiniteSet(S) /\ Cardinality(S) \in Nat
    BY Parts
  <2>2. x \notin S /\ \A m \in T : m \in 1 .. N
    BY <1>a
  <2> QED BY <2>1, <2>2
<1>1. Cardinality(T) = Cardinality(S) + 1
  BY <1>0, FS_AddElement
<1>2. ASSUME NEW i \in 1 .. Cardinality(S) PROVE Nth(T, i) = Nth(S, i)
  <2>1. Nth(S, i) \in S /\ Rank(S, Nth(S, i)) = i
    BY NthRank
  <2>2. {m \in T : m <= Nth(S, i)} = {m \in S : m <= Nth(S, i)}
    <3>1. Nth(S, i) \in Nat /\ Nth(S, i) < x
      BY <1>a, <2>1
    <3> QED BY <1>a, <3>1
  <2>3. Rank(T, Nth(S, i)) = i
    BY <2>1, <2>2 DEF Rank
  <2>4. Nth(T, Rank(T, Nth(S, i))) = Nth(S, i)
    BY <1>0, <2>1, NthRank
  <2> QED BY <2>3, <2>4
<1>3. Nth(T, Cardinality(S) + 1) = x
  <2>0. \A m \in T : m <= x
    BY <1>a
  <2>1. {m \in T : m <= x} = T
    BY <2>0
  <2>2. Rank(T, x) = Cardinality(S) + 1
    BY <1>1, <2>1 DEF Rank
  <2>3. Nth(T, Rank(T, x)) = x
    BY <1>0, NthRank
  <2> QED BY <2>2, <2>3
<1> QED BY <1>1, <1>2, <1>3

\* A set that comes before the rest takes the first places, and its last number the last
\* of them.
LEMMA RankOfFirst ==
    ASSUME NEW N \in Nat, NEW S \in SUBSET (1 .. N), NEW P \in SUBSET S,
           \A p \in P, n \in S \ P : p < n
    PROVE  /\ \A n \in S \ P : Rank(S, n) > Cardinality(P)
           /\ \A p \in P : (\A q \in P : q <= p) => Rank(S, p) = Cardinality(P)
<1>a. \A m \in S : m \in Nat /\ 1 <= m /\ m <= N
  BY Members
<1>1. ASSUME NEW n \in S \ P PROVE Rank(S, n) > Cardinality(P)
  <2> DEFINE T == {m \in S : m <= n}
  <2>1. P \in SUBSET T /\ n \in T /\ n \notin P /\ T \in SUBSET (1 .. N)
    <3>1. \A p \in P : p \in T
      BY <1>a, <1>1
    <3>2. n \in T /\ n \notin P
      BY <1>a, <1>1
    <3> QED BY <3>1, <3>2
  <2>2. /\ Cardinality(T) \in Nat /\ Cardinality(P) \in Nat /\ Cardinality(P) <= Cardinality(T)
        /\ Cardinality(P) = Cardinality(T) => P = T
    BY <2>1, Parts
  <2>3. Cardinality(P) # Cardinality(T)
    BY <2>1, <2>2
  <2> QED BY <2>2, <2>3 DEF Rank
<1>2. ASSUME NEW p \in P, \A q \in P : q <= p PROVE Rank(S, p) = Cardinality(P)
  <2>1. \A m \in S : m <= p <=> m \in P
    BY <1>a, <1>2
  <2>2. {m \in S : m <= p} = P
    BY <2>1
  <2> QED BY <2>2 DEF Rank
<1> QED BY <1>1, <1>2

-----------------------------------------------------------------------------
(* The store holds what was applied last *)

\* When the last committed change of a key was applied and is no revocation, its tuple is
\* in the store.
Present(k) ==
    \A n \in Applied :
        /\ rows[n].key = k /\ rows[n].value # Absent
        /\ \A q \in Written : rows[q].key = k => q <= n
        => store[k] # Absent

AllPresent == \A k \in Keys : Present(k)

\* What was applied was committed before.
LEMMA AppliedWritten ==
    ASSUME OrderInv
    PROVE  Applied \subseteq Written
BY DEF OrderInv, BatchInv, Batched, Applied, Written, Pending, RowsIn

\* A step that applies nothing and leaves the store alone.
LEMMA PresentKept ==
    ASSUME OrderInv, AllPresent, store' = store, Applied' \subseteq Applied,
           Written \subseteq Written', \A n \in Written : rows'[n] = rows[n]
    PROVE  AllPresent'
<1> SUFFICES ASSUME NEW k \in Keys, NEW n \in Applied',
                    rows'[n].key = k, rows'[n].value # Absent,
                    \A q \in Written' : rows'[q].key = k => q <= n
             PROVE  store'[k] # Absent
  BY DEF AllPresent, Present
<1>1. n \in Applied /\ n \in Written /\ rows'[n] = rows[n]
  BY AppliedWritten
<1>2. ASSUME NEW q \in Written, rows[q].key = k PROVE q <= n
  BY <1>2
<1> QED BY <1>1, <1>2 DEF AllPresent, Present

\* Applied rows of a step that changes neither row states nor what workers have done.
LEMMA AppliedSame ==
    ASSUME UNCHANGED <<rowState, done>>
    PROVE  Applied' = Applied /\ Written' = Written
BY DEF Applied, Written, RowsIn

\* Only the worker's own batch can become applied, and the rows of the batch stay written.
LEMMA BatchDone ==
    ASSUME TypeOK, OrderInv, NEW w \in Workers, CommitBatch(w) \/ Abort(w)
    PROVE  Applied' \subseteq Applied /\ Written' = Written /\ UNCHANGED <<rows, store>>
<1>1. done'[w] = {} /\ \A v \in Workers \ {w} : done'[v] = done[v]
  BY DEF CommitBatch, Abort, Idle, TypeOK
<1>2. done[w] \subseteq Pending
  BY DEF OrderInv, BatchInv, Batched
<1>3. CASE Abort(w)
  <2>1. rowState' = rowState /\ UNCHANGED <<rows, store>>
    BY <1>3 DEF Abort, rowVars
  <2>2. RowsIn("processed")' = RowsIn("processed") /\ Written' = Written
    BY <2>1 DEF RowsIn, Written
  <2> QED BY <1>1, <2>1, <2>2 DEF Applied
<1>4. CASE CommitBatch(w)
  <2>1. UNCHANGED <<rows, store>>
        /\ \A n \in RowNumbers :
              rowState'[n] = IF n \in done[w] THEN "processed" ELSE rowState[n]
    BY <1>4 DEF CommitBatch
  <2>2. RowsIn("processed")' = RowsIn("processed") \cup done[w]
    BY <1>2, <2>1 DEF RowsIn, Pending
  <2>3. Written' = Written
    BY <1>2, <2>1 DEF Written, Pending, RowsIn
  <2> QED BY <1>1, <2>1, <2>2, <2>3 DEF Applied
<1> QED BY <1>3, <1>4

\* A call changes the tuple of one key, of which nothing that was applied is the last.
LEMMA CallPresent ==
    ASSUME TypeOK, OrderInv, AllPresent, NEW w \in Workers, NEW n \in RowNumbers,
           CallOk(w, n) \/ CallFails(w, n)
    PROVE  AllPresent'
<1> DEFINE key == rows[n].key
<1>1. /\ Sending(w, n) /\ UNCHANGED <<rows, rowState>> /\ store' \in {store, Called(w, n)}
  BY DEF CallOk, CallFails, rowVars
<1>2. /\ n \in Written /\ n \in RowsSoFar /\ key \in Keys
      /\ \A q \in Applied : rows[q].key = key => q < n
  BY <1>1, SendFacts
<1>3. \A k \in Keys : k # key => store'[k] = store[k]
  BY <1>1, CallStore
<1>4. Written' = Written
  BY <1>1 DEF Written
<1>5. /\ \A v \in Workers \ {w} : done'[v] = done[v]
      /\ done'[w] \in {done[w], done[w] \cup {n}}
      /\ n \in done'[w] \ done[w] =>
            CallOk(w, n) /\ ~(Deleting(w, n) /\ rows[n].kind = "change")
  BY DEF CallOk, CallFails, TypeOK
<1>6. RowsIn("processed")' = RowsIn("processed")
  BY <1>1 DEF RowsIn
<1>7. Applied' \subseteq Applied \cup {n}
  BY <1>5, <1>6 DEF Applied
<1>8. n \in Applied' \ Applied => n \in done'[w] \ done[w]
  BY <1>5, <1>6 DEF Applied
<1> SUFFICES ASSUME NEW k \in Keys, NEW p \in Applied',
                    rows[p].key = k, rows[p].value # Absent,
                    \A q \in Written : rows[q].key = k => q <= p
             PROVE  store'[k] # Absent
  BY <1>1, <1>4 DEF AllPresent, Present
<1>9. CASE p \in Applied
  <2>1. k # key
    <3>1. p \in Nat /\ n \in Nat
      BY <1>9, AppliedWritten DEF Written, RowNumbers
    <3>2. k = key => p < n /\ n <= p
      BY <1>2, <1>9
    <3> QED BY <3>1, <3>2
  <2>2. store[k] # Absent
    BY <1>9 DEF AllPresent, Present
  <2> QED BY <1>3, <2>1, <2>2
<1>10. CASE p \notin Applied
  <2>1. p = n /\ k = key /\ CallOk(w, n) /\ ~(Deleting(w, n) /\ rows[n].kind = "change")
    BY <1>5, <1>7, <1>8, <1>10
  <2>2. rows[n].kind # "revoke"
    BY <1>2, <2>1 DEF OrderInv, RowInv
  <2>3. rows[n].kind \in Kinds
    BY <1>2, RowTyped
  <2>4. ~Deleting(w, n)
    BY <2>1, <2>2, <2>3 DEF Deleting, DeletesFirst, Kinds
  <2>5. store' = Called(w, n)
    BY <2>1 DEF CallOk
  <2>6. store'[k] = IF store[k] = Absent THEN rows[n].value ELSE store[k]
    BY <1>2, <2>1, <2>4, <2>5 DEF Called, TypeOK
  <2> QED BY <2>1, <2>6
<1> QED BY <1>9, <1>10

\* Every step keeps it.
LEMMA PresentStep ==
    ASSUME TypeOK, OrderInv, AllPresent, [Next]_vars
    PROVE  AllPresent'
<1>1. ASSUME UNCHANGED <<rows, rowState, done, store>> PROVE AllPresent'
  BY <1>1, AppliedSame, PresentKept
<1>2. CASE UNCHANGED vars
  BY <1>1, <1>2 DEF vars, rowVars, workerVars
<1>3. ASSUME NEW k \in Keys, NEW kind \in Kinds, NEW v \in Values \cup {Absent}, Enqueue(k, kind, v)
      PROVE  AllPresent'
  <2> DEFINE N == Len(rows) + 1
  <2>1. /\ N \in RowNumbers /\ N \notin RowsSoFar /\ rowState[N] = "none"
        /\ \A n \in RowsSoFar : rows'[n] = rows[n]
        /\ rowState' = [rowState EXCEPT ![N] = "open"]
    BY <1>3, EnqueueEffect DEF OrderInv
  <2>2. RowsIn("processed")' = RowsIn("processed") /\ Written' = Written
    BY <2>1 DEF RowsIn, Written, TypeOK
  <2>3. store' = store /\ done' = done
    BY <1>3 DEF Enqueue, workerVars
  <2>4. Applied' = Applied
    BY <2>2, <2>3 DEF Applied
  <2>5. \A n \in Written : rows'[n] = rows[n]
    BY <2>1, WrittenRows DEF OrderInv
  <2> QED BY <2>2, <2>3, <2>4, <2>5, PresentKept
<1>4. ASSUME NEW n \in RowNumbers, CommitChange(n) PROVE AllPresent'
  <2>1. /\ rows' = rows /\ Written' = Written \cup {n}
        /\ RowsIn("processed")' = RowsIn("processed") /\ UNCHANGED <<store, workerVars>>
    BY <1>4, CommitEffect DEF OrderInv
  <2>2. Applied' = Applied
    BY <2>1 DEF Applied, workerVars
  <2> QED BY <2>1, <2>2, PresentKept
<1>5. ASSUME NEW n \in RowNumbers, RollbackChange(n) PROVE AllPresent'
  <2>1. UNCHANGED <<rows, store, done>> /\ rowState[n] = "open"
        /\ rowState' = [rowState EXCEPT ![n] = "void"]
    BY <1>5 DEF RollbackChange, workerVars
  <2>2. RowsIn("processed")' = RowsIn("processed") /\ Written' = Written
    BY <2>1 DEF RowsIn, Written, TypeOK
  <2>3. Applied' = Applied
    BY <2>1, <2>2 DEF Applied
  <2> QED BY <2>1, <2>2, <2>3, PresentKept
<1>6. ASSUME NEW n \in RowNumbers, BackedOff(n) PROVE AllPresent'
  BY <1>1, <1>6 DEF BackedOff, workerVars
<1>7. ASSUME NEW w \in Workers, NEW n \in RowNumbers, ApplyNow(w, n) PROVE AllPresent'
  BY <1>1, <1>7 DEF ApplyNow, Take, workerVars
<1>8. ASSUME NEW w \in Workers,
             Drain(w) \/ ReadOlder(w) \/ ReadLanded(w) \/ LockFinished(w) \/ ChooseMarkers(w)
      PROVE  AllPresent'
  BY <1>1, <1>8 DEF Drain, Take, ReadOlder, ReadLanded, LockFinished, ChooseMarkers, rowVars
<1>9. ASSUME NEW w \in Workers, CommitBatch(w) \/ Abort(w) PROVE AllPresent'
  BY <1>9, BatchDone, PresentKept
<1>10. ASSUME NEW w \in Workers, NEW n \in RowNumbers, CallOk(w, n) \/ CallFails(w, n)
       PROVE  AllPresent'
  BY <1>10, CallPresent
<1> QED BY <1>2, <1>3, <1>4, <1>5, <1>6, <1>7, <1>8, <1>9, <1>10 DEF Next, Step

-----------------------------------------------------------------------------
(* The history of a key *)

ProcessedOf(k) == {n \in RowsIn("processed") : rows[n].key = k}

\* The committed rows of a key are a bounded set, of which the processed ones come first.
LEMMA CommittedRows ==
    ASSUME TypeOK, OrderInv, NEW k \in Keys
    PROVE  /\ CommittedOf(k) = {n \in Written : rows[n].key = k}
           /\ CommittedOf(k) \in SUBSET (1 .. MaxRows) /\ MaxRows \in Nat
           /\ ProcessedOf(k) \in SUBSET CommittedOf(k)
           /\ \A p \in ProcessedOf(k), n \in CommittedOf(k) \ ProcessedOf(k) : p < n
           /\ \A n \in CommittedOf(k) : /\ n \in Written /\ n \in RowsSoFar /\ n \in Nat
                                        /\ rows[n].value \in Values \cup {Absent}
<1>1. MaxRows \in Nat
  BY BoundAssumption
<1>2. Written \subseteq RowsSoFar /\ Written \subseteq RowNumbers
  BY WrittenRows DEF OrderInv, Written
<1>3. CommittedOf(k) = {n \in Written : rows[n].key = k}
  <2>1. ASSUME NEW n \in RowsSoFar PROVE n \in RowNumbers
    BY RowTyped
  <2> QED BY <1>2, <2>1 DEF CommittedOf, Written, RowsSoFar
<1>4. ProcessedOf(k) \in SUBSET CommittedOf(k)
  BY <1>3 DEF ProcessedOf, RowsIn, Written
<1>5. \A n \in CommittedOf(k) : /\ n \in Written /\ n \in RowsSoFar /\ n \in RowNumbers
                                /\ rows[n].value \in Values \cup {Absent}
  BY <1>2, <1>3, RowTyped
<1>6. \A n \in RowNumbers : n \in Nat
  BY DEF RowNumbers
<1>7. ASSUME NEW p \in ProcessedOf(k), NEW n \in CommittedOf(k) \ ProcessedOf(k) PROVE p < n
  <2>1. p \in RowsIn("processed") /\ rows[p].key = k /\ p \in Nat
    BY <1>6 DEF ProcessedOf, RowsIn
  <2>2. n \in Unsettled /\ rows[n].key = k /\ n \in Nat
    BY <1>3, <1>5, <1>6 DEF ProcessedOf, RowsIn, Written, Unsettled
  <2>3. p # n /\ ~(n < p)
    BY <2>1, <2>2 DEF OrderInv, SettleOrder
  <2> QED BY <2>1, <2>2, <2>3
<1>8. CommittedOf(k) \in SUBSET (1 .. MaxRows)
  BY <1>5 DEF RowNumbers
<1> QED BY <1>1, <1>3, <1>4, <1>5, <1>6, <1>7, <1>8

\* The history of a key lists the values of its rows by their rank.
LEMMA HistoryOf ==
    ASSUME TypeOK, OrderInv, NEW k \in Keys
    PROVE  /\ History[k] = Committed(k) /\ LandedCounts[k] = Cardinality(ProcessedOf(k))
           /\ Committed(k) \in Seq(Values \cup {Absent})
           /\ Len(Committed(k)) = Cardinality(CommittedOf(k))
           /\ Cardinality(CommittedOf(k)) \in Nat
           /\ Cardinality(ProcessedOf(k)) \in 0 .. Cardinality(CommittedOf(k))
           /\ \A n \in CommittedOf(k) :
                /\ Rank(CommittedOf(k), n) \in 1 .. Cardinality(CommittedOf(k))
                /\ Committed(k)[Rank(CommittedOf(k), n)] = rows[n].value
           /\ \A i \in 1 .. Cardinality(CommittedOf(k)) :
                Nth(CommittedOf(k), i) \in CommittedOf(k)
<1> DEFINE S == CommittedOf(k)
<1>1. /\ S \in SUBSET (1 .. MaxRows) /\ MaxRows \in Nat
      /\ ProcessedOf(k) \in SUBSET S
      /\ \A n \in S : rows[n].value \in Values \cup {Absent}
  BY CommittedRows
<1> HIDE DEF S
<1>2. /\ Cardinality(S) \in Nat /\ Cardinality(ProcessedOf(k)) \in Nat
      /\ Cardinality(ProcessedOf(k)) <= Cardinality(S)
  BY <1>1, Parts
<1>3. /\ \A i \in 1 .. Cardinality(S) : Nth(S, i) \in S
      /\ \A n \in S : Nth(S, Rank(S, n)) = n
  BY <1>1, NthRank
<1>4. \A n \in S : Rank(S, n) \in 1 .. Cardinality(S)
  BY <1>1, RankOrder
<1>5. Committed(k) = [i \in 1 .. Cardinality(S) |-> rows[Nth(S, i)].value]
  BY DEF Committed, S
<1>6. \A i \in 1 .. Cardinality(S) : rows[Nth(S, i)].value \in Values \cup {Absent}
  BY <1>1, <1>3
<1>7. Committed(k) \in [1 .. Cardinality(S) -> Values \cup {Absent}]
  BY <1>5, <1>6
<1>8. Committed(k) \in Seq(Values \cup {Absent}) /\ Len(Committed(k)) = Cardinality(S)
  BY <1>2, <1>7
<1>9. \A n \in S : Committed(k)[Rank(S, n)] = rows[n].value
  BY <1>3, <1>4, <1>5
<1>10. History[k] = Committed(k) /\ LandedCounts[k] = Cardinality(ProcessedOf(k))
  BY DEF History, LandedCounts, LandedOf, ProcessedOf
<1> QED BY <1>2, <1>3, <1>4, <1>8, <1>9, <1>10 DEF S

\* The committed rows of a key that are not processed are ahead of what has landed.
LEMMA AheadRow ==
    ASSUME TypeOK, OrderInv, NEW k \in Keys, NEW n \in CommittedOf(k) \ ProcessedOf(k)
    PROVE  rows[n].value \in Store!Ahead(k, LandedCounts[k])
<1> DEFINE S == CommittedOf(k)
           P == ProcessedOf(k)
           r == Rank(S, n)
<1>1. r > Cardinality(P)
  BY CommittedRows, RankOfFirst
<1>2. /\ r \in 1 .. Cardinality(S) /\ Cardinality(S) \in Nat /\ Committed(k)[r] = rows[n].value
      /\ History[k] = Committed(k) /\ Len(Committed(k)) = Cardinality(S)
      /\ LandedCounts[k] = Cardinality(P) /\ Cardinality(P) \in Nat
  BY HistoryOf
<1> HIDE DEF S, P, r
<1>3. r \in Cardinality(P) + 1 .. Len(History[k])
  BY <1>1, <1>2
<1> QED BY <1>2, <1>3 DEF Store!Ahead

\* The last of the rows that have landed has the value that is confirmed.
LEMMA LandedRow ==
    ASSUME TypeOK, OrderInv, NEW k \in Keys, NEW p \in ProcessedOf(k),
           \A q \in ProcessedOf(k) : q <= p
    PROVE  LandedCounts[k] # 0 /\ History[k][LandedCounts[k]] = rows[p].value
<1>1. Rank(CommittedOf(k), p) = Cardinality(ProcessedOf(k)) /\ p \in CommittedOf(k)
  BY CommittedRows, RankOfFirst
<1>2. /\ Rank(CommittedOf(k), p) \in 1 .. Cardinality(CommittedOf(k))
      /\ Committed(k)[Rank(CommittedOf(k), p)] = rows[p].value
      /\ History[k] = Committed(k) /\ LandedCounts[k] = Cardinality(ProcessedOf(k))
      /\ Cardinality(CommittedOf(k)) \in Nat
  BY <1>1, HistoryOf
<1> QED BY <1>1, <1>2

\* A set of rows has a last one.
LEMMA LastRow ==
    ASSUME NEW N \in Nat, NEW S \in SUBSET (1 .. N), S # {}
    PROVE  \E n \in S : \A m \in S : m <= n
<1>1. Cardinality(S) \in Nat /\ Cardinality(S) # 0
  <2>1. IsFiniteSet(S) /\ Cardinality(S) \in Nat
    BY Parts
  <2> QED BY <2>1, FS_EmptySet
<1>2. Cardinality(S) \in 1 .. Cardinality(S)
  BY <1>1
<1>3. PICK n \in S : Rank(S, n) = Cardinality(S)
  BY <1>2, RankTaken
<1>4. ASSUME NEW m \in S PROVE m <= n
  <2>1. m \in Nat /\ n \in Nat
    BY Members
  <2>2. Rank(S, m) \in 1 .. Cardinality(S) /\ (n < m => Rank(S, n) < Rank(S, m))
    BY RankOrder
  <2>3. ~(n < m)
    BY <1>1, <1>3, <2>2
  <2> QED BY <2>1, <2>3
<1> QED BY <1>4

\* What the store shows is explained by what has landed, when everything that was applied
\* has landed or is ahead.
LEMMA ShownByHistory ==
    ASSUME TypeOK, OrderInv, AllPresent, NEW k \in Keys
    PROVE  store[k] \in Store!Shows(k, LandedCounts[k])
<1> DEFINE S == CommittedOf(k)
           P == ProcessedOf(k)
<1>1. /\ S = {n \in Written : rows[n].key = k} /\ P \in SUBSET S
      /\ S \in SUBSET (1 .. MaxRows) /\ MaxRows \in Nat
      /\ \A n \in S : n \in Nat
  BY CommittedRows
<1>2. P \subseteq Applied
  BY DEF ProcessedOf, Applied
<1> DEFINE ahead == Store!Ahead(k, LandedCounts[k])
<1>3. \A n \in S \ P : rows[n].value \in ahead
  BY AheadRow
<1>4. ASSUME NEW p \in P, \A q \in P : q <= p
      PROVE  LandedCounts[k] # 0 /\ History[k][LandedCounts[k]] = rows[p].value
  BY <1>4, LandedRow
<1>5. P = {} => LandedCounts[k] = 0
  BY HistoryOf, FS_EmptySet
<1>6. Store!Shows(k, LandedCounts[k]) =
          {IF LandedCounts[k] = 0 THEN Absent ELSE History[k][LandedCounts[k]]}
          \cup (IF ahead = {} THEN {} ELSE ahead \cup {Absent})
  BY DEF Store!Shows
<1> HIDE DEF S, P, ahead
<1>7. CASE store[k] # Absent
  <2>1. PICK p \in Written : /\ rows[p].key = k /\ rows[p].value = store[k]
                             /\ \A q \in Applied : rows[q].key = k => q <= p
    BY <1>7 DEF OrderInv, StoreInv, Shown
  <2>2. CASE p \in P
    <3>1. \A q \in P : q <= p
      BY <1>1, <1>2, <2>1
    <3> QED BY <1>4, <1>6, <2>1, <2>2, <3>1
  <2>3. CASE p \notin P
    <3>1. store[k] \in ahead
      BY <1>1, <1>3, <2>1, <2>3
    <3> QED BY <1>6, <3>1
  <2> QED BY <2>2, <2>3
<1>8. CASE store[k] = Absent /\ ahead # {}
  BY <1>6, <1>8
<1>9. CASE store[k] = Absent /\ ahead = {}
  <2>1. S = P
    BY <1>1, <1>3, <1>9
  <2>2. CASE P = {}
    BY <1>5, <1>6, <1>9, <2>2
  <2>3. CASE P # {}
    <3>1. PICK p \in P : \A q \in P : q <= p
      BY <1>1, <2>1, <2>3, LastRow
    <3>2. rows[p].value = Absent
      <4>1. p \in Applied /\ rows[p].key = k /\ \A q \in Written : rows[q].key = k => q <= p
        BY <1>1, <1>2, <2>1, <3>1
      <4> QED BY <1>9, <4>1 DEF AllPresent, Present
    <3> QED BY <1>4, <1>6, <1>9, <3>1, <3>2
  <2> QED BY <2>2, <2>3
<1> QED BY <1>7, <1>8, <1>9

ShownInv == \A k \in Keys : store[k] \in Store!Shows(k, LandedCounts[k])

-----------------------------------------------------------------------------
(* Steps *)

\* A step that leaves the committed rows alone leaves the histories.
LEMMA SameHistory ==
    ASSUME \A k \in Keys : CommittedOf(k)' = CommittedOf(k),
           \A k \in Keys : \A n \in CommittedOf(k) : rows'[n] = rows[n],
           TypeOK, OrderInv
    PROVE  History' = History
<1>1. ASSUME NEW k \in Keys PROVE Committed(k)' = Committed(k)
  <2> DEFINE S == CommittedOf(k)
  <2>1. \A i \in 1 .. Cardinality(S) : Nth(S, i) \in S
    BY HistoryOf
  <2>2. \A i \in 1 .. Cardinality(S) : rows'[Nth(S, i)].value = rows[Nth(S, i)].value
    BY <2>1
  <2>3. CommittedOf(k)' = S
    OBVIOUS
  <2> HIDE DEF S
  <2>4. Committed(k) = [i \in 1 .. Cardinality(S) |-> rows[Nth(S, i)].value]
    BY DEF Committed, S
  <2>5. Committed(k)' = [i \in 1 .. Cardinality(S) |-> rows'[Nth(S, i)].value]
    BY <2>3 DEF Committed
  <2> QED BY <2>2, <2>4, <2>5
<1> QED BY <1>1 DEF History

\* A step that leaves the processed rows alone leaves what has landed.
LEMMA SameLanded ==
    ASSUME \A k \in Keys : ProcessedOf(k)' = ProcessedOf(k)
    PROVE  LandedCounts' = LandedCounts
BY DEF LandedCounts, LandedOf, ProcessedOf

\* Nothing of the three variables changes.
LEMMA Stutters ==
    ASSUME TypeOK, OrderInv, UNCHANGED <<rows, rowState, store>>
    PROVE  UNCHANGED <<History, LandedCounts, store>>
<1>1. \A k \in Keys : CommittedOf(k)' = CommittedOf(k) /\ ProcessedOf(k)' = ProcessedOf(k)
  BY DEF CommittedOf, ProcessedOf, RowsIn
<1> QED BY <1>1, SameHistory, SameLanded

\* Inserting a row, or voiding it, is not seen.
LEMMA EnqueueStutters ==
    ASSUME TypeOK, OrderInv,
           NEW k \in Keys, NEW kind \in Kinds, NEW v \in Values \cup {Absent}, Enqueue(k, kind, v),
           OrderInv'
    PROVE  UNCHANGED <<History, LandedCounts, store>>
<1> DEFINE N == Len(rows) + 1
<1>1. /\ N \in RowNumbers /\ N \notin RowsSoFar /\ rowState[N] = "none"
      /\ RowsSoFar' = RowsSoFar \cup {N}
      /\ \A n \in RowsSoFar : rows'[n] = rows[n]
      /\ rowState' = [rowState EXCEPT ![N] = "open"]
  BY EnqueueEffect DEF OrderInv
<1>2. \A n \in RowNumbers : rowState'[n] = IF n = N THEN "open" ELSE rowState[n]
  BY <1>1 DEF TypeOK
<1>3. RowsIn("processed")' = RowsIn("processed") /\ RowsIn("processed") \subseteq RowsSoFar
  BY <1>1, <1>2 DEF RowsIn, OrderInv, RowInv
<1>4. \A j \in Keys : ProcessedOf(j)' = ProcessedOf(j)
  BY <1>1, <1>3 DEF ProcessedOf
<1>5. \A n \in RowsSoFar : n \in RowNumbers /\ n # N
  BY <1>1, RowTyped
<1>6. ASSUME NEW j \in Keys PROVE CommittedOf(j)' = CommittedOf(j)
  <2>1. CommittedOf(j)' = {n \in RowsSoFar' : rows'[n].key = j /\ rowState'[n] \in {"pending", "processed"}}
    BY DEF CommittedOf, RowsSoFar
  <2>2. CommittedOf(j) = {n \in RowsSoFar : rows[n].key = j /\ rowState[n] \in {"pending", "processed"}}
    BY DEF CommittedOf, RowsSoFar
  <2> QED BY <1>1, <1>2, <1>5, <2>1, <2>2
<1>7. \A j \in Keys : \A n \in CommittedOf(j) : rows'[n] = rows[n]
  BY <1>1, CommittedRows
<1>8. store' = store
  BY DEF Enqueue
<1> QED BY <1>4, <1>6, <1>7, <1>8, SameHistory, SameLanded

\* A row that is rolled back was not committed.
LEMMA RollbackStutters ==
    ASSUME TypeOK, OrderInv, NEW n \in RowNumbers, RollbackChange(n)
    PROVE  UNCHANGED <<History, LandedCounts, store>>
<1>1. /\ UNCHANGED <<rows, store>> /\ rowState[n] = "open"
      /\ \A m \in RowNumbers : rowState'[m] = IF m = n THEN "void" ELSE rowState[m]
  BY DEF RollbackChange, TypeOK
<1>2. \A m \in RowsSoFar : m \in RowNumbers
  BY RowTyped
<1>3. \A k \in Keys : CommittedOf(k)' = CommittedOf(k)
  BY <1>1, <1>2 DEF CommittedOf, RowsSoFar
<1>4. \A k \in Keys : ProcessedOf(k)' = ProcessedOf(k)
  BY <1>1 DEF ProcessedOf, RowsIn
<1> QED BY <1>1, <1>3, <1>4, SameHistory, SameLanded

\* A commit is the next change of the history of its key.
LEMMA CommitRecords ==
    ASSUME TypeOK, OrderInv, NEW n \in RowNumbers, CommitChange(n)
    PROVE  \E k \in Keys : Store!Record(k)
<1> DEFINE k == rows[n].key
           S == CommittedOf(k)
           v == rows[n].value
<1>1. /\ n \in RowsIn("open") /\ rows' = rows /\ RowsSoFar' = RowsSoFar
      /\ Written' = Written \cup {n}
      /\ RowsIn("processed")' = RowsIn("processed") /\ store' = store
  BY CommitEffect DEF OrderInv
<1>2. /\ n \in RowsSoFar /\ k \in Keys /\ n \notin Written
      /\ \A m \in RowsSoFar : rows[m].key = k => m <= n
  BY <1>1, OpenGrant DEF OrderInv
<1>3. v \in Values \cup {Absent}
  BY <1>2, RowTyped
<1>4. n \in 1 .. MaxRows /\ n \in Nat
  BY DEF RowNumbers
<1>5. LandedCounts' = LandedCounts
  BY <1>1, SameLanded DEF ProcessedOf
<1>6. \A j \in Keys : CommittedOf(j)' = {m \in RowsSoFar : rows[m].key = j /\ m \in Written'}
  <2>1. \A m \in RowsSoFar : m \in RowNumbers
    BY RowTyped
  <2>2. \A j \in Keys : CommittedOf(j)' =
            {m \in RowsSoFar' : rows'[m].key = j /\ rowState'[m] \in {"pending", "processed"}}
    BY DEF CommittedOf, RowsSoFar
  <2> QED BY <1>1, <2>1, <2>2 DEF Written
<1>7. \A j \in Keys : CommittedOf(j) = {m \in RowsSoFar : rows[m].key = j /\ m \in Written}
  <2>1. Written \subseteq RowsSoFar
    BY WrittenRows DEF OrderInv
  <2> QED BY <2>1, CommittedRows
<1>8. CommittedOf(k)' = S \cup {n}
  BY <1>1, <1>2, <1>6, <1>7
<1>9. \A m \in S : m < n
  <2>1. \A m \in S : m \in Nat /\ m <= n /\ m # n
    BY <1>2, <1>7, CommittedRows
  <2> QED BY <1>4, <2>1
<1>10. ASSUME NEW j \in Keys, j # k PROVE Committed(j)' = Committed(j)
  <2>1. CommittedOf(j)' = CommittedOf(j)
    BY <1>1, <1>2, <1>6, <1>7, <1>10
  <2>2. Committed(j)' = [i \in 1 .. Cardinality(CommittedOf(j)) |-> rows[Nth(CommittedOf(j), i)].value]
    BY <1>1, <2>1 DEF Committed
  <2> QED BY <2>2 DEF Committed
<1>11. /\ Committed(k) \in Seq(Values \cup {Absent}) /\ Len(Committed(k)) = Cardinality(S)
       /\ Cardinality(S) \in Nat /\ S \in SUBSET (1 .. MaxRows) /\ MaxRows \in Nat
  BY <1>2, HistoryOf, CommittedRows
<1>12. Committed(k)' = Append(Committed(k), v)
  <2>1. Committed(k) = [i \in 1 .. Cardinality(S) |-> rows[Nth(S, i)].value]
    BY DEF Committed
  <2> HIDE DEF S
  <2>2. /\ Cardinality(S \cup {n}) = Cardinality(S) + 1
        /\ \A i \in 1 .. Cardinality(S) : Nth(S \cup {n}, i) = Nth(S, i)
        /\ Nth(S \cup {n}, Cardinality(S) + 1) = n
    BY <1>4, <1>9, <1>11, RankOfNext
  <2>3. Committed(k)' = [i \in 1 .. Cardinality(S \cup {n}) |-> rows[Nth(S \cup {n}, i)].value]
    BY <1>1, <1>8 DEF Committed
  <2>4. Committed(k)' = [i \in 1 .. Cardinality(S) + 1 |->
                            IF i <= Cardinality(S) THEN Committed(k)[i] ELSE v]
    <3> DEFINE c == Cardinality(S)
    <3>1. ASSUME NEW i \in 1 .. c + 1
          PROVE  rows[Nth(S \cup {n}, i)].value = IF i <= c THEN Committed(k)[i] ELSE v
      <4>1. CASE i <= c
        <5>1. i \in 1 .. c
          BY <1>11, <4>1
        <5> QED BY <2>1, <2>2, <4>1, <5>1
      <4>2. CASE ~(i <= c)
        <5>1. i = c + 1
          BY <1>11, <4>2
        <5> QED BY <2>2, <4>2, <5>1
      <4> QED BY <4>1, <4>2
    <3>2. Cardinality(S \cup {n}) = c + 1
      BY <2>2
    <3> QED BY <2>3, <3>1, <3>2
  <2>5. Append(Committed(k), v) = [i \in 1 .. Len(Committed(k)) + 1 |->
                            IF i <= Len(Committed(k)) THEN Committed(k)[i] ELSE v]
    BY <1>3, <1>11
  <2> QED BY <1>11, <2>4, <2>5
<1>13. History' = [History EXCEPT ![k] = Append(History[k], v)]
  <2>1. History \in [Keys -> {Committed(j) : j \in Keys}] /\ History[k] = Committed(k)
    BY <1>2 DEF History
  <2>2. History' = [j \in Keys |-> Committed(j)']
    BY DEF History
  <2>3. \A j \in Keys : Committed(j)' = IF j = k THEN Append(History[k], v) ELSE History[j]
    <3>1. ASSUME NEW j \in Keys, j = k PROVE Committed(j)' = Append(History[k], v)
      <4>1. CommittedOf(j)' = CommittedOf(k)'
        BY <1>1, <3>1 DEF CommittedOf
      <4>2. Committed(j)' = [i \in 1 .. Cardinality(CommittedOf(j)') |-> rows'[Nth(CommittedOf(j)', i)].value]
        BY DEF Committed, Nth
      <4>3. Committed(k)' = [i \in 1 .. Cardinality(CommittedOf(k)') |-> rows'[Nth(CommittedOf(k)', i)].value]
        BY DEF Committed, Nth
      <4> QED BY <1>12, <2>1, <4>1, <4>2, <4>3
    <3>2. ASSUME NEW j \in Keys, j # k PROVE Committed(j)' = History[j]
      BY <1>10, <3>2 DEF History
    <3> QED BY <3>1, <3>2
  <2> QED BY <1>2, <2>1, <2>2, <2>3
<1> QED BY <1>1, <1>2, <1>3, <1>5, <1>13 DEF Store!Record

\* A call of the store delivers a change that is ahead, or the delete before it.
LEMMA CallDelivers ==
    ASSUME TypeOK, OrderInv, NEW w \in Workers, NEW n \in RowNumbers,
           CallOk(w, n) \/ CallFails(w, n)
    PROVE  \/ UNCHANGED <<History, LandedCounts, store>>
           \/ \E k \in Keys : Store!Deliver(k)
<1> DEFINE k == rows[n].key
<1>1. /\ Sending(w, n) /\ UNCHANGED <<rows, rowState>> /\ store' \in {store, Called(w, n)}
  BY DEF CallOk, CallFails, rowVars
<1>2. /\ n \in Written /\ n \in RowsSoFar /\ k \in Keys /\ n \in batch[w]
  BY <1>1, SendFacts
<1>3. History' = History /\ LandedCounts' = LandedCounts
  <2>1. \A j \in Keys : CommittedOf(j)' = CommittedOf(j) /\ ProcessedOf(j)' = ProcessedOf(j)
    BY <1>1 DEF CommittedOf, ProcessedOf, RowsIn
  <2> QED BY <1>1, <2>1, SameHistory, SameLanded
<1>4. rows[n].value \in Store!Ahead(k, LandedCounts[k])
  <2>1. n \in CommittedOf(k) /\ n \notin ProcessedOf(k)
    BY <1>2, CommittedRows DEF ProcessedOf, RowsIn, OrderInv, BatchInv, Batched, Pending
  <2> QED BY <1>2, <2>1, AheadRow
<1>5. CASE store' = store
  BY <1>3, <1>5
<1>6. CASE store' = Called(w, n) /\ store' # store
  <2>1. \E v \in {Absent, rows[n].value} : store' = [store EXCEPT ![k] = v]
    <3>1. CASE Deleting(w, n) \/ store[k] = Absent
      BY <1>6, <3>1 DEF Called
    <3>2. CASE ~Deleting(w, n) /\ store[k] # Absent
      <4>1. Called(w, n) = [store EXCEPT ![k] = store[k]]
        BY <1>2, <3>2 DEF Called, TypeOK
      <4> QED BY <1>2, <1>6, <4>1 DEF TypeOK
    <3> QED BY <3>1, <3>2
  <2>2. Store!Deliver(k)
    BY <1>3, <1>4, <2>1 DEF Store!Deliver
  <2> QED BY <1>2, <2>2
<1> QED BY <1>1, <1>5, <1>6

\* The commit of a worker confirms what it applied.
LEMMA BatchLands ==
    ASSUME TypeOK, OrderInv, ShownInv', NEW w \in Workers, CommitBatch(w)
    PROVE  Store!Land
<1>1. /\ Written' = Written /\ UNCHANGED <<rows, store>>
  BY BatchDone
<1>2. /\ \A n \in RowNumbers :
              rowState'[n] = IF n \in done[w] THEN "processed" ELSE rowState[n]
      /\ done[w] \subseteq Pending
  BY DEF CommitBatch, OrderInv, BatchInv, Batched
<1>3. \A k \in Keys : CommittedOf(k)' = CommittedOf(k)
  <2>1. \A m \in RowsSoFar : m \in RowNumbers
    BY RowTyped
  <2> QED BY <1>1, <1>2, <2>1 DEF CommittedOf, RowsSoFar, Pending, RowsIn
<1>4. History' = History
  BY <1>1, <1>3, SameHistory
<1>5. ASSUME NEW k \in Keys
      PROVE  LandedCounts'[k] \in LandedCounts[k] .. Len(History[k])
  <2> DEFINE S == CommittedOf(k)
             P == ProcessedOf(k)
             Q == ProcessedOf(k)'
  <2>1. /\ S \in SUBSET (1 .. MaxRows) /\ MaxRows \in Nat
        /\ S = {n \in Written : rows[n].key = k}
    BY CommittedRows
  <2>2. P \subseteq Q /\ Q \subseteq S
    <3>1. P \subseteq Q
      BY <1>1, <1>2 DEF ProcessedOf, RowsIn
    <3>2. Q \subseteq {n \in Written : rows[n].key = k}
      BY <1>1, <1>2 DEF ProcessedOf, RowsIn, Pending, Written
    <3> QED BY <2>1, <3>1, <3>2
  <2>3. LandedCounts'[k] = Cardinality(Q)
    BY DEF LandedCounts, LandedOf, ProcessedOf
  <2>4. LandedCounts[k] = Cardinality(P) /\ Len(History[k]) = Cardinality(S)
    BY HistoryOf
  <2> HIDE DEF S, P, Q
  <2>5. Q \in SUBSET (1 .. MaxRows)
    BY <2>1, <2>2
  <2>6. /\ Cardinality(S) \in Nat /\ Cardinality(Q) \in Nat /\ Cardinality(P) \in Nat
        /\ Cardinality(Q) <= Cardinality(S) /\ Cardinality(P) <= Cardinality(Q)
    BY <2>1, <2>2, <2>5, Parts
  <2> QED BY <2>3, <2>4, <2>6
<1>6. \A k \in Keys : store[k] \in Store!Shows(k, LandedCounts'[k])
  <2> SUFFICES ASSUME NEW k \in Keys PROVE store[k] \in Store!Shows(k, LandedCounts'[k])
    OBVIOUS
  <2>1. store'[k] \in Store!Shows(k, LandedCounts[k])'
    BY DEF ShownInv
  <2> QED BY <1>1, <1>4, <2>1 DEF Store!Shows, Store!Ahead
<1>7. LandedCounts' = [k \in Keys |-> LandedCounts'[k]]
  BY DEF LandedCounts
<1> QED BY <1>1, <1>4, <1>5, <1>6, <1>7 DEF Store!Land

-----------------------------------------------------------------------------
(* The refinement *)

\* At the start a granted key has one committed change, and the store shows it.
LEMMA StartsEmpty ==
    ASSUME Init
    PROVE  AllPresent /\ Store!AbstractInit
<1>1. TypeOK /\ OrderInv
  BY InvInit
<1>2. PICK granted \in Starts :
        /\ rowState = [n \in RowNumbers |->
              IF n \in granted THEN "processed" ELSE IF n \in Keys THEN "void" ELSE "none"]
        /\ desired = [k \in Keys |-> IF k \in granted THEN "wide" ELSE Absent]
  BY DEF Init
<1>3. granted \subseteq Keys /\ Keys \subseteq RowNumbers
  BY StartsAssumption, BoundAssumption DEF Keys, RowNumbers
<1>4. \A n \in Keys : rows[n].key = n /\ rows[n].value = "wide"
  BY DEF Init
<1>5. Written = granted /\ RowsIn("processed") = granted /\ Applied \subseteq granted
  BY <1>2, <1>3 DEF Written, Pending, RowsIn, Applied, Init
<1>6. store = [k \in Keys |-> IF k \in granted THEN "wide" ELSE Absent]
  BY <1>2 DEF Init
<1>7. AllPresent
  BY <1>3, <1>4, <1>5, <1>6 DEF AllPresent, Present
<1>8. ASSUME NEW k \in Keys
      PROVE  /\ CommittedOf(k) = IF k \in granted THEN {k} ELSE {}
             /\ ProcessedOf(k) = CommittedOf(k)
  <2>1. CommittedOf(k) = {n \in granted : rows[n].key = k}
    BY <1>1, <1>5, CommittedRows
  <2>2. ProcessedOf(k) = {n \in granted : rows[n].key = k}
    BY <1>5 DEF ProcessedOf
  <2> QED BY <1>3, <1>4, <2>1, <2>2
<1>9. ASSUME NEW k \in Keys
      PROVE  /\ History[k] = IF k \in granted THEN <<"wide">> ELSE <<>>
             /\ LandedCounts[k] = Len(History[k])
  <2>1. /\ History[k] = Committed(k) /\ Committed(k) \in Seq(Values \cup {Absent})
        /\ Len(Committed(k)) = Cardinality(CommittedOf(k))
        /\ LandedCounts[k] = Cardinality(CommittedOf(k))
        /\ \A n \in CommittedOf(k) : /\ Rank(CommittedOf(k), n) \in 1 .. Cardinality(CommittedOf(k))
                                     /\ Committed(k)[Rank(CommittedOf(k), n)] = rows[n].value
    BY <1>1, <1>8, HistoryOf
  <2>2. CASE k \in granted
    <3>1. CommittedOf(k) = {k} /\ Cardinality({k}) = 1
      BY <1>8, <2>2, FS_Singleton
    <3>2. Committed(k)[1] = "wide"
      BY <1>4, <2>1, <3>1
    <3>3. Committed(k) = <<"wide">>
      BY <2>1, <3>1, <3>2
    <3> QED BY <2>1, <2>2, <3>1, <3>3
  <2>3. CASE k \notin granted
    <3>1. CommittedOf(k) = {} /\ Cardinality({}) = 0
      BY <1>8, <2>3, FS_EmptySet
    <3>2. Committed(k) = <<>>
      BY <2>1, <3>1
    <3> QED BY <2>1, <2>3, <3>1, <3>2
  <2> QED BY <2>2, <2>3
<1>10. History \in [Keys -> {<<>>} \cup {<<v>> : v \in Values}]
  <2>1. \A k \in Keys : History[k] \in {<<>>} \cup {<<v>> : v \in Values}
    BY <1>9, ValuesAssumption
  <2> QED BY <2>1 DEF History
<1>11. LandedCounts = [k \in Keys |-> Len(History[k])]
  BY <1>9 DEF LandedCounts
<1>12. store = [k \in Keys |-> IF LandedCounts[k] = 0 THEN Absent ELSE History[k][LandedCounts[k]]]
  <2>1. ASSUME NEW k \in Keys
        PROVE  store[k] = IF LandedCounts[k] = 0 THEN Absent ELSE History[k][LandedCounts[k]]
    <3>1. CASE k \in granted
      BY <1>6, <1>9, <3>1
    <3>2. CASE k \notin granted
      BY <1>6, <1>9, <3>2
    <3> QED BY <3>1, <3>2
  <2> QED BY <1>6, <2>1
<1> QED BY <1>7, <1>10, <1>11, <1>12 DEF Store!AbstractInit

\* Every step of the queue is a step of the projection, or is not seen.
LEMMA StepImplements ==
    ASSUME TypeOK, OrderInv, OrderInv', ShownInv', [Next]_vars
    PROVE  [Store!AbstractNext]_<<History, LandedCounts, store>>
<1> DEFINE Mapped == [Store!AbstractNext]_<<History, LandedCounts, store>>
<1>1. ASSUME UNCHANGED <<rows, rowState, store>> PROVE Mapped
  BY <1>1, Stutters
<1>2. CASE UNCHANGED vars
  BY <1>1, <1>2 DEF vars, rowVars
<1>3. ASSUME NEW k \in Keys, NEW kind \in Kinds, NEW v \in Values \cup {Absent}, Enqueue(k, kind, v)
      PROVE  Mapped
  BY <1>3, EnqueueStutters
<1>4. ASSUME NEW n \in RowNumbers, CommitChange(n) \/ RollbackChange(n) \/ BackedOff(n) PROVE Mapped
  <2>1. CASE CommitChange(n)
    BY <2>1, CommitRecords DEF Store!AbstractNext
  <2>2. CASE RollbackChange(n)
    BY <2>2, RollbackStutters
  <2>3. CASE BackedOff(n)
    BY <1>1, <2>3 DEF BackedOff
  <2> QED BY <1>4, <2>1, <2>2, <2>3
<1>5. ASSUME NEW w \in Workers, NEW n \in RowNumbers, ApplyNow(w, n) PROVE Mapped
  BY <1>1, <1>5 DEF ApplyNow, Take
<1>6. ASSUME NEW w \in Workers, Step(w) \/ Abort(w) PROVE Mapped
  <2>1. CASE Drain(w)
    BY <1>1, <2>1 DEF Drain, Take
  <2>2. CASE ReadOlder(w) \/ ReadLanded(w) \/ LockFinished(w) \/ ChooseMarkers(w) \/ Abort(w)
    BY <1>1, <2>2 DEF ReadOlder, ReadLanded, LockFinished, ChooseMarkers, Abort, rowVars
  <2>3. CASE CommitBatch(w)
    BY <2>3, BatchLands DEF Store!AbstractNext
  <2>4. ASSUME NEW n \in RowNumbers, CallOk(w, n) \/ CallFails(w, n) PROVE Mapped
    BY <2>4, CallDelivers DEF Store!AbstractNext
  <2> QED BY <1>6, <2>1, <2>2, <2>3, <2>4 DEF Step
<1> QED BY <1>2, <1>3, <1>4, <1>5, <1>6 DEF Next

\* The invariant of the refinement: with what orders the rows and the batches, the store
\* holds the last applied change of a key until a later one of the key is applied or
\* under way, so what it shows is explained by what has landed.
THEOREM ProjectionInv == Spec => [](OrderInv /\ AllPresent /\ ShownInv)
<1>1. Init => AllPresent
  BY StartsEmpty
<1>2. TypeOK /\ OrderInv /\ AllPresent /\ [Next]_vars => AllPresent'
  BY PresentStep
<1>3. TypeOK /\ OrderInv /\ AllPresent => ShownInv
  BY ShownByHistory DEF ShownInv
<1> QED BY <1>1, <1>2, <1>3, OutboxInvHolds, PTL DEF Spec

\* The queue implements the projection it promises (authz/outbox.py): whatever workers
\* overlap, fail or are cut off, the store takes the committed changes of a key in their
\* order, may be ahead of what is confirmed, and never shows what is older than it.
THEOREM QueueImplements == Spec => ImplementsProjection
<1>1. Init => Store!AbstractInit
  BY StartsEmpty
<1>2. /\ TypeOK /\ OrderInv /\ OrderInv' /\ ShownInv' /\ [Next]_vars
      => [Store!AbstractNext]_<<History, LandedCounts, store>>
  BY StepImplements
<1> QED BY <1>1, <1>2, OutboxInvHolds, ProjectionInv, PTL
    DEF Spec, ImplementsProjection, Store!Projection

=============================================================================
