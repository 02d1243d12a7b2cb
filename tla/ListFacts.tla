------------------------------ MODULE ListFacts ------------------------------
(***************************************************************************)
(* Facts about lists that are built row by row, for the proofs about the   *)
(* functions that read the trace tables (load_events, _dedupe_events and   *)
(* the filter of append_events in services/trace_storage.py).              *)
(***************************************************************************)
EXTENDS Naturals, FiniteSets, SequencesExt, SequenceTheorems, FiniteSetTheorems,
        WellFoundedInduction, TLAPS

\* A list is in increasing order.
Ascending(s) == \A i, j \in DOMAIN s : i < j => s[i] < s[j]

\* g[n] is a first list followed by the first n of the pieces.
Grows(S, g, first, piece, N) ==
    /\ N \in Nat /\ first \in Seq(S) /\ \A n \in 1 .. N : piece[n] \in Seq(S)
    /\ g[0] = first /\ \A n \in 1 .. N : g[n] = g[n - 1] \o piece[n]

\* The elements of the first n pieces.
ElementsTo(piece, n) == UNION {ToSet(piece[m]) : m \in 1 .. n}

\* A set of numbers has a smallest element.
LEMMA SmallestOf ==
    ASSUME NEW S \in SUBSET Nat, S # {}
    PROVE  \E x \in S : \A y \in S : x <= y
<1> DEFINE R == {ss \in Nat \X Nat : ss[1] < ss[2]}
<1>1. OpToRel(<, Nat) = R
  BY DEF OpToRel
<1>2. PICK x \in S : \A y \in S : <<y, x>> \notin R
  BY <1>1, WFMin, NatLessThanWellFounded
<1>3. ASSUME NEW y \in S PROVE x <= y
  <2>1. x \in Nat /\ y \in Nat
    OBVIOUS
  <2>2. y < x => <<y, x>> \in R
    BY <2>1
  <2>3. ~(y < x)
    BY <1>2, <2>2
  <2> QED BY <2>1, <2>3
<1> QED BY <1>3

\* Induction up to a bound, on a set.
LEMMA Climb ==
    ASSUME NEW N \in Nat, NEW P, 0 \in P, \A n \in 1 .. N : n - 1 \in P => n \in P
    PROVE  0 .. N \subseteq P
<1> SUFFICES ASSUME ~ (0 .. N \subseteq P) PROVE FALSE
  OBVIOUS
<1> DEFINE S == {n \in 0 .. N : n \notin P}
<1>1. PICK x \in S : \A y \in S : x <= y
  <2>1. S \in SUBSET Nat /\ S # {}
    OBVIOUS
  <2> QED BY <2>1, SmallestOf
<1>2. x \in 1 .. N
  OBVIOUS
<1>3. x - 1 \in 0 .. N /\ ~ (x <= x - 1)
  BY <1>2
<1>4. x - 1 \in P
  BY <1>1, <1>3
<1> QED BY <1>2, <1>4

-----------------------------------------------------------------------------
(* The elements of a list *)

\* The elements of a concatenation.
LEMMA ConcatElements ==
    ASSUME NEW S, NEW s \in Seq(S), NEW t \in Seq(S)
    PROVE  /\ s \o t \in Seq(S)
           /\ ToSet(s \o t) = ToSet(s) \cup ToSet(t)
<1>1. /\ s \o t \in Seq(S) /\ Len(s \o t) = Len(s) + Len(t)
      /\ \A i \in 1 .. Len(s) + Len(t) :
            (s \o t)[i] = IF i <= Len(s) THEN s[i] ELSE t[i - Len(s)]
  BY ConcatProperties
<1>2. /\ DOMAIN s = 1 .. Len(s) /\ DOMAIN t = 1 .. Len(t) /\ DOMAIN (s \o t) = 1 .. Len(s \o t)
      /\ Len(s) \in Nat /\ Len(t) \in Nat
  BY <1>1, LenProperties
<1>3. ASSUME NEW e \in ToSet(s \o t) PROVE e \in ToSet(s) \cup ToSet(t)
  <2>1. PICK i \in 1 .. Len(s) + Len(t) : e = (s \o t)[i]
    BY <1>1, <1>2 DEF ToSet
  <2>2. i <= Len(s) => i \in DOMAIN s /\ e = s[i]
    BY <1>1, <1>2, <2>1
  <2>3. ~ (i <= Len(s)) => i - Len(s) \in DOMAIN t /\ e = t[i - Len(s)]
    BY <1>1, <1>2, <2>1
  <2> QED BY <2>2, <2>3 DEF ToSet
<1>4. ASSUME NEW e \in ToSet(s) PROVE e \in ToSet(s \o t)
  <2>1. PICK i \in 1 .. Len(s) : e = s[i]
    BY <1>2 DEF ToSet
  <2>2. i \in DOMAIN (s \o t) /\ e = (s \o t)[i]
    BY <1>1, <1>2, <2>1
  <2> QED BY <2>2 DEF ToSet
<1>5. ASSUME NEW e \in ToSet(t) PROVE e \in ToSet(s \o t)
  <2>1. PICK i \in 1 .. Len(t) : e = t[i]
    BY <1>2 DEF ToSet
  <2>2. i + Len(s) \in 1 .. Len(s) + Len(t) /\ ~ (i + Len(s) <= Len(s)) /\ i + Len(s) - Len(s) = i
    BY <1>2
  <2>3. i + Len(s) \in DOMAIN (s \o t) /\ e = (s \o t)[i + Len(s)]
    BY <1>1, <1>2, <2>1, <2>2
  <2> QED BY <2>3 DEF ToSet
<1> QED BY <1>1, <1>3, <1>4, <1>5

\* Two lists in order, the first before the second, are in order together.
LEMMA ConcatAscending ==
    ASSUME NEW s \in Seq(Nat), NEW t \in Seq(Nat), Ascending(s), Ascending(t),
           \A x \in ToSet(s), y \in ToSet(t) : x < y
    PROVE  Ascending(s \o t)
<1>1. /\ s \o t \in Seq(Nat) /\ Len(s \o t) = Len(s) + Len(t)
      /\ \A i \in 1 .. Len(s) + Len(t) :
            (s \o t)[i] = IF i <= Len(s) THEN s[i] ELSE t[i - Len(s)]
  BY ConcatProperties
<1>2. /\ DOMAIN s = 1 .. Len(s) /\ DOMAIN t = 1 .. Len(t) /\ DOMAIN (s \o t) = 1 .. Len(s \o t)
      /\ Len(s) \in Nat /\ Len(t) \in Nat
  BY <1>1, LenProperties
<1>3. SUFFICES ASSUME NEW i \in DOMAIN (s \o t), NEW j \in DOMAIN (s \o t), i < j
               PROVE  (s \o t)[i] < (s \o t)[j]
  BY DEF Ascending
<1>4. i \in 1 .. Len(s) + Len(t) /\ j \in 1 .. Len(s) + Len(t)
  BY <1>1, <1>2
<1>5. CASE j <= Len(s)
  <2>1. i \in DOMAIN s /\ j \in DOMAIN s /\ (s \o t)[i] = s[i] /\ (s \o t)[j] = s[j]
    BY <1>1, <1>2, <1>3, <1>4, <1>5
  <2> QED BY <1>3, <2>1 DEF Ascending
<1>6. CASE ~ (j <= Len(s)) /\ i <= Len(s)
  <2>1. /\ i \in DOMAIN s /\ j - Len(s) \in DOMAIN t
        /\ (s \o t)[i] = s[i] /\ (s \o t)[j] = t[j - Len(s)]
    BY <1>1, <1>2, <1>4, <1>6
  <2>2. s[i] \in ToSet(s) /\ t[j - Len(s)] \in ToSet(t)
    BY <2>1 DEF ToSet
  <2> QED BY <2>1, <2>2
<1>7. CASE ~ (j <= Len(s)) /\ ~ (i <= Len(s))
  <2>1. /\ i - Len(s) \in DOMAIN t /\ j - Len(s) \in DOMAIN t /\ i - Len(s) < j - Len(s)
        /\ (s \o t)[i] = t[i - Len(s)] /\ (s \o t)[j] = t[j - Len(s)]
    BY <1>1, <1>2, <1>3, <1>4, <1>7
  <2> QED BY <2>1 DEF Ascending
<1> QED BY <1>5, <1>6, <1>7

\* The elements of a list are of its type.
LEMMA ElementsOf ==
    ASSUME NEW S, NEW s \in Seq(S)
    PROVE  /\ ToSet(s) \subseteq S /\ DOMAIN s = 1 .. Len(s) /\ Len(s) \in Nat
           /\ \A i \in DOMAIN s : s[i] \in ToSet(s)
           /\ s = <<>> <=> ToSet(s) = {}
<1>1. DOMAIN s = 1 .. Len(s) /\ Len(s) \in Nat /\ s \in [1 .. Len(s) -> S]
  BY LenProperties
<1>2. s # <<>> => Len(s) \in Nat \ {0}
  BY EmptySeq
<1>3. s # <<>> => 1 \in DOMAIN s
  BY <1>1, <1>2
<1>4. s = <<>> => Len(s) = 0
  BY EmptySeq
<1>5. s = <<>> => DOMAIN s = {}
  BY <1>1, <1>4
<1> QED BY <1>1, <1>3, <1>5 DEF ToSet

\* A list with other elements allowed.
LEMMA ListOfElements ==
    ASSUME NEW S, NEW T, NEW s \in Seq(S), ToSet(s) \subseteq T
    PROVE  s \in Seq(T)
<1>1. s \in [1 .. Len(s) -> S] /\ Len(s) \in Nat /\ DOMAIN s = 1 .. Len(s)
  BY LenProperties
<1>2. \A i \in 1 .. Len(s) : s[i] \in T
  BY <1>1 DEF ToSet
<1>3. s \in [1 .. Len(s) -> T]
  BY <1>1, <1>2
<1> QED BY <1>1, <1>3, SeqDef

\* A list of one element.
LEMMA OneElement ==
    ASSUME NEW S, NEW e \in S
    PROVE  /\ <<e>> \in Seq(S) /\ Len(<<e>>) = 1 /\ ToSet(<<e>>) = {e} /\ Ascending(<<e>>)
           /\ <<e>> # <<>>
<1>1. <<e>> \in Seq(S) /\ Len(<<e>>) = 1 /\ <<e>>[1] = e /\ DOMAIN <<e>> = {1}
  OBVIOUS
<1>2. ToSet(<<e>>) = {e}
  BY <1>1 DEF ToSet
<1>3. Ascending(<<e>>)
  BY <1>1 DEF Ascending
<1>4. <<e>> # <<>>
  BY <1>2, EmptySeq, ElementsOf
<1> QED BY <1>1, <1>2, <1>3, <1>4

\* What an appended element adds.
LEMMA AppendElements ==
    ASSUME NEW S, NEW s \in Seq(S), NEW e \in S
    PROVE  /\ Append(s, e) \in Seq(S) /\ Len(Append(s, e)) = Len(s) + 1
           /\ ToSet(Append(s, e)) = ToSet(s) \cup {e}
           /\ Append(s, e) # <<>>
<1> DEFINE t == <<e>>
<1>1. Append(s, e) = s \o t
  BY AppendIsConcat
<1>2. t \in Seq(S) /\ ToSet(t) = {e}
  BY OneElement
<1> HIDE DEF t
<1>3. ToSet(s \o t) = ToSet(s) \cup ToSet(t)
  BY <1>2, ConcatElements
<1>4. Append(s, e) \in Seq(S) /\ Append(s, e) # <<>> /\ Len(Append(s, e)) = Len(s) + 1
  BY AppendProperties
<1> QED BY <1>1, <1>2, <1>3, <1>4

\* An element after all others keeps a list in order.
LEMMA AppendAscending ==
    ASSUME NEW s \in Seq(Nat), NEW e \in Nat, Ascending(s), \A x \in ToSet(s) : x < e
    PROVE  Ascending(Append(s, e))
<1>1. Append(s, e) = s \o <<e>>
  BY AppendIsConcat
<1>2. <<e>> \in Seq(Nat) /\ ToSet(<<e>>) = {e} /\ Ascending(<<e>>)
  BY OneElement
<1>3. \A x \in ToSet(s), y \in ToSet(<<e>>) : x < y
  BY <1>2
<1>4. Ascending(s \o <<e>>)
  BY <1>2, <1>3, ConcatAscending
<1> QED BY <1>1, <1>4

\* The places of a list with an element appended.
LEMMA AppendPlaces ==
    ASSUME NEW S, NEW s \in Seq(S), NEW e \in S
    PROVE  /\ DOMAIN s = 1 .. Len(s) /\ Len(s) \in Nat
           /\ DOMAIN Append(s, e) = 1 .. Len(s) + 1
           /\ \A i \in 1 .. Len(s) : Append(s, e)[i] = s[i]
           /\ Append(s, e)[Len(s) + 1] = e
<1>1. Append(s, e) \in Seq(S) /\ Len(Append(s, e)) = Len(s) + 1
  BY AppendProperties
<1>2. DOMAIN s = 1 .. Len(s) /\ Len(s) \in Nat /\ DOMAIN Append(s, e) = 1 .. Len(s) + 1
  BY <1>1, LenProperties
<1> QED BY <1>2, AppendProperties

\* The first element of a list and the rest of it.
LEMMA TailFacts ==
    ASSUME NEW S, NEW s \in Seq(S), s # <<>>
    PROVE  /\ Len(s) \in Nat \ {0} /\ DOMAIN s = 1 .. Len(s)
           /\ Head(s) \in S /\ Head(s) = s[1]
           /\ Tail(s) \in Seq(S) /\ Len(Tail(s)) = Len(s) - 1 /\ DOMAIN Tail(s) = 1 .. Len(s) - 1
           /\ \A i \in 1 .. Len(s) - 1 : Tail(s)[i] = s[i + 1]
           /\ ToSet(s) = {Head(s)} \cup ToSet(Tail(s))
<1>1. Len(s) \in Nat \ {0} /\ DOMAIN s = 1 .. Len(s)
  BY EmptySeq, LenProperties
<1>2. /\ Head(s) \in S /\ Head(s) = s[1]
      /\ Tail(s) \in Seq(S) /\ Len(Tail(s)) = Len(s) - 1
      /\ \A i \in 1 .. Len(s) - 1 : Tail(s)[i] = s[i + 1]
  BY HeadTailProperties
<1>3. DOMAIN Tail(s) = 1 .. Len(s) - 1
  BY <1>2, LenProperties
<1>4. ASSUME NEW e \in ToSet(s) PROVE e \in {Head(s)} \cup ToSet(Tail(s))
  <2>1. PICK i \in 1 .. Len(s) : e = s[i]
    BY <1>1 DEF ToSet
  <2>2. CASE i = 1
    BY <1>2, <2>1, <2>2
  <2>3. CASE i # 1
    <3>1. i - 1 \in 1 .. Len(s) - 1 /\ (i - 1) + 1 = i
      BY <1>1, <2>3
    <3>2. Tail(s)[i - 1] = e /\ i - 1 \in DOMAIN Tail(s)
      BY <1>2, <1>3, <2>1, <3>1
    <3> QED BY <3>2 DEF ToSet
  <2> QED BY <2>2, <2>3
<1>5. ASSUME NEW e \in ToSet(Tail(s)) PROVE e \in ToSet(s)
  <2>1. PICK i \in 1 .. Len(s) - 1 : e = Tail(s)[i]
    BY <1>3 DEF ToSet
  <2>2. i + 1 \in DOMAIN s /\ s[i + 1] = e
    BY <1>1, <1>2, <2>1
  <2> QED BY <2>2 DEF ToSet
<1>6. Head(s) \in ToSet(s)
  BY <1>1, <1>2 DEF ToSet
<1> QED BY <1>1, <1>2, <1>3, <1>4, <1>5, <1>6

\* The end of a list from some place on.
LEMMA SuffixFacts ==
    ASSUME NEW S, NEW s \in Seq(S), NEW m \in 1 .. Len(s) + 1
    PROVE  /\ SubSeq(s, m, Len(s)) \in Seq(S)
           /\ Len(SubSeq(s, m, Len(s))) = Len(s) - m + 1
           /\ \A i \in 1 .. Len(s) - m + 1 : SubSeq(s, m, Len(s))[i] = s[m + i - 1]
           /\ ToSet(SubSeq(s, m, Len(s))) \subseteq ToSet(s)
           /\ Ascending(s) => Ascending(SubSeq(s, m, Len(s)))
<1> DEFINE t == SubSeq(s, m, Len(s))
<1>1. Len(s) \in Nat /\ DOMAIN s = 1 .. Len(s) /\ m \in Int /\ Len(s) \in Int
  BY LenProperties
<1>2. \A i \in m .. Len(s) : s[i] \in S
  BY <1>1, ElementOfSeq
<1>3. /\ t \in Seq(S) /\ Len(t) = IF m <= Len(s) THEN Len(s) - m + 1 ELSE 0
      /\ \A i \in 1 .. Len(s) - m + 1 : t[i] = s[m + i - 1]
  BY <1>1, <1>2, SubSeqProperties
<1> HIDE DEF t
<1>4. Len(t) = Len(s) - m + 1 /\ DOMAIN t = 1 .. Len(s) - m + 1
  <2>1. Len(t) = Len(s) - m + 1
    BY <1>1, <1>3
  <2> QED BY <1>3, <2>1, LenProperties
<1>5. \A i \in DOMAIN t : t[i] = s[m + i - 1] /\ m + i - 1 \in DOMAIN s
  BY <1>1, <1>3, <1>4
<1>6. ToSet(t) \subseteq ToSet(s)
  BY <1>5 DEF ToSet
<1>7. ASSUME Ascending(s) PROVE Ascending(t)
  <2> SUFFICES ASSUME NEW i \in DOMAIN t, NEW j \in DOMAIN t, i < j PROVE t[i] < t[j]
    BY DEF Ascending
  <2>1. m + i - 1 < m + j - 1
    BY <1>1, <1>4
  <2> QED BY <1>5, <1>7, <2>1 DEF Ascending
<1> QED BY <1>3, <1>4, <1>6, <1>7 DEF t

-----------------------------------------------------------------------------
(* A list that grows piece by piece *)

\* The lists it goes through exist.
LEMMA GrowthExists ==
    ASSUME NEW S, NEW N \in Nat, NEW first \in Seq(S), NEW piece,
           \A n \in 1 .. N : piece[n] \in Seq(S)
    PROVE  \E g \in [0 .. N -> Seq(S)] : Grows(S, g, first, piece, N)
<1> DEFINE P == {n \in 0 .. N : \E g \in [0 .. n -> Seq(S)] : Grows(S, g, first, piece, n)}
<1>1. 0 \in P
  <2>1. [n \in 0 .. 0 |-> first] \in [0 .. 0 -> Seq(S)]
    OBVIOUS
  <2>2. Grows(S, [n \in 0 .. 0 |-> first], first, piece, 0)
    BY DEF Grows
  <2> QED BY <2>1, <2>2
<1>2. ASSUME NEW n \in 1 .. N, n - 1 \in P PROVE n \in P
  <2>1. PICK g \in [0 .. n - 1 -> Seq(S)] : Grows(S, g, first, piece, n - 1)
    BY <1>2
  <2> DEFINE next == g[n - 1] \o piece[n]
             h == [m \in 0 .. n |-> IF m = n THEN next ELSE g[m]]
  <2>2. n - 1 \in 0 .. n - 1 /\ g[n - 1] \in Seq(S)
    BY <2>1
  <2>3. next \in Seq(S)
    BY <2>2, ConcatProperties
  <2> HIDE DEF next
  <2>4. h \in [0 .. n -> Seq(S)]
    BY <2>1, <2>3
  <2>5. h[0] = first
    BY <2>1 DEF Grows
  <2>6. ASSUME NEW m \in 1 .. n PROVE h[m] = h[m - 1] \o piece[m]
    <3>1. m \in 0 .. n /\ m - 1 \in 0 .. n /\ m - 1 # n
      OBVIOUS
    <3>2. h[m - 1] = g[m - 1] /\ h[m] = IF m = n THEN next ELSE g[m]
      BY <3>1
    <3>3. CASE m = n
      BY <3>2, <3>3 DEF next
    <3>4. CASE m # n
      <4>1. m \in 1 .. n - 1
        BY <3>4
      <4>2. g[m] = g[m - 1] \o piece[m]
        BY <2>1, <4>1 DEF Grows
      <4>3. h[m] = g[m]
        BY <3>2, <3>4
      <4> QED BY <3>2, <4>2, <4>3
    <3> HIDE DEF h
    <3> QED BY <3>3, <3>4
  <2> HIDE DEF h
  <2>7. Grows(S, h, first, piece, n)
    BY <2>5, <2>6 DEF Grows
  <2> QED BY <2>4, <2>7
<1>3. 0 .. N \subseteq P
  <2> HIDE DEF P
  <2> QED BY <1>1, <1>2, Climb
<1> QED BY <1>3

\* They hold the elements of the first list and of the pieces.
LEMMA GrowthElements ==
    ASSUME NEW S, NEW N, NEW first, NEW piece, NEW g, Grows(S, g, first, piece, N), NEW n \in 0 .. N
    PROVE  g[n] \in Seq(S) /\ ToSet(g[n]) = ToSet(first) \cup ElementsTo(piece, n)
<1> DEFINE P == {m \in 0 .. N : /\ g[m] \in Seq(S)
                                /\ ToSet(g[m]) = ToSet(first) \cup ElementsTo(piece, m)}
<1>0. N \in Nat
  BY DEF Grows
<1>1. 0 \in P
  <2>1. ElementsTo(piece, 0) = {}
    BY DEF ElementsTo
  <2> QED BY <2>1 DEF Grows
<1>2. ASSUME NEW m \in 1 .. N, m - 1 \in P PROVE m \in P
  <2>1. g[m] = g[m - 1] \o piece[m] /\ piece[m] \in Seq(S)
    BY DEF Grows
  <2>2. g[m] \in Seq(S) /\ ToSet(g[m]) = ToSet(g[m - 1]) \cup ToSet(piece[m])
    BY <1>2, <2>1, ConcatElements
  <2>3. 1 .. m = (1 .. m - 1) \cup {m} /\ m \in 0 .. N
    BY <1>0
  <2>4. ElementsTo(piece, m) = ElementsTo(piece, m - 1) \cup ToSet(piece[m])
    BY <2>3 DEF ElementsTo
  <2>5. ToSet(g[m - 1]) = ToSet(first) \cup ElementsTo(piece, m - 1)
    BY <1>2
  <2>6. ToSet(g[m]) = ToSet(first) \cup ElementsTo(piece, m)
    BY <2>2, <2>4, <2>5
  <2> QED BY <2>2, <2>3, <2>6
<1>3. 0 .. N \subseteq P
  <2> HIDE DEF P
  <2> QED BY <1>0, <1>1, <1>2, Climb
<1>4. n \in P
  BY <1>3
<1> QED BY <1>4

\* They are in order when every piece is, and follows what is before it.
LEMMA GrowthAscending ==
    ASSUME NEW N, NEW first, NEW piece, NEW g, Grows(Nat, g, first, piece, N), NEW n \in 0 .. N,
           Ascending(first), \A m \in 1 .. N : Ascending(piece[m]),
           \A m \in 1 .. N : \A x \in ToSet(g[m - 1]), y \in ToSet(piece[m]) : x < y
    PROVE  Ascending(g[n])
<1> DEFINE P == {m \in 0 .. N : Ascending(g[m])}
<1>0. N \in Nat
  BY DEF Grows
<1>1. 0 \in P
  BY <1>0 DEF Grows
<1>2. ASSUME NEW m \in 1 .. N, m - 1 \in P PROVE m \in P
  <2>1. g[m] = g[m - 1] \o piece[m] /\ piece[m] \in Seq(Nat)
    BY DEF Grows
  <2>2. m - 1 \in 0 .. N /\ m \in 0 .. N
    BY <1>0
  <2>3. g[m - 1] \in Seq(Nat)
    BY <2>2, GrowthElements
  <2>4. Ascending(g[m - 1])
    BY <1>2
  <2>5. Ascending(g[m - 1] \o piece[m])
    BY <2>1, <2>3, <2>4, ConcatAscending
  <2>6. Ascending(g[m])
    BY <2>1, <2>5
  <2> QED BY <2>2, <2>6
<1>3. 0 .. N \subseteq P
  <2> HIDE DEF P
  <2> QED BY <1>0, <1>1, <1>2, Climb
<1> QED BY <1>3

\* What follows a list ends it.
LEMMA ConcatLast ==
    ASSUME NEW S, NEW s \in Seq(S), NEW t \in Seq(S), t # <<>>
    PROVE  (s \o t)[Len(s \o t)] = t[Len(t)]
<1>1. Len(t) \in Nat \ {0} /\ Len(s) \in Nat
  BY EmptySeq, LenProperties
<1>2. /\ Len(s \o t) = Len(s) + Len(t)
      /\ \A i \in 1 .. Len(s) + Len(t) : (s \o t)[i] = IF i <= Len(s) THEN s[i] ELSE t[i - Len(s)]
  BY ConcatProperties
<1>3. /\ Len(s) + Len(t) \in 1 .. Len(s) + Len(t) /\ ~ (Len(s) + Len(t) <= Len(s))
      /\ Len(s) + Len(t) - Len(s) = Len(t)
  BY <1>1
<1> QED BY <1>2, <1>3

-----------------------------------------------------------------------------
(* A list with some of its places dropped *)

\* g[n] is what is left of the first n elements of s: a piece is its element or empty.
Sieves(S, s, g, piece) ==
    /\ s \in Seq(S) /\ Grows(S, g, <<>>, piece, Len(s))
    /\ \A n \in 1 .. Len(s) : piece[n] = <<>> \/ piece[n] = <<s[n]>>

\* A piece is a list in order of at most the element of its place.
LEMMA SievedPiece ==
    ASSUME NEW S, NEW s, NEW g, NEW piece, Sieves(S, s, g, piece), NEW n \in 1 .. Len(s)
    PROVE  /\ piece[n] \in Seq(S) /\ Ascending(piece[n])
           /\ \A e \in ToSet(piece[n]) : e = s[n]
<1>1. s[n] \in S
  BY ElementOfSeq DEF Sieves
<1>2. piece[n] = <<>> \/ piece[n] = <<s[n]>>
  BY DEF Sieves
<1>3. <<>> \in Seq(S) /\ ToSet(<<>>) = {} /\ Ascending(<<>>)
  BY DEF ToSet, Ascending
<1>4. <<s[n]>> \in Seq(S) /\ ToSet(<<s[n]>>) = {s[n]} /\ Ascending(<<s[n]>>) /\ <<s[n]>> # <<>>
  BY <1>1, OneElement
<1> QED BY <1>2, <1>3, <1>4

\* What is left are the elements of the pieces.
LEMMA SieveElements ==
    ASSUME NEW S, NEW s, NEW g, NEW piece, Sieves(S, s, g, piece), NEW n \in 0 .. Len(s)
    PROVE  /\ g[n] \in Seq(S) /\ ToSet(g[n]) = ElementsTo(piece, n)
           /\ \A e \in ElementsTo(piece, n) : \E m \in 1 .. n : e = s[m]
<1>1. Grows(S, g, <<>>, piece, Len(s)) /\ Len(s) \in Nat
  BY DEF Sieves, Grows
<1>2. g[n] \in Seq(S) /\ ToSet(g[n]) = ToSet(<<>>) \cup ElementsTo(piece, n)
  BY <1>1, GrowthElements
<1>3. ToSet(<<>>) = {}
  BY DEF ToSet
<1>4. ASSUME NEW e \in ElementsTo(piece, n) PROVE \E m \in 1 .. n : e = s[m]
  <2>1. PICK m \in 1 .. n : e \in ToSet(piece[m])
    BY DEF ElementsTo
  <2>2. m \in 1 .. Len(s)
    BY <1>1
  <2>3. e = s[m]
    BY <2>1, <2>2, SievedPiece
  <2> QED BY <2>3
<1> QED BY <1>2, <1>3, <1>4

\* A list in order stays in order.
LEMMA SieveAscending ==
    ASSUME NEW s, NEW g, NEW piece, Sieves(Nat, s, g, piece), NEW n \in 0 .. Len(s), Ascending(s)
    PROVE  Ascending(g[n])
<1>0. s \in Seq(Nat) /\ Grows(Nat, g, <<>>, piece, Len(s))
  BY DEF Sieves
<1>1. Len(s) \in Nat /\ DOMAIN s = 1 .. Len(s) /\ Ascending(<<>>)
  BY <1>0, LenProperties DEF Ascending
<1>2. \A m \in 1 .. Len(s) : Ascending(piece[m])
  BY SievedPiece
<1>3. ASSUME NEW m \in 1 .. Len(s), NEW x \in ToSet(g[m - 1]), NEW y \in ToSet(piece[m]) PROVE x < y
  <2> DEFINE k == m - 1
  <2>1. k \in 0 .. Len(s) /\ k = m - 1 /\ x \in ToSet(g[k])
    BY <1>1
  <2> HIDE DEF k
  <2>2. x \in ElementsTo(piece, k)
    BY <2>1, SieveElements
  <2>3. PICK i \in 1 .. k : x = s[i]
    BY <2>1, <2>2, SieveElements
  <2>4. i \in DOMAIN s /\ m \in DOMAIN s /\ i < m
    BY <1>1, <2>1
  <2>5. s[i] < s[m]
    BY <2>4 DEF Ascending
  <2>6. y = s[m]
    BY SievedPiece
  <2> QED BY <2>3, <2>5, <2>6
<1> QED BY <1>0, <1>1, <1>2, <1>3, GrowthAscending
=============================================================================
