--------------------------- MODULE TupleProjection ---------------------------
(***************************************************************************)
(* What the projection queue promises for each tuple key: the store        *)
(* follows the committed changes of the key in their order.  It may be     *)
(* ahead of what is confirmed (a change was sent and its confirmation was  *)
(* lost) and may lack the tuple while a later change is under way; it      *)
(* never shows a value older than the last confirmed one.                  *)
(***************************************************************************)
EXTENDS Naturals, Sequences

CONSTANTS Keys, Values, Absent

VARIABLES
    history,    \* the committed values of a key, Absent for a revocation
    landed,     \* how many of them are confirmed
    stored      \* the value in the tuple store

\* The values that are still to be confirmed once the first n of a key are.
Ahead(k, n) == LET h == history[k] IN {h[i] : i \in n + 1 .. Len(h)}

\* What the store may show once the first n changes of a key are confirmed.
Shows(k, n) ==
    LET ahead == Ahead(k, n)
    IN  {IF n = 0 THEN Absent ELSE history[k][n]}
        \cup (IF ahead = {} THEN {} ELSE ahead \cup {Absent})

AbstractInit ==
    /\ history \in [Keys -> {<<>>} \cup {<<v>> : v \in Values}]
    /\ landed = [k \in Keys |-> Len(history[k])]
    /\ stored = [k \in Keys |-> IF landed[k] = 0 THEN Absent ELSE history[k][landed[k]]]

\* A change of a key is committed.
Record(k) ==
    /\ \E v \in Values \cup {Absent} : history' = [history EXCEPT ![k] = Append(@, v)]
    /\ UNCHANGED <<landed, stored>>

\* The store takes a change that is not confirmed yet, or the delete before it.
Deliver(k) ==
    /\ Ahead(k, landed[k]) # {}
    /\ stored' \in {[stored EXCEPT ![k] = v] : v \in Ahead(k, landed[k]) \cup {Absent}}
    /\ UNCHANGED <<history, landed>>

\* Changes are confirmed, when the store shows them.
Land ==
    /\ \A k \in Keys : /\ landed'[k] \in landed[k] .. Len(history[k])
                       /\ stored[k] \in Shows(k, landed'[k])
    /\ landed' = [k \in Keys |-> landed'[k]]
    /\ UNCHANGED <<history, stored>>

AbstractNext == Land \/ \E k \in Keys : Record(k) \/ Deliver(k)

Projection == AbstractInit /\ [][AbstractNext]_<<history, landed, stored>>
=============================================================================
