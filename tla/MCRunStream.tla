----------------------------- MODULE MCRunStream -----------------------------
(* Instances of RunStream for TLC. *)
EXTENDS RunStream

Scope(how, e, i, f, a) ==
    [delivery |-> how, events |-> e, inflight |-> i, failures |-> f, attaches |-> a]

\* The tables under failures and concurrent flushes, then the ring and the queues under
\* attachments, then both together with fewer events.
StreamScopes ==
    {Scope("chat", 3, 2, 2, 0), Scope("protocol", 4, 1, 2, 0),
     Scope("chat", 4, 1, 0, 2), Scope("protocol", 3, 1, 0, 2),
     Scope("chat", 2, 2, 1, 2), Scope("protocol", 3, 1, 1, 1)}

\* One failed flush of a chat run.
RetryScopes == {Scope("chat", 2, 2, 1, 2)}
=============================================================================
