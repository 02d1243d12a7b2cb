------------------------------ MODULE RunStatus ------------------------------
(***************************************************************************)
(* The status vocabulary of conversation_runs and its transition table     *)
(* (models/conversation_run.py, services/conversation_run_creation.py).    *)
(* "none" is not a status of the code: it marks a row not inserted yet.    *)
(***************************************************************************)

ActiveStatuses == {"queued", "running", "canceling"}
TerminalStatuses == {"completed", "failed", "interrupted", "canceled", "stale"}
RunStatuses == ActiveStatuses \cup TerminalStatuses

\* ALLOWED_TRANSITIONS, as the set of permitted <<from, to>> pairs.
AllowedTransitions ==
    ({"queued"} \X {"running", "failed", "stale", "canceling"})
        \cup ({"running"} \X {"completed", "failed", "interrupted", "canceling", "stale"})
        \cup ({"canceling"} \X {"canceled", "failed", "stale"})

\* Mutant of EffectiveTerminalStatus: a failure is reported although a cancel is due.
KeepFailedStatus(current, proposed, mayAcknowledge) ==
    IF proposed \notin {"stale", "failed"} /\ current = "canceling" /\ mayAcknowledge
    THEN "canceled"
    ELSE proposed

\* _effective_terminal_status: an owner (or the proof that nobody owns the run)
\* that finishes a run already asked to cancel acknowledges the cancel instead
\* of committing what it proposed; only "stale" is kept as proposed.
EffectiveTerminalStatus(current, proposed, mayAcknowledge) ==
    IF proposed # "stale" /\ current = "canceling" /\ mayAcknowledge
    THEN "canceled"
    ELSE proposed

=============================================================================
