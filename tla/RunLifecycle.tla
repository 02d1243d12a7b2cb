----------------------------- MODULE RunLifecycle -----------------------------
(***************************************************************************)
(* What the run table of one conversation promises, with no word about     *)
(* processes, tasks, heartbeats or the queue: a run is created only when   *)
(* no other run of the conversation is active, moves only along            *)
(* ALLOWED_TRANSITIONS, and never leaves a terminal status.                *)
(* ConversationRuns is the detailed specification that implements this.    *)
(***************************************************************************)
EXTENDS RunStatus

CONSTANT Runs
VARIABLE status

lifecycleVars == <<status>>

LifecycleInit == status = [r \in Runs |-> "none"]

\* One row is inserted ("queued") under the partial unique index on active runs.
Create(r) ==
    /\ status[r] = "none"
    /\ \A q \in Runs : status[q] \notin ActiveStatuses
    /\ status' = [status EXCEPT ![r] = "queued"]

\* One or several rows move along ALLOWED_TRANSITIONS in one transaction.
Move ==
    /\ status' \in [Runs -> RunStatuses \cup {"none"}]
    /\ \A r \in Runs : \/ status'[r] = status[r]
                       \/ <<status[r], status'[r]>> \in AllowedTransitions

LifecycleNext == Move \/ \E r \in Runs : Create(r)

Lifecycle == LifecycleInit /\ [][LifecycleNext]_lifecycleVars

-----------------------------------------------------------------------------

\* Status of a run is one the schema's CHECK constraint knows ("none": no row yet).
LifecycleTypeOK == status \in [Runs -> RunStatuses \cup {"none"}]

\* At most one run of the conversation is queued, running or canceling.
OneActiveRun ==
    \A r, q \in Runs :
        status[r] \in ActiveStatuses /\ status[q] \in ActiveStatuses => r = q

=============================================================================
