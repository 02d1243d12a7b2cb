-------------------------- MODULE ConversationRuns --------------------------
(***************************************************************************)
(* The run lifecycle and the input queue of ONE conversation, as several   *)
(* backend processes drive it: HTTP handlers, the task that executes a     *)
(* run, its heartbeat, the queue dispatcher, the recovery and stale        *)
(* sweeps of the scheduler, graceful shutdown and crash.  Locks, indexes   *)
(* and queries of the code are per conversation, so one is enough.         *)
(*                                                                         *)
(* A transaction that takes the conversation or the run row FOR UPDATE is  *)
(* one step.  What a handler carries from one transaction to the next is   *)
(* state: `launching` (run created, its task not started yet), the task's  *)
(* program counter, and `agUiRead` (the one reader that writes the run     *)
(* without its row lock).  The calls of dispatch_next_for_conversation     *)
(* that end a run, an enqueue, a promote and a queue resume are not        *)
(* recorded, and neither is which process leads the scheduler: every       *)
(* process sweeps and recovers when it starts, and the leadership moves,   *)
(* so any live process may claim, recover or sweep whenever the guards     *)
(* hold.  Only the fairness below is about the leader.                     *)
(*                                                                         *)
(* Time appears as beatFresh: whether the heartbeat is younger than        *)
(* chat_run_stale_after_seconds.  Authority to run the agent is decided    *)
(* elsewhere (archive, emergency stop, OpenFGA); every check of it here    *)
(* may go either way.  cancel_reason keeps what the code tells apart:      *)
(* "stop" (which stands for "steer" too), "shutdown", and Revoked for      *)
(* "authority_revoked", "agent_archived" and "emergency_stop", which the   *)
(* row may hold and a task's registry entry may not.                       *)
(***************************************************************************)
EXTENDS RunStatus, Integers, FiniteSets

CONSTANTS
    Runs,       \* run ids, in creation order
    Inputs,     \* client request ids of chat inputs
    Workers,    \* process instances (a restart is a new worker_instance_id)
    NoWorker,   \* SQL NULL in worker_instance_id
    Revoked,    \* cancel_reason of a run whose authority, agent or company was stopped
    DbMayFail,  \* whether the finalizer's, the shutdown's and the poll's statements may fail
    AgUiAttach, \* whether clients attach through the ag-ui route
    RowsChange  \* whether an input, its run and their conversation may be made to disagree

NoRun == 0

ASSUME RunsAssumption == Runs \subseteq Nat \ {NoRun}
ASSUME NullAssumption == NoWorker \notin Workers
ASSUME SwitchAssumption == {DbMayFail, AgUiAttach, RowsChange} \subseteq BOOLEAN

VARIABLES
    \* conversation_runs: one function per column, and the sets of runs whose
    \* cancel_requested_at or cancellation_acknowledged_at is set, or heartbeat is fresh
    status, worker, cancelRequested, acknowledged, cancelReason, beatFresh, parent,
    \* conversation_run_inputs and conversations.queue_paused
    inputStatus, inputRun, priority, position, queuePaused,
    \* inputs found with columns that disagree with those of their run or conversation
    unbound,
    \* the processes, their run tasks (RunTaskRegistry) and handlers in flight
    process, task, intent, proposed, launching, agUiRead,
    \* terminal events the owner held back and published after its commit
    published

runVars == <<status, worker, cancelRequested, acknowledged, cancelReason, beatFresh>>
inputVars == <<inputStatus, inputRun, priority, position, unbound>>
taskVars == <<task, intent, proposed>>
flightVars == <<launching, agUiRead>>
vars == <<runVars, parent, inputVars, queuePaused, process, taskVars, flightVars, published>>

\* Program counter of _run_conversation: "prep" until the run is started, "begun"
\* between the commit of "running" and finalize_needed, "exec" in the executor,
\* "deaf" in it after its heartbeat has ended, "fin" from mark_finishing to
\* registry.discard.
TaskStates == {"none", "prep", "begun", "exec", "deaf", "fin"}
\* The reasons of the registry (CancelReason), and those of the row, a free string.
CancelReasons == {"none", "stop", "shutdown"}
RowReasons == CancelReasons \cup {Revoked}
\* What a body may propose.  "error" is "failed" by an exception (its event was
\* published at once); "prestart" is "canceled" seen before the run started.
Proposals == {"none", "completed", "failed", "interrupted", "error",
              "canceled", "stale", "prestart"}

RunTypeOK ==
    /\ status \in [Runs -> RunStatuses \cup {"none"}]
    /\ worker \in [Runs -> Workers \cup {NoWorker}]
    /\ cancelRequested \subseteq Runs
    /\ acknowledged \subseteq Runs
    /\ cancelReason \in [Runs -> RowReasons]
    /\ beatFresh \subseteq Runs
    /\ parent \in [Runs -> Runs \cup {NoRun}]

QueueTypeOK ==
    /\ inputStatus \in [Inputs -> {"none", "pending", "claimed", "canceled", "failed"}]
    /\ inputRun \in [Inputs -> Runs \cup {NoRun}]
    /\ priority \in [Inputs -> {0, 100}]
    /\ position \in [Inputs -> Nat]
    /\ queuePaused \in BOOLEAN
    /\ unbound \subseteq Inputs

ProcessTypeOK ==
    /\ process \in [Workers -> {"new", "up", "stopping", "down"}]
    /\ task \in [Workers -> [Runs -> TaskStates]]
    /\ intent \in [Workers -> [Runs -> CancelReasons]]
    /\ proposed \in [Workers -> [Runs -> Proposals]]
    /\ launching \subseteq Workers \X Runs
    /\ agUiRead \in [Workers -> Runs \cup {NoRun}]
    /\ published \in [Runs -> TerminalStatuses \cup {"none"}]

\* Every column and registry entry has one of the values its code may hold; a cancel
\* reason reaches the registry only as one it knows.
TypeOK == RunTypeOK /\ QueueTypeOK /\ ProcessTypeOK

Init ==
    /\ status = [r \in Runs |-> "none"]
    /\ worker = [r \in Runs |-> NoWorker]
    /\ cancelRequested = {}
    /\ acknowledged = {}
    /\ cancelReason = [r \in Runs |-> "none"]
    /\ beatFresh = {}
    /\ parent = [r \in Runs |-> NoRun]
    /\ inputStatus = [i \in Inputs |-> "none"]
    /\ inputRun = [i \in Inputs |-> NoRun]
    /\ priority = [i \in Inputs |-> 0]
    /\ position = [i \in Inputs |-> 0]
    /\ queuePaused = FALSE
    /\ unbound = {}
    /\ process = [w \in Workers |-> "new"]
    /\ task = [w \in Workers |-> [r \in Runs |-> "none"]]
    /\ intent = [w \in Workers |-> [r \in Runs |-> "none"]]
    /\ proposed = [w \in Workers |-> [r \in Runs |-> "none"]]
    /\ launching = {}
    /\ agUiRead = [w \in Workers |-> NoRun]
    /\ published = [r \in Runs |-> "none"]

-----------------------------------------------------------------------------
(* Queries *)

Active(r) == status[r] \in ActiveStatuses
\* Mutant of NoActiveRun: a run being canceled does not count as active.
NoActiveRunButCanceling == \A r \in Runs : status[r] \notin {"queued", "running"}
NoActiveRun == \A r \in Runs : ~Active(r)

\* RunTaskRegistry.active_run_ids of one process.
Registered(w, r) == task[w][r] # "none"
\* HTTP handlers start only while the process serves requests; tasks, handlers in
\* flight and the scheduler (closed after the run registry) go on until it exits.
Serving(w) == process[w] = "up"
Alive(w) == process[w] \in {"up", "stopping"}
\* The executor of run r may be calling models and tools in process w.
Executing(w, r) == task[w][r] \in {"begun", "exec", "deaf"}

\* _latest_interrupted_run: interrupted and not resumed yet, the latest to complete
\* (runs of one conversation complete in creation order).
WaitingInterrupts ==
    {r \in Runs : status[r] = "interrupted" /\ \A c \in Runs : parent[c] # r}
LatestInterrupted(r) == r \in WaitingInterrupts /\ \A q \in WaitingInterrupts : q <= r

\* Mutant of UnacknowledgedCancel: only an active run holds the queue back.
UnfinishedCancel == \E r \in Runs : r \in cancelRequested /\ Active(r)
UnacknowledgedCancel == \E r \in Runs : r \in cancelRequested /\ r \notin acknowledged

PendingInputs == {i \in Inputs : inputStatus[i] = "pending"}
\* ORDER BY priority DESC, position LIMIT 1
NextInput(i) ==
    /\ i \in PendingInputs
    /\ \A j \in PendingInputs \ {i} :
          \/ priority[i] > priority[j]
          \/ priority[i] = priority[j] /\ position[i] <= position[j]
\* max(position) + 1 over the conversation's inputs
NewPosition(p) ==
    /\ \A j \in Inputs : position[j] < p
    /\ p = 1 \/ \E j \in Inputs : position[j] = p - 1

-----------------------------------------------------------------------------
(* The run row *)

\* transition_run: the single entry point of a status change.  acker says that
\* the caller proved itself the owner (or the run ownerless), by which a terminal
\* status acknowledges a requested cancel.
TransitionRun(r, to, w, acker) ==
    /\ <<status[r], to>> \in AllowedTransitions
    /\ status' = [status EXCEPT ![r] = to]
    /\ worker' = [worker EXCEPT ![r] = IF to = "running" THEN w ELSE @]
    /\ beatFresh' = IF to = "running" THEN beatFresh \cup {r} ELSE beatFresh
    /\ cancelRequested' = IF to = "canceling" THEN cancelRequested \cup {r} ELSE cancelRequested
    /\ acknowledged' = IF to \in TerminalStatuses /\ r \in cancelRequested /\ acker
                       THEN acknowledged \cup {r} ELSE acknowledged

\* request_cancel_run: no effect on a run that is terminal or already canceling.
RequestCancelRun(r, reason) ==
    \/ /\ status[r] \in {"queued", "running"}
       /\ TransitionRun(r, "canceling", NoWorker, FALSE)
       /\ cancelReason' = [cancelReason EXCEPT ![r] = reason]
    \/ /\ status[r] \notin {"queued", "running"}
       /\ UNCHANGED runVars

\* RunTaskRegistry.request_cancel in process w: ignored once the task is finishing.
RequestLocalCancel(w, r, reason) ==
    intent' = IF task[w][r] \in {"prep", "begun", "exec", "deaf"}
              THEN [intent EXCEPT ![w][r] = reason] ELSE intent

\* create_run_from_locked_proof: one more "queued" row, if none is active.
CreateRun(r, p) ==
    /\ NoActiveRun
    /\ status[r] = "none"
    /\ \A q \in Runs : status[q] = "none" => r <= q
    /\ status' = [status EXCEPT ![r] = "queued"]
    /\ beatFresh' = beatFresh \cup {r}
    /\ parent' = [parent EXCEPT ![r] = p]
    /\ UNCHANGED <<worker, cancelRequested, acknowledged, cancelReason>>

\* The cancel of the active run, if any, in favour of a steering input, and the
\* notice to its task when it runs in the handler's process.
SteerActiveRun(w) ==
    \/ \E r \in Runs : /\ Active(r)
                       /\ RequestCancelRun(r, "stop")
                       /\ RequestLocalCancel(w, r, "stop")
    \/ NoActiveRun /\ UNCHANGED <<runVars, intent>>

-----------------------------------------------------------------------------
(* HTTP handlers *)

\* persist_direct_run_start, persist_direct_input: a run and its claimed input.
StartDirect(w, i) ==
    /\ Serving(w)
    /\ inputStatus[i] = "none"
    /\ \E r \in Runs :
          /\ CreateRun(r, NoRun)
          /\ inputRun' = [inputRun EXCEPT ![i] = r]
          /\ launching' = launching \cup {<<w, r>>}
    /\ inputStatus' = [inputStatus EXCEPT ![i] = "claimed"]
    /\ \E p \in 1..(Cardinality(Inputs) + 1) :
          NewPosition(p) /\ position' = [position EXCEPT ![i] = p]
    /\ UNCHANGED <<priority, unbound, queuePaused, process, taskVars, agUiRead, published>>

\* Regenerate, edit and the legacy chat routes: a run with no input row.
StartFork(w) ==
    /\ Serving(w)
    /\ \E r \in Runs :
          /\ CreateRun(r, NoRun)
          /\ launching' = launching \cup {<<w, r>>}
    /\ UNCHANGED <<inputVars, queuePaused, process, taskVars, agUiRead,
                   published>>

\* A decision on the latest interrupted run creates the run that resumes it.
ResumeInterrupted(w) ==
    /\ Serving(w)
    /\ \E r, p \in Runs :
          /\ LatestInterrupted(p)
          /\ CreateRun(r, p)
          /\ launching' = launching \cup {<<w, r>>}
    /\ UNCHANGED <<inputVars, queuePaused, process, taskVars, agUiRead,
                   published>>

\* enqueue_input_with_result of a new request (a repeated one changes nothing).  The
\* interrupt strategy (priority 100) cancels the active run.  QUEUE_HITL_PENDING is
\* decided before the conversation is locked, by a read that may be arbitrarily old
\* when the row is inserted: it guards nothing here.
EnqueueInput(w, i, prio) ==
    /\ Serving(w)
    /\ inputStatus[i] = "none"
    /\ inputStatus' = [inputStatus EXCEPT ![i] = "pending"]
    /\ priority' = [priority EXCEPT ![i] = prio]
    /\ \E p \in 1..(Cardinality(Inputs) + 1) :
          NewPosition(p) /\ position' = [position EXCEPT ![i] = p]
    /\ IF prio = 100 THEN SteerActiveRun(w) ELSE UNCHANGED <<runVars, intent>>
    /\ UNCHANGED <<parent, inputRun, unbound, queuePaused, process, task, proposed,
                   flightVars, published>>

\* delete_pending_input
DeleteInput(w, i) ==
    /\ Serving(w)
    /\ inputStatus[i] = "pending"
    /\ inputStatus' = [inputStatus EXCEPT ![i] = "canceled"]
    /\ UNCHANGED <<runVars, parent, inputRun, priority, position, unbound, queuePaused,
                   process, taskVars, flightVars, published>>

\* promote_pending_input: a pending input jumps the queue and steers the active run.
PromoteInput(w, i) ==
    /\ Serving(w)
    /\ ~queuePaused
    /\ inputStatus[i] = "pending"
    /\ priority[i] < 100
    /\ WaitingInterrupts = {}
    /\ priority' = [priority EXCEPT ![i] = 100]
    /\ SteerActiveRun(w)
    /\ UNCHANGED <<parent, inputStatus, inputRun, position, unbound, queuePaused, process,
                   task, proposed, flightVars, published>>

\* reorder_pending_inputs: positions 1..n for the n pending inputs.
ReorderInputs(w) ==
    /\ Serving(w)
    /\ \E order \in [PendingInputs -> 1..Cardinality(PendingInputs)] :
          /\ \A i, j \in PendingInputs : order[i] = order[j] => i = j
          /\ position' = [i \in Inputs |-> IF i \in PendingInputs
                                           THEN order[i] ELSE position[i]]
    /\ UNCHANGED <<runVars, parent, inputStatus, inputRun, priority, unbound, queuePaused,
                   process, taskVars, flightVars, published>>

\* resume_queue and its route
ResumeQueue(w) ==
    /\ Serving(w)
    /\ queuePaused' = FALSE
    /\ UNCHANGED <<runVars, parent, inputVars, process, taskVars, flightVars, published>>

\* cancel_owned_conversation_run: Stop also pauses the queue.
CancelRun(w, r) ==
    /\ Serving(w)
    /\ Active(r)
    /\ RequestCancelRun(r, "stop")
    /\ queuePaused' = TRUE
    /\ IF status[r] = "canceling" THEN UNCHANGED intent
                                  ELSE RequestLocalCancel(w, r, "stop")
    /\ UNCHANGED <<parent, inputVars, process, task, proposed, flightVars, published>>

\* Deleting an agent: stage_cancel_intent on its active run, then notify_local_owner.
\* The queue is not paused.
StageCancelIntent(w, r) ==
    /\ Serving(w)
    /\ Active(r)
    /\ RequestCancelRun(r, Revoked)
    /\ IF worker[r] = w THEN RequestLocalCancel(w, r, "stop") ELSE UNCHANGED intent
    /\ UNCHANGED <<parent, inputVars, queuePaused, process, task, proposed, flightVars,
                   published>>

\* The emergency stop: every active run of the agent, with a notice to the local task
\* of a run that was canceling already as well.
EmergencyStop(w, r) ==
    /\ Serving(w)
    /\ Active(r)
    /\ RequestCancelRun(r, Revoked)
    /\ RequestLocalCancel(w, r, "stop")
    /\ UNCHANGED <<parent, inputVars, queuePaused, process, task, proposed, flightVars,
                   published>>

-----------------------------------------------------------------------------
(* The queue worker *)

\* claim_next_input: the next input is bound to a new run.  Where it is not eligible
\* nothing is committed: the pause set for an unacknowledged predecessor is rolled back
\* with the session of dispatch_next_for_conversation.
ClaimNextInput(w) ==
    /\ Alive(w)
    /\ ~queuePaused
    /\ ~UnacknowledgedCancel
    /\ WaitingInterrupts = {}
    /\ \E r \in Runs, i \in Inputs :
          /\ NextInput(i)
          /\ CreateRun(r, NoRun)
          /\ inputStatus' = [inputStatus EXCEPT ![i] = "claimed"]
          /\ inputRun' = [inputRun EXCEPT ![i] = r]
          /\ launching' = launching \cup {<<w, r>>}
    /\ UNCHANGED <<priority, position, unbound, queuePaused, process, taskVars, agUiRead,
                   published>>

\* pause_blocked_queue: a dispatch that is definitely denied commits the pause.
PauseBlockedQueue(w) ==
    /\ Alive(w)
    /\ queuePaused' = TRUE
    /\ UNCHANGED <<runVars, parent, inputVars, process, taskVars, flightVars, published>>

\* recover_conversation_queue lists inputs claimed for a run that was never started
\* and has no task here, and launches them as the claiming process would.
RecoverableClaim(r) ==
    /\ status[r] = "queued"
    /\ worker[r] = NoWorker
    /\ \E i \in Inputs : inputStatus[i] = "claimed" /\ inputRun[i] = r

\* start_conversation_run, by the handler that created the run, by the claimer or by
\* recovery: the task is registered whatever the row's status is by now.
LaunchStart(w, r) ==
    /\ Alive(w)
    /\ <<w, r>> \in launching \/ RecoverableClaim(r)
    /\ ~Registered(w, r)
    /\ task' = [task EXCEPT ![w][r] = "prep"]
    /\ launching' = launching \ {<<w, r>>}
    /\ UNCHANGED <<runVars, parent, inputVars, queuePaused, process, intent, proposed,
                   agUiRead, published>>

\* The task exists already, the input is no longer claimed, or start_conversation_run
\* raised (authority lost): the row is left to recovery or to the stale sweep.
LaunchSkip(w, r) ==
    /\ Alive(w)
    /\ <<w, r>> \in launching
    /\ launching' = launching \ {<<w, r>>}
    /\ UNCHANGED <<runVars, parent, inputVars, queuePaused, process, taskVars, agUiRead,
                   published>>

\* Mutant of FailClaimedInput: any active run is failed, not only one still queued.
FailClaimedInputLate(w, r, i) ==
    /\ Alive(w)
    /\ inputRun[i] = r
    /\ inputStatus[i] = "claimed"
    /\ inputStatus' = [inputStatus EXCEPT ![i] = "failed"]
    /\ TransitionRun(r, "failed", NoWorker, FALSE)
    /\ launching' = launching \ {<<w, r>>}
    /\ UNCHANGED <<cancelReason, parent, inputRun, priority, position, unbound, queuePaused,
                   process, taskVars, agUiRead, published>>

\* _fail_claimed_input: the input cannot be rebuilt or its owner may not run it.  A run
\* that is not "queued" any more is left alone, which is LaunchSkip.
FailClaimedInput(w, r, i) ==
    /\ Alive(w)
    /\ inputRun[i] = r
    /\ inputStatus[i] = "claimed"
    /\ status[r] = "queued"
    /\ inputStatus' = [inputStatus EXCEPT ![i] = "failed"]
    /\ TransitionRun(r, "failed", NoWorker, FALSE)
    /\ launching' = launching \ {<<w, r>>}
    /\ UNCHANGED <<cancelReason, parent, inputRun, priority, position, unbound, queuePaused,
                   process, taskVars, agUiRead, published>>

\* _fail_claimed_input, queue_binding_matches is false: conversation, user or agent of the
\* three rows disagree (a change from outside, no code here makes it).  The input is
\* failed all the same and the run is left as it is, queued.
FailUnboundInput(w, r, i) ==
    /\ RowsChange
    /\ Alive(w)
    /\ inputRun[i] = r
    /\ inputStatus[i] = "claimed"
    /\ status[r] = "queued"
    /\ inputStatus' = [inputStatus EXCEPT ![i] = "failed"]
    /\ unbound' = unbound \cup {i}
    /\ launching' = launching \ {<<w, r>>}
    /\ UNCHANGED <<runVars, parent, inputRun, priority, position, queuePaused, process,
                   taskVars, agUiRead, published>>

\* Mutant of WorkerlessCancel: no local task is taken for no owner at all.
UnregisteredCancel(w, r) == status[r] = "canceling" /\ ~Registered(w, r)
\* Mutant of WorkerlessCancel: only runs with an input are looked for.
WorkerlessInputCancel(w, r) ==
    /\ status[r] = "canceling"
    /\ worker[r] = NoWorker
    /\ ~Registered(w, r)
    /\ \E i \in Inputs : inputRun[i] = r

\* finalize_workerless_cancel_before_start: which runs process w may finalize.
WorkerlessCancel(w, r) ==
    /\ status[r] = "canceling"
    /\ worker[r] = NoWorker
    /\ ~Registered(w, r)

\* finalize_workerless_cancel_before_start: the cancel of a run nobody owns is
\* acknowledged and its input retracted.
FinalizeWorkerless(w, r) ==
    /\ Alive(w)
    /\ WorkerlessCancel(w, r)
    /\ TransitionRun(r, "canceled", NoWorker, TRUE)
    /\ inputStatus' = [i \in Inputs |-> IF inputRun[i] = r THEN "canceled" ELSE inputStatus[i]]
    /\ inputRun' = [i \in Inputs |-> IF inputRun[i] = r THEN NoRun ELSE inputRun[i]]
    /\ UNCHANGED <<cancelReason, parent, priority, position, unbound, queuePaused, process,
                   taskVars, flightVars, published>>

-----------------------------------------------------------------------------
(* The run task: _run_conversation *)

\* The coroutine ends without finalization: discarded, no dispatch.
DropTask(w, r) ==
    /\ task' = [task EXCEPT ![w][r] = "none"]
    /\ intent' = [intent EXCEPT ![w][r] = "none"]
    /\ UNCHANGED <<proposed, inputVars, parent, queuePaused, process, flightVars, published>>

\* An exception or a cancel while attachments, guardrails or the start are prepared:
\* finalize_needed is still false and the row is left as it is.
PrepAborts(w, r) ==
    /\ Alive(w)
    /\ task[w][r] = "prep"
    /\ DropTask(w, r)
    /\ UNCHANGED runVars

\* Mutant of BeginRun: the status read before the row lock is trusted.
BeginRunUnchecked(w, r) ==
    /\ Alive(w)
    /\ task[w][r] = "prep"
    /\ status[r] \in {"queued", "running"}
    /\ status' = [status EXCEPT ![r] = "running"]
    /\ worker' = [worker EXCEPT ![r] = w]
    /\ beatFresh' = beatFresh \cup {r}
    /\ task' = [task EXCEPT ![w][r] = "begun"]
    /\ UNCHANGED <<cancelRequested, acknowledged, cancelReason, parent, inputVars, queuePaused,
                   process, intent, proposed, flightVars, published>>

\* _transition_to_running commits queued -> running with this owner.
BeginRun(w, r) ==
    /\ Alive(w)
    /\ task[w][r] = "prep"
    /\ status[r] = "queued"
    /\ TransitionRun(r, "running", w, FALSE)
    /\ task' = [task EXCEPT ![w][r] = "begun"]
    /\ UNCHANGED <<cancelReason, parent, inputVars, queuePaused, process, intent, proposed,
                   flightVars, published>>

\* _transition_to_running without authority: a queued run is asked to cancel (in any
\* other status the task just ends, as in PrepAborts).
BeginRevoked(w, r) ==
    /\ Alive(w)
    /\ task[w][r] = "prep"
    /\ status[r] = "queued"
    /\ RequestCancelRun(r, Revoked)
    /\ DropTask(w, r)

\* Stop arrived before the worker: the run ends "canceled" without executing.
BeginCanceled(w, r) ==
    /\ Alive(w)
    /\ task[w][r] = "prep"
    /\ status[r] = "canceling"
    /\ worker[r] = NoWorker
    /\ task' = [task EXCEPT ![w][r] = "fin"]
    /\ proposed' = [proposed EXCEPT ![w][r] = "prestart"]
    /\ UNCHANGED <<runVars, parent, inputVars, queuePaused, process, intent, flightVars,
                   published>>

\* Another process owns the run, or it has ended.
BeginNotStartable(w, r) ==
    /\ Alive(w)
    /\ task[w][r] = "prep"
    /\ status[r] # "queued"
    /\ ~(status[r] = "canceling" /\ worker[r] = NoWorker)
    /\ DropTask(w, r)
    /\ UNCHANGED runVars

\* The await that closes the start transaction returns; finalize_needed is set.
EnterExecutor(w, r) ==
    /\ Alive(w)
    /\ task[w][r] = "begun"
    /\ intent[w][r] = "none"
    /\ task' = [task EXCEPT ![w][r] = "exec"]
    /\ UNCHANGED <<runVars, parent, inputVars, queuePaused, process, intent, proposed,
                   flightVars, published>>

\* A cancel delivered in that await: the run is "running" and owned, yet
\* finalize_needed is false, so the task ends without a terminal transition.
BeginTorn(w, r) ==
    /\ Alive(w)
    /\ task[w][r] = "begun"
    /\ intent[w][r] # "none"
    /\ DropTask(w, r)
    /\ UNCHANGED runVars

\* The body ends and proposes a terminal status.
EndBody(w, r, proposal) ==
    /\ Alive(w)
    /\ task[w][r] \in {"exec", "deaf"}
    /\ task' = [task EXCEPT ![w][r] = "fin"]
    /\ proposed' = [proposed EXCEPT ![w][r] = proposal]
    /\ UNCHANGED <<runVars, parent, inputVars, queuePaused, process, intent, flightVars,
                   published>>

\* The executor is exhausted: completed, a stream error, or a pending interrupt.
ExecutorEnds(w, r, outcome) ==
    /\ intent[w][r] = "none"
    /\ outcome \in {"completed", "failed", "interrupted"}
    /\ EndBody(w, r, outcome)

\* The executor, or the unwinding of a cancel, raises.
ExecutorRaises(w, r) == EndBody(w, r, "error")

\* CancelledError: a shutdown leaves the run stale, any other reason cancels it.
ExecutorCanceled(w, r) ==
    /\ intent[w][r] # "none"
    /\ EndBody(w, r, IF intent[w][r] = "shutdown" THEN "stale" ELSE "canceled")

\* _heartbeat_until_terminal, one poll of a run that is active and not canceling.
HeartbeatRun(w, r) ==
    /\ Alive(w)
    /\ task[w][r] = "exec"
    /\ status[r] \in {"queued", "running"}
    /\ beatFresh' = beatFresh \cup {r}
    /\ UNCHANGED <<status, worker, cancelRequested, acknowledged, cancelReason, parent,
                   inputVars, queuePaused, process, taskVars, flightVars, published>>

\* Mutant of LocalReason: the reason in the row is taken for one of the registry.
LocalReasonRaw(r) == cancelReason[r]
\* The reason of a requested cancel as the registry knows it.
LocalReason(r) == IF cancelReason[r] \in CancelReasons THEN cancelReason[r] ELSE "stop"

\* Mutant of PollReason: the poll notices only runs that were ended elsewhere.
PollReasonEnded(r) == IF Active(r) THEN "none" ELSE "stop"
\* The reason the poll hands to the local task, "none" while the run may go on.
PollReason(r) ==
    CASE status[r] \in {"queued", "running"} -> "none"
      [] status[r] = "canceling"             -> LocalReason(r)
      [] OTHER                               -> "stop"

\* The executor goes on and no poll follows.
StopHeartbeat(w, r) ==
    /\ Alive(w)
    /\ task[w][r] = "exec"
    /\ task' = [task EXCEPT ![w][r] = "deaf"]
    /\ UNCHANGED <<runVars, parent, inputVars, queuePaused, process, proposed, flightVars,
                   published>>

\* _heartbeat_until_terminal, the poll that cancels the task and ends the heartbeat: the
\* run was ended elsewhere, or a cancel was requested through another process.
PollCancels(w, r) ==
    /\ PollReason(r) # "none"
    /\ RequestLocalCancel(w, r, PollReason(r))
    /\ StopHeartbeat(w, r)

\* The heartbeat ends and the task is told nothing: the run was ended elsewhere between
\* the poll's unlocked read ("running") and heartbeat_run, or the poll raised.
HeartbeatEnds(w, r) ==
    /\ ~Active(r) \/ DbMayFail
    /\ StopHeartbeat(w, r)
    /\ UNCHANGED intent

\* The status a proposal stands for.
ProposedStatus(p) ==
    CASE p = "error"    -> "failed"
      [] p = "prestart" -> "canceled"
      [] OTHER          -> p

\* registry.discard
Discard(w, r) ==
    /\ task' = [task EXCEPT ![w][r] = "none"]
    /\ intent' = [intent EXCEPT ![w][r] = "none"]
    /\ proposed' = [proposed EXCEPT ![w][r] = "none"]
    /\ UNCHANGED <<parent, inputVars, queuePaused, process, flightVars>>

\* Whether the finalizer of task (w, r) may acknowledge a cancel.
MayAcknowledge(w, r) ==
    worker[r] = w \/ (proposed[w][r] = "prestart" /\ worker[r] = NoWorker)

\* Mutant of PublishTerminal: the staged event is published, not the effective one.
PublishStaged(w, r, effective) ==
    published' = IF proposed[w][r] \in {"completed", "failed", "interrupted"}
                 THEN [published EXCEPT ![r] = proposed[w][r]] ELSE published
\* OwnerTerminalDelivery: after a normal end the terminal event that was held back is
\* published, rewritten to the effective status.
PublishTerminal(w, r, effective) ==
    published' = IF proposed[w][r] \in {"completed", "failed", "interrupted"}
                 THEN [published EXCEPT ![r] = effective] ELSE published

\* _transition: the status is reconciled with a late cancel under the row lock; a
\* run that ended normally publishes the terminal event it held back.
Finalize(w, r) ==
    LET effective == EffectiveTerminalStatus(status[r], ProposedStatus(proposed[w][r]),
                                             MayAcknowledge(w, r))
    IN  /\ Alive(w)
        /\ task[w][r] = "fin"
        /\ r \in cancelRequested => MayAcknowledge(w, r)
        /\ TransitionRun(r, effective, w, MayAcknowledge(w, r))
        /\ PublishTerminal(w, r, effective)
        /\ Discard(w, r)
        /\ UNCHANGED cancelReason

\* transition_run raised ValueError (someone else ended the run), or the write failed:
\* the row is left as it is.
FinalizeRefused(w, r) ==
    LET effective == EffectiveTerminalStatus(status[r], ProposedStatus(proposed[w][r]),
                                             MayAcknowledge(w, r))
    IN  /\ Alive(w)
        /\ task[w][r] = "fin"
        /\ \/ <<status[r], effective>> \notin AllowedTransitions
           \/ r \in cancelRequested /\ ~MayAcknowledge(w, r)
           \/ DbMayFail
        /\ Discard(w, r)
        /\ UNCHANGED <<runVars, published>>

-----------------------------------------------------------------------------
(* Staleness *)

\* The clock passes heartbeat_at + chat_run_stale_after_seconds.
HeartbeatAges(r) ==
    /\ r \in beatFresh
    /\ Active(r)
    /\ beatFresh' = beatFresh \ {r}
    /\ UNCHANGED <<status, worker, cancelRequested, acknowledged, cancelReason, parent,
                   inputVars, queuePaused, process, taskVars, flightVars, published>>

\* _pause_uncertain_owned_run_queues: a stale owner that may still be running.
UncertainOwner(w) ==
    \E r \in Runs : Active(r) /\ worker[r] # NoWorker /\ r \notin beatFresh /\ ~Registered(w, r)
\* Mutant of SweptRuns: the sweep leaves out runs no process has taken over.
SweptOwnedRuns(w) ==
    {r \in Runs : /\ status[r] \in {"queued", "running"}
                  /\ worker[r] # NoWorker
                  /\ r \notin beatFresh
                  /\ ~Registered(w, r)}
\* mark_stale_active_runs: the rows the sweep of process w ends.
SweptRuns(w) ==
    {r \in Runs : status[r] \in {"queued", "running"} /\ r \notin beatFresh /\ ~Registered(w, r)}

\* sweep_stale_conversation_runs, one transaction.
SweepStale(w) ==
    /\ Alive(w)
    /\ queuePaused' = IF PendingInputs # {} /\ UncertainOwner(w) THEN TRUE ELSE queuePaused
    /\ status' = [r \in Runs |-> IF r \in SweptRuns(w) THEN "stale" ELSE status[r]]
    /\ UNCHANGED <<worker, cancelRequested, acknowledged, cancelReason, beatFresh, parent,
                   inputVars, process, taskVars, flightVars, published>>

\* stream_conversation_run, maybe_mark_stale_active_run: a client attaches to a run
\* without a local broker and with a stale heartbeat; a canceling run too.
AttachStale(w, r) ==
    /\ Serving(w)
    /\ Active(r)
    /\ r \notin beatFresh
    /\ ~Registered(w, r)
    /\ TransitionRun(r, "stale", NoWorker, FALSE)
    /\ UNCHANGED <<cancelReason, parent, inputVars, queuePaused, process, taskVars,
                   flightVars, published>>

\* stream_conversation_run_ag_ui, the same attach, reads the run without FOR UPDATE ...
AgUiReadRun(w, r) ==
    /\ AgUiAttach
    /\ Serving(w)
    /\ agUiRead[w] = NoRun
    /\ Active(r)
    /\ r \notin beatFresh
    /\ ~Registered(w, r)
    /\ agUiRead' = [agUiRead EXCEPT ![w] = r]
    /\ UNCHANGED <<runVars, parent, inputVars, queuePaused, process, taskVars, launching,
                   published>>

\* ... and writes "stale" from the status it read, whatever the row holds by now.
AgUiWriteStale(w) ==
    /\ Alive(w)
    /\ agUiRead[w] # NoRun
    /\ status' = [status EXCEPT ![agUiRead[w]] = "stale"]
    /\ agUiRead' = [agUiRead EXCEPT ![w] = NoRun]
    /\ UNCHANGED <<worker, cancelRequested, acknowledged, cancelReason, beatFresh, parent,
                   inputVars, queuePaused, process, taskVars, launching, published>>

-----------------------------------------------------------------------------
(* Processes *)

StartProcess(w) ==
    /\ process[w] = "new"
    /\ process' = [process EXCEPT ![w] = "up"]
    /\ UNCHANGED <<runVars, parent, inputVars, queuePaused, taskVars, flightVars, published>>

\* Bound: some other process is up or still to come.
Replaceable(w) == \E v \in Workers \ {w} : process[v] \in {"new", "up"}

\* RunTaskRegistry.shutdown, _persist_shutdown_intent: every task not finishing is
\* cancelled for "shutdown"; the intent is written to its row unless that write fails.
Shutdown(w) ==
    /\ Serving(w)
    /\ Replaceable(w)
    /\ process' = [process EXCEPT ![w] = "stopping"]
    /\ intent' = [intent EXCEPT ![w] = [r \in Runs |->
          IF task[w][r] \in {"prep", "begun", "exec", "deaf"} THEN "shutdown" ELSE @[r]]]
    /\ \/ \E r \in Runs : /\ Registered(w, r)
                          /\ status[r] \in {"queued", "running"}
                          /\ RequestCancelRun(r, "shutdown")
       \/ /\ \/ DbMayFail
             \/ \A r \in Runs : Registered(w, r) => status[r] \notin {"queued", "running"}
          /\ UNCHANGED runVars
    /\ UNCHANGED <<parent, inputVars, queuePaused, task, proposed, flightVars, published>>

\* The process exits or crashes: everything it held in memory is gone.
ProcessDown(w) ==
    /\ Alive(w)
    /\ Replaceable(w)
    /\ process' = [process EXCEPT ![w] = "down"]
    /\ task' = [task EXCEPT ![w] = [r \in Runs |-> "none"]]
    /\ intent' = [intent EXCEPT ![w] = [r \in Runs |-> "none"]]
    /\ proposed' = [proposed EXCEPT ![w] = [r \in Runs |-> "none"]]
    /\ launching' = {l \in launching : l[1] # w}
    /\ agUiRead' = [agUiRead EXCEPT ![w] = NoRun]
    /\ UNCHANGED <<runVars, parent, inputVars, queuePaused, published>>

-----------------------------------------------------------------------------
(* The specification *)

\* One step of a handler of process w.
Handler(w) ==
    \/ \E i \in Inputs : \/ StartDirect(w, i)
                         \/ \E prio \in {0, 100} : EnqueueInput(w, i, prio)
                         \/ DeleteInput(w, i)
                         \/ PromoteInput(w, i)
    \/ \E r \in Runs : CancelRun(w, r) \/ StageCancelIntent(w, r) \/ EmergencyStop(w, r)
    \/ StartFork(w) \/ ResumeInterrupted(w) \/ ReorderInputs(w) \/ ResumeQueue(w)

\* One step of the queue worker of process w.
QueueWorker(w) ==
    \/ ClaimNextInput(w) \/ PauseBlockedQueue(w)
    \/ \E r \in Runs : \/ LaunchStart(w, r)
                       \/ LaunchSkip(w, r)
                       \/ \E i \in Inputs : FailClaimedInput(w, r, i) \/ FailUnboundInput(w, r, i)
                       \/ FinalizeWorkerless(w, r)

\* One step of the task of run r in process w, or of its heartbeat.
RunTask(w, r) ==
    \/ PrepAborts(w, r) \/ BeginRun(w, r) \/ BeginRevoked(w, r) \/ BeginCanceled(w, r)
    \/ BeginNotStartable(w, r) \/ EnterExecutor(w, r) \/ BeginTorn(w, r)
    \/ \E outcome \in {"completed", "failed", "interrupted"} : ExecutorEnds(w, r, outcome)
    \/ ExecutorRaises(w, r) \/ ExecutorCanceled(w, r)
    \/ HeartbeatRun(w, r) \/ PollCancels(w, r) \/ HeartbeatEnds(w, r)
    \/ Finalize(w, r) \/ FinalizeRefused(w, r)

\* Staleness as process w sees it.
Staleness(w) ==
    \/ SweepStale(w) \/ AgUiWriteStale(w)
    \/ \E r \in Runs : AttachStale(w, r) \/ AgUiReadRun(w, r)

Next ==
    \/ \E w \in Workers :
          \/ Handler(w) \/ QueueWorker(w) \/ Staleness(w)
          \/ StartProcess(w) \/ Shutdown(w) \/ ProcessDown(w)
          \/ \E r \in Runs : RunTask(w, r)
    \/ \E r \in Runs : HeartbeatAges(r)

Spec == Init /\ [][Next]_vars

\* asyncio runs every ready task and delivers its cancel; nothing says that an executor
\* ends by itself.
TaskProgress(w, r) ==
    \/ PrepAborts(w, r) \/ BeginRun(w, r) \/ BeginRevoked(w, r) \/ BeginCanceled(w, r)
    \/ BeginNotStartable(w, r) \/ EnterExecutor(w, r) \/ BeginTorn(w, r)
    \/ ExecutorCanceled(w, r)
    \/ Finalize(w, r) \/ FinalizeRefused(w, r)

\* The clock moves on for a run whose heartbeat has stopped.
HeartbeatLost(r) ==
    /\ \A w \in Workers : task[w][r] # "exec"
    /\ HeartbeatAges(r)

\* The scheduler leader repeats the recovery and the stale sweep (not in step with
\* relaunches, hence strong fairness of the sweep).  Leadership moves to a live process
\* when the leader dies; with finitely many processes some last leader stays up.
LeaderProgress(w) ==
    /\ <>[](process[w] = "up")
    /\ SF_vars(SweepStale(w))
    /\ \A r \in Runs : WF_vars(FinalizeWorkerless(w, r))

\* A heartbeat that is still there polls, a process that is to start starts and one that is stopping exits.
Fairness ==
    /\ \A w \in Workers, r \in Runs : WF_vars(TaskProgress(w, r))
    /\ \A w \in Workers, r \in Runs : WF_vars(PollCancels(w, r))
    /\ \A w \in Workers : WF_vars(StartProcess(w))
    /\ \A w \in Workers : WF_vars(process[w] = "stopping" /\ ProcessDown(w))
    /\ \A r \in Runs : WF_vars(HeartbeatLost(r))
    /\ \E w \in Workers : LeaderProgress(w)

FairSpec == Spec /\ Fairness

-----------------------------------------------------------------------------
(* Safety *)

\* The run table of RunLifecycle, as this module's `status` column.
RunTable == INSTANCE RunLifecycle

\* Refinement: whatever the processes do, the status column behaves as RunLifecycle
\* says: one active run at a time, ALLOWED_TRANSITIONS only, terminal for good.
ImplementsLifecycle == RunTable!Lifecycle

\* The partial unique index uq_conversation_runs_active never has to refuse a row:
\* the locked check of create_run_from_locked_proof keeps one run active.
OneActiveRun == RunTable!OneActiveRun

\* An acknowledged cancel means the executor has stopped: cancellation_acknowledged_at
\* is never set, by the owner or by the workerless recovery, while a task of the run
\* still executes in some process.
AckMeansStopped ==
    \A r \in Runs : r \in acknowledged => \A w \in Workers : ~Executing(w, r)

\* Two executors of the conversation overlap only when one of them was written off as
\* stale: launch races between handler, claimer and recovery of several processes
\* never execute a run twice, and no two live runs execute side by side.
OverlapOnlyWhenStale ==
    \A w, v \in Workers : \A r, q \in Runs :
        Executing(w, r) /\ Executing(v, q) =>
            \/ w = v /\ r = q
            \/ r # q /\ "stale" \in {status[r], status[q]}

\* A cancel the owner acknowledged is reported as a cancel (or as the shutdown that
\* overtook it), even if the body completed, failed or was interrupted meanwhile.
AckedRunIsCanceled ==
    \A r \in Runs : r \in acknowledged => status[r] \in {"canceled", "stale"}

\* The terminal event the owner held back tells subscribers what the row says.
PublishedMatchesRow ==
    \A r \in Runs : published[r] # "none" => published[r] = status[r]

\* A retracted input has no run, a failed input's run failed with it before any process
\* took it over, and two inputs never share a run.  The exception is _fail_claimed_input's
\* own: an input whose binding broke is failed alone.
InputFate ==
    \A i \in Inputs :
        /\ inputStatus[i] \in {"none", "pending", "canceled"} => inputRun[i] = NoRun
        /\ inputStatus[i] = "claimed" => inputRun[i] # NoRun
        /\ inputStatus[i] = "failed" => inputRun[i] # NoRun
        /\ inputStatus[i] = "failed" /\ i \notin unbound =>
              status[inputRun[i]] = "failed" /\ worker[inputRun[i]] = NoWorker
        /\ \A j \in Inputs : inputRun[i] = inputRun[j] /\ inputRun[i] # NoRun => i = j

\* The queue hands the next input to a run only when every run that was asked to
\* cancel has really stopped: a steering input waits for its predecessor's executor.
SteerWaitsForStop ==
    [][(\E i \in Inputs : inputStatus[i] = "pending" /\ inputStatus'[i] = "claimed")
          => \A r \in Runs, w \in Workers : r \in cancelRequested => ~Executing(w, r)]_vars

\* The executor of a run starts once: after a process took the run over, no other
\* process does, and the input it runs is not failed, retracted or rebound any more.
StartedOnce ==
    [][\A r \in Runs : worker[r] # NoWorker =>
          /\ worker'[r] = worker[r]
          /\ \A i \in Inputs : inputRun[i] = r =>
                inputRun'[i] = r /\ inputStatus'[i] = inputStatus[i]]_vars

\* What transition_run's locking contract is for: a terminal status is never
\* overwritten by a writer that read the row before it became terminal.
TerminalIsFinal ==
    [][\A r \in Runs : status[r] \in TerminalStatuses => status'[r] = status[r]]_vars

-----------------------------------------------------------------------------
(* Liveness, under FairSpec *)

\* No run stays queued or running for ever without an executor, whatever crashes, is
\* torn or fails to write: a launch starts it or the stale sweep of a live process ends it.
OrphanIsSwept ==
    \A r \in Runs : status[r] \in {"queued", "running"} ~>
        \/ status[r] \notin {"queued", "running"}
        \/ \E w \in Workers : task[w][r] \in {"exec", "deaf"}

\* A run canceled before any process owned it is acknowledged.
WorkerlessCancelEnds ==
    \A r \in Runs : status[r] = "canceling" /\ worker[r] = NoWorker ~> ~Active(r)

\* The executor of a canceled run stops and its task is gone, even if the executor would
\* never stop by itself, the cancel was requested through another process, or the run
\* was written off as stale before the owner's poll; unless the task's heartbeat ended
\* without telling it, by a poll that raised or that met the write-off half-way.
CanceledOwnerStops ==
    \A r \in Runs, w \in Workers :
        status[r] = "canceling" /\ task[w][r] = "exec" ~>
            \/ task[w][r] = "none"
            \/ task[w][r] = "deaf" /\ intent[w][r] = "none"

\* Stop ends the run: "canceling", then a terminal status.
CancelEnds == \A r \in Runs : status[r] = "canceling" ~> ~Active(r)

=============================================================================
