# Moldy: TLA+ models of runs, streams, approvals, the projection queue and jobs

Moldy is a self-hosted builder for AI agents: a FastAPI backend
(`src/backend/app`), a Next.js frontend, PostgreSQL, and LangGraph as the agent
runtime. Its backend runs as several processes on one database. Its core is the
*durable run*: a chat turn that is a row of `conversation_runs`, executed by an
asyncio task of one process, while other processes may cancel it, attach to it,
declare it stale, or queue the next input behind it. Work that is no chat turn
goes through a second durable mechanism, the leased `jobs` table. What a run emits
is streamed and stored; what it needs a person for goes through the approval
inbox, on which a schedule may wait; and what grants say reaches the tuple store
of the authorization server through a third durable queue. This directory models
these parts, checks them with TLC, and proves their safety with TLAPS.

## 1. Inventory

| Part | State it keeps | Operations | Interacts with |
|---|---|---|---|
| Run rows (`services/conversation_run_state.py`, `_creation*.py`, `_service.py`) | `conversation_runs`: status, owner, heartbeat, cancel request, acknowledgement, parent | `transition_run`, `request_cancel_run`, `heartbeat_run`, `create_run_from_locked_proof`, `mark_stale_active_runs` | everything below writes runs through it |
| Run task (`conversation_run_execution.py`, `_transitions.py`, `_task_registry.py`, `_worker.py`, `_terminal_delivery.py`) | the registry of one process: task, cancel intent, finishing flag; the held-back terminal event | start, take over, execute, poll, finalize, publish, shut down | run rows (its own transactions), the queue (dispatch after the end) |
| Input queue (`conversation_run_queue_*.py`) | `conversation_run_inputs`: status, run, priority, position; `conversations.queue_paused` | enqueue, delete, promote, reorder, resume, claim, launch, fail, recover | creates runs, cancels the active run (steering) |
| Cancellation (`routers/conversation_run_cancel.py`, `_ownership_cancellation.py`, `_cancellation_recovery.py`, `approvals/emergency.py`) | the cancel columns of a run | Stop, agent deletion, emergency stop, workerless recovery | run rows, the local task |
| Attach (`routers/conversation_runs.py`, `conversation_ag_ui.py`) | none | mark a run without live owner stale | run rows |
| Process lifecycle (`runtime_lifecycle.py`, `main.py`, `scheduler*.py`) | which processes serve, which one leads the scheduler | start (sweep and recover), periodic sweep and recovery, shutdown, exit | registry, run rows, queue |
| Background jobs (`jobs/`) | `jobs`: state, attempts, lease | enqueue, claim, heartbeat, finish, cancel | handlers registered by other parts |
| Run stream (`agent_runtime/event_broker.py`, `streaming.py`, `langgraph_event_delivery.py`, `conversation_stream_persistence.py`, `trace_storage.py`) | per process: ring, listener queues, buffers, a cache of saved ids; `message_events`, `message_event_chunks` | emit, flush, retry, last flush, close, attach live, replay, poll | run task publishes, SSE routes read |
| Authorization projection (`authz/outbox.py`, `grants.py`, `grant_completion.py`, `revocations.py`) | `resource_grants`, `authz_outbox`, `authz_revocations`, the tuple store | grant, change, revoke, drain, apply now, complete, finalize markers | OpenFGA; checks read the markers |
| Schedules (`agent_runtime/trigger_execution_*.py`, `services/agent_execution_*.py`) | `agent_trigger_runs`, one envelope per firing | claim, start, pause, deliver, cancel | scheduler, runs, approvals |
| Approvals (`approvals/`) | `approval_requests` | record, decide, expire, claim, settle, abandon, stop | runs waiting on an interrupt, envelopes |
| Skill evaluation worker, prepared-run leases, spend counters, retention, memory, marketplace, MCP, credentials, auth, builder, frontend | various | | listed in `PROJECT.json`, not modelled |

What is hard: several processes act on one run with no lock held across the
turn. A run is created in one transaction and launched in a later one; a cancel
is a row update that the owner notices by a local notice or by its next poll; a
process may be slow, shut down, or killed between any two of these; a finalizer
competes with the sweep, with attaches and with late cancels. `PROJECT.json`
lists these hazards at their lines, with the properties that watch them.

What makes the parts correct:

* run rows: one active run per conversation, moves only along
  `ALLOWED_TRANSITIONS`, terminal for good;
* run task: a run is executed once and by one process; what is published agrees
  with the row; a cancel is acknowledged only when the executor has stopped;
* queue: an input is run at most once; a failed or retracted one never, but
  for one failed because its rows disagree, whose run is left queued; a
  steering input waits for its predecessor;
* recovery: no run stays active without anybody to finish it;
* jobs: one attempt at a time, at most `max_attempts` of them, a result only
  from the attempt that holds the claim, none after a cancel; every job ends;
* stream: what is saved is saved once, in order and before the terminal event; a
  client misses nothing without being told; no attachment hangs;
* projection: per tuple key the store follows the committed changes in their
  order; what it still allows and the grants do not is denied by a marker;
* approvals: an interrupt is answered once, in time, or expires; the firing that
  waits ends with its run, and is a success only if it was allowed to go on.

## 2. Modules

| Module | Role |
|---|---|
| `RunStatus` | status vocabulary, `ALLOWED_TRANSITIONS`, `_effective_terminal_status` |
| `RunLifecycle` | abstract specification: what the run table of a conversation promises |
| `ConversationRuns` | detailed specification of one conversation driven by several processes |
| `MCConversationRuns` | TLC instance: symmetry and view |
| `ConversationRuns_proof` | theorems about `ConversationRuns` |
| `JobQueue` | the jobs table, its workers and the cancel route |
| `JobQueue_proof` | theorems about `JobQueue` |
| `TupleProjection` | abstract specification: what the tuple store shows of the changes of a key |
| `ProjectionOutbox` | grants, queue rows, workers, completion and markers of one pair; implements `TupleProjection` |
| `RunStream`, `MCRunStream` | broker, flushes, trace tables, end of a run and its clients; the scopes TLC explores |
| `ScheduledApproval`, `MCScheduledApproval` | firings, their owned runs, approval requests, answers, stops; the scopes |
| `ScheduledApproval_proof` | theorems about `ScheduledApproval` |
| `ProjectionOutbox_proof` | theorems about `ProjectionOutbox` |
| `ProjectionRefinement_proof` | `ProjectionOutbox` implements `TupleProjection` |
| `RunStream_proof` | theorems about `RunStream` |
| `ListFacts` | lemmas about lists and about lists that grow step by step, for `RunStream_proof` and `ProjectionRefinement_proof` |

### How `ConversationRuns` corresponds to the code

*State.* One function per column of `conversation_runs` that control depends on
(`status`, `worker`, `parent`, `cancelReason`; the sets `cancelRequested` and
`acknowledged` are the non-null `cancel_requested_at` and
`cancellation_acknowledged_at`; `beatFresh` says that the heartbeat is younger
than `chat_run_stale_after_seconds`); `cancelReason` may also hold a reason only
the row knows (`Revoked`: "authority_revoked", "agent_archived",
"emergency_stop"), which the poll hands on as "stop"; the columns of `conversation_run_inputs`
and `queue_paused`; per process its state, the program counter of
`_run_conversation` (`task`), the reason of the cancel delivered to it
(`intent`) and the status it is about to write (`proposed`); the counter is
`deaf` for an executor whose heartbeat has ended; `unbound` holds the inputs
that were failed because their rows disagreed; `launching` holds
the runs a handler created and has not launched; `agUiRead` what the ag-ui
route has read; `published` the terminal event.

*Atomicity.* A transaction that locks the conversation or the run row
`FOR UPDATE` is one step. Between two transactions of one coroutine others may
act: creation and launch are two steps, as are the commit of `running` and
`finalize_needed = True`, the end of the body and the finalizer, and the read
and the write of the ag-ui attach, which takes no lock. The notice to a task in
the handler's own process is merged with the handler's commit. The window
between the two exists anyway for cancels through another process, which the
owner sees only by its poll.

*Operations.* Each action is one handler or one section of a coroutine between
awaits that commit. `ClaimNextInput`, `LaunchStart`, `FinalizeWorkerless` and
`SweepStale` are enabled in every live process: each process recovers and sweeps
when it starts, and the scheduler's leadership moves.

*Left open.* What the executor yields (completed, failed, interrupted, raises),
whether authority was lost, whether an input can be rebuilt, and whether a
finalizer's write or a poll of the heartbeat fails (`DbMayFail`) are choices, and
so is, under `RowsChange`, whether conversation, user or agent of an input, its run
and its conversation are found to disagree: no code here makes them, but
`_fail_claimed_input` has a branch for it. One conversation is enough:
every lock, unique index and query involved is per conversation.

*Left out.* Payloads (`edit_pending_input` changes nothing else), `pause_queue`
(no route calls it), audit, metrics, traces, message links, and prepared-run
leases, off by default.

### How `JobQueue` corresponds to the code

*State.* The columns of `jobs` that control depends on; `leased` and `due` stand
for `lease_until` in the future and `run_after` in the past. A worker has as
many `Slots` as its concurrency; a slot holds a task with its job, its attempt
number, the program counter of `Worker._run`, whether its handler was told of a
cancel, and the state it is about to write.

*Atomicity.* `claim` takes its row `FOR UPDATE SKIP LOCKED`; each turn of its
loop commits and is one step. `_held` and `owned_job` read without a lock:
`ReadHeld` and `WriteResult`, `CancelRead` and `CancelWrite` are separate steps,
and a write touches only the columns SQLAlchemy saw change (a cancel that read
a queued row leaves `locked_by` alone). A heartbeat is one step: its late write
could only extend a lease. Order among due jobs is left open.

*Assumption.* A keeper beats every third of the lease. `LeaseKept` says that a
live task never misses all of its beats; the leases of dead workers and of
tasks that ended with an exception run out at any time. Without it (a blocked
event loop, a database outage longer than the lease) a lease protects nothing
(observation 2 below).

### How `ProjectionOutbox` corresponds to the code

*State.* One principal and one object; a key is one relation between them. `rows`
are the rows of `authz_outbox` in `seq` order, taken when the transaction
inserts, which may commit later or never (`rowState`: open, pending, processed,
void). `due` stands for `next_attempt_at`. A grant and a marker carry the number of
the row that created them. `locks` are the grants a writer holds by
`lock_object`; `MayEnqueue` is what a writer waits for: the organization row that
`record_revocation` updates, the unique active grant and the locked grants. The
store ignores a missing delete and a write of a tuple that exists, whatever its
condition, which is why `_send` deletes before it replaces.

*Atomicity.* Under READ COMMITTED each statement of `process_outbox` sees its own
snapshot: taking the batch (SKIP LOCKED), reading older rows, each call of the
store, reading the landed grants, locking the finished ones, choosing the
markers and the commit are steps of their own. A call may fail before or after the store
took it; a transaction may be cut off anywhere (`Abort`), by a crash or by the two
seconds of `apply_now`.

*Refinement.* `ProjectionOutbox` implements `TupleProjection`
(`INSTANCE TupleProjection WITH history <- ..., landed <- ..., stored <- store`):
the history of a key is the values of its committed rows, what has landed is its
processed rows. `TupleProjection` lets the store be ahead of what is confirmed, or
lack the tuple while a later change is under way, and never behind it.

*Assumption.* `CommitBetween = FALSE` in the passing run leaves out one
interleaving, the one `outbox_overlay` shows.

*Left out.* Tuple keys shared by several grants (fan-outs), `reconcile`, and a
call that times out and reaches the store after later ones.

### How `RunStream` corresponds to the code

*State.* Events are numbers, `End` is the terminal event. `ring`, `closed` and the
`queue` of a client are the broker; `buffer`, `retry`, `flights`, `caches` and `seen` the
buffers of the delivery, the calls of the persist callback under way and its
`seen_event_ids` (each flight keeps the set object it started from, so every
loaded set is kept); `base` and `chunks` the two trace tables, chunks in
`(seq_start, created_at)` order. `cut` and `gaveUp` are history variables.

*Atomicity.* A step is what runs between two awaits. Publishing, closing and
subscribing contain none. A flush has four: the read of the saved ids, the
choice of the new events, the commit, and the update of the cache. Up to `inflight` flushes of a chat run
overlap; a protocol run has one at a time.

*Attach.* `stream_conversation_run` (a check of the cursor, then a subscription or a
replay), `stream_resume` (no check), the thread stream of protocol runs
(stored events, then broker and table in turns). A client may disconnect at any
moment and returns with the last id it received.

*Left out.* Endings by stop, exception and interrupt (their row side is in
`ConversationRuns`), the ag-ui attach, the protocol attach of a single run, and
the difference between ids on the wire and in the table.

### How `ScheduledApproval` corresponds to the code

*State.* `envelope` is `agent_trigger_runs.status`, `run` the columns status, resumed
run and envelope of `conversation_runs`, `request` those of `approval_requests`;
`paused` is the interrupt the LangGraph checkpoint holds; `task` the next
transaction of the coroutine that owns a run; `session` a decision between its
reads and its write.

*Atomicity.* Each transaction is a step. Claim and acceptance of a firing share the
lock of the trigger. `pause` is three (interrupted, recorded, delivered),
a decision up to four (request, checkpoint, resume with claim, abandon), the
emergency stop two. The poll of the owner, the sweep of stale runs, the expiry sweep
and lost processes act in between.

*Exceptions.* The firing writes what its owner raises over its envelope, whatever
that has become; the model calls this failure `error` and the others `failed`. The
owner raises when the graph does, when the run cannot be started, and, as a fault that
`MaxFaults` bounds, when recording a pause, reading the row or its last write
fails; the recording may have been committed then. A resumed run is a chat run:
it goes on without a request, and it settles.

*Stale while alive.* The first run of a firing sends no heartbeat, so `MarkStale` may
end it while it is at work, and a new firing may start; the old body still
delivers its success or failure (`EndStale`), or its poll cancels it. A resumed run
has the heartbeat of chat runs and is swept only without a task.

*Left out.* Several interrupts in one run, triggers with a new conversation per
run, retries and auto-pause of a trigger, API runs that wait, notices. The last write of
a resumed run succeeds and settles with the status in its row (failing and
refused ones are in `ConversationRuns`). A graph that outlives its stale run may write the
thread's checkpoint only while no later run exists. Prepared trigger runs, off by
default, do send heartbeats.

## 3. Runs

| Run | Instance | Checks | Distinct states |
|---|---|---|---|
| `two_processes` | 2 processes, 2 runs, 1 input, failing writes and polls | safety of run, cancel and event; refinement of `RunLifecycle` | 502 k |
| `queue` | 1 process, 3 runs, 2 inputs, rows that may disagree | `InputFate` | 1.14 M |
| `liveness` | 2 processes, 1 run, 1 input, failing writes and polls, ag-ui attaches | cancels end or stop their executor; no run stays active without one | 134 k |
| `ag_ui_lost_update` | violation of `TerminalIsFinal` | finding 1 | |
| `stop_torn` | violation of `CancelEnds` | finding 2 | |
| `jobs` | 1 job, 2 workers, 2 slots each, 3 attempts, failing sessions | safety of claims, retries, results and cancels; every job ends | 6 k |
| `outbox` | 2 keys, 4 rows, 2 workers, batches of 2, 1 transaction cut off | `TupleProjection`; order, overlay and completion; every row lands | 271 k |
| `outbox_overlay` | violation of `OverlayCovers`, 1 key, 3 rows, 1 worker | finding 3 | |
| `stream` | 6 scopes, up to 4 events, ring and queues of 2, 2 failures, 2 attachments | what is saved and in which order; gaps are told; attachments end | 738 k |
| `stream_retry` | violation of `RetriedChunkIsReplayed`, 2 events, 1 failure | finding 4 | |
| `approvals` | 4 scopes, 2 firings, 3 runs, 1 stop, lost task or failed write, live runs swept | one answer, in time; firing, run and request end together | 129 k |
| `approvals_orphan` | violation of `WaitingIsHeld`, 1 firing | finding 5 | |

*Bounds.* Two process instances are the least with a claimer and a recoverer, a
canceler and an owner, an owner and a sweeper; a restart is a new instance, so
with two of them the second may come up after the first died. Two runs are the
least that can overlap, three the least where the queue serves two inputs after
a run without one. `Replaceable` keeps one process instance from being lost
when no other is left: with no process at all nothing can happen.
The runs stop when all run ids are used; the queue goes on being edited.

Jobs meet only in the slots they take, so one job is enough; three attempts hold
a retry, a recovered lease and an exhausted one, and two slots in a worker are
the least in which it can meet itself. The state space ends when the job has
ended, so the run does not check for deadlock; `EveryJobEnds` says that the end
is the one wanted. The theorems cover any number of jobs.

In `outbox`, two keys are the least with two revocations of one pair, four rows the
least that fit a share, its change and its revocation beside another key, and two workers the
least that can overtake each other; `Starts` begins with keys that are shared
already, so that the bound is spent on changes. In `stream` a ring, a queue, a
batch and a retry buffer of two events overflow with the third; the scopes spend the bound either on
failing and overlapping flushes, or on attachments, or on a smaller amount of
both, since together they exceed TLC's reach. In `approvals` three runs are a firing and
two answers, the least where a resumed run pauses again and its own request inherits the firing. One
client, one pair and one trigger are enough: clients meet only in the tables
and the ring, pairs have separate markers and keys, and a trigger locks its own row.

*Reductions.* Processes and inputs are interchangeable (`Symmetry`; run ids are
ordered and are not). `LiveState` leaves out values that no later step reads and
no property checked with it mentions: the heartbeat and cancel reason of an
ended run, the intent of a finishing task, a task in preparation or a pending
launch whose run has ended (it can only be dropped), and the priority of an
input that left the queue. `QueueState`, the view of `queue`, also leaves out what
was published, which nothing reads. The liveness run uses neither.

*Fairness.* asyncio resumes every ready task and delivers its cancel
(`TaskProgress`), though nothing says that an executor ends by itself; the
heartbeat task polls until it has ended, which `CanceledOwnerStops` excepts, since
nothing tells the executor then (observation 7); processes start and, once stopping, exit; the clock
passes the staleness limit of a run nobody beats for. The scheduler's recovery
and sweep run on the leader only, repeatedly: `LeaderProgress` asks it of one
process that stays up. Some process does: instances are finite and `Replaceable`
never loses the last. The sweep needs strong fairness because recovery may
relaunch a claimed input, which makes the run locally registered for a while,
between two sweeps. For jobs: the clock moves, ready tasks run, the poll loop of
a worker that is up claims, and handlers return; the last is asked of the
handlers, the worker sets them no time limit. Workers that may be killed
leave one that is up (`Replaceable`). For `outbox`: a transaction of a writer ends,
back-offs end, each worker takes its next step, and the store does not refuse for ever, neither a first
call nor the second call of a replacement (strong fairness, since a worker may
reach the call again and again). For `stream`: ready tasks and flights run and a
connected client reads; the executor need not end and commits may fail
`failures` times. For `approvals`: the clock passes an expiry and the leader's
sweep, every minute, gets its turn at each request (strong fairness, since the
sweep may be busy with another request) and returns.

### Findings

1. **`ag_ui_lost_update`.** `stream_conversation_run_ag_ui` reads the run
   without `FOR UPDATE` and writes `stale`; a run that completed in between
   loses its status. The contract is in the docstring of `transition_run`. The
   theorems without assumption on `AgUiAttach` show what still holds.
2. **`stop_torn`.** Stop delivered in the await that closes the start
   transaction: `finalize_needed` is still false, nobody writes the terminal
   status, and neither the sweep (it skips `canceling`) nor the workerless
   recovery (the run has an owner) picks the row up.
3. **`outbox_overlay`.** `complete_revocations` reads which grants have landed and
   then locks those that are `revoking`, in two statements. For a worker that
   applied the share row of a grant, a revocation committed in between passes
   for a completed one: the marker is lifted while the tuple is still there.
4. **`stream_retry`.** The last flush of a chat run stores a chunk that failed before
   at `len(known) + 1`, behind the chunks that overtook it. The table replays it
   last; a client that resumes after a later event never gets it.
5. **`approvals_orphan`.** `pause` commits `interrupted` and then records the request
   in another session; the owner's poll takes the terminal row for a cancel and
   ends the task in between. The firing stays `waiting`, nothing will
   end it, and `find_in_flight_run` skips every later one.

### Observations

Met while modelling, and not carried as runs:

1. A run whose process is killed while `canceling` meets the dead end of finding 2:
   the sweep skips `canceling`, the workerless recovery skips runs with an owner;
   only a client that attaches clears it.
2. `_held` in the jobs compares the worker, not the attempt. A worker whose keepers
   missed a lease claims its own job again and the first attempt may write the
   result of the second. `ResultByHolder` holds as long as keepers beat.
3. The cancel route of the jobs decides on a state read without a lock: read as
   queued and written after a claim, the row says `canceled` while the handler
   runs to its end without being told.
4. Two workers that each complete one of the last two revocations of a pair see the
   other's grant still `revoking` (`grant_completion.py:82-95`); neither
   finalizes the marker of the pair, which stays and denies what nothing allows.
5. A slow listener that loses its place also loses its oldest queued event and
   receives the later ones, so its next `Last-Event-ID` skips the lost one
   (`event_broker.py:171-177`); `EveryGapIsTold` excepts such a client (`cut`). The entries that
   subscribe without `has_event_id` skip evicted events in the same way.
6. `_expire_one` may expire a request without resuming its run
   (`inbox.py:272-281`) and then neither settles nor abandons the firing, and
   `deliver_trigger_waiting` writes `waiting` over an envelope that was settled
   meanwhile; in both cases the schedule waits for ever. `PendingIsWaiting` and
   `ExpiredIsNotSuccess` say what holds nevertheless. It returns without ending a
   request whose organization is null (237-238) or whose answer raised something other
   than an `AppError` (299-303); such requests are not in the model.
7. The heartbeat of a chat run can end without canceling the local task: the row is
   read as running without a lock, ended meanwhile, and `heartbeat_run` refuses
   (`conversation_run_transitions.py:240-244`), or a poll raises. A comment there
   (227-228) says that a run ended elsewhere stops the local task. The executor then
   runs to its own end; `CanceledOwnerStops` allows exactly this (`deaf`), and the
   safety properties hold all the same.
8. `_fail_claimed_input` fails an input whose rows disagree and leaves its run `queued`
   (`conversation_run_queue_launch.py:183-187`). The run blocks the conversation until
   the stale sweep, or starts if a task launched before it is still preparing:
   `lock_executable_run` compares the run with the conversation and not with the input.
   `InputFate` excepts these inputs (`unbound`).
9. An exception after the pause (the recording's last statements, the owner's `finish`, a
   poll that raises) lets the firing write `failed` over `waiting` while the request
   is committed and open (`trigger_execution_invoke.py:233-257`). It can still be
   answered, its run resumes and may complete, and `settle` then leaves the failed firing
   alone. `PendingIsWaiting` names this case (`error`) and shows that it is the only one.

## 4. Theorems

`ConversationRuns_proof` proves, for any sets of runs, inputs and processes:

* `TypeCorrect`, `OneActive`, `AckedHasStopped`, `AckedCanceled`, `NoOverlap`,
  `SteeringWaits`, `RunStartsOnce` with no assumption beyond those of the
  constants (run ids are positive numbers, `NoWorker` is no process);
* `Refinement`, `EndedForGood`, `InputsKeepTheirFate`, `EventsMatchRows` under
  `~AgUiAttach`; finding 1 is the reason for that assumption. The first group is what
  survives the unlocked ag-ui write, for every instance.

None of the safety properties is inductive. The inductive invariant `Inv` adds

* `RowInv`: a run that has not started has no owner; a requested cancel means a
  status past running; an acknowledged run is `canceled` or `stale`;
* `TaskInv`: an executor owns its run, whose cancel nobody acknowledged, and
  whose status is `running`, `canceling` or `stale`; a finalizer owns its run
  or was told of the cancel before the start;
* `BindInv`: a claimed or failed input has a run, no other has, and no two
  share one; the run of a failed input was never started, unless the input is in
  `unbound`;
* `ActiveInv`: one active run.

`TaskInv` carries the argument: the workerless recovery acknowledges only runs
without owner, so it cannot meet an executor; a finalizer has left its
executor, and since a run has one owner it has no second one. `StepKinds`
classifies the forty-odd actions into a few kinds (quiet, creates, cancels, takes over,
finalizes, fails, goes stale), and one lemma per kind shows that `Inv` is kept.
`Refinement` maps `status` to itself; each kind of step is a `Create`, a `Move`
or leaves the column alone.

`JobQueue_proof` proves, for any sets of jobs, workers and slots and any
`MaxAttempts > 0`: `JobTypeCorrect` and `CancelEndsAttempts` without further
assumption; `OneAttempt`, `WithinMax`, `FinishedHasStopped` and `HolderWrites`
under `LeaseKept`, for the reason observation 2 gives. The inductive invariant says
that a task at work is the attempt its row counts and that the row is running
under an unexpired lease, or was written `canceled` by a cancel that read it
before the claim (`HolderInv`); and that a job that waits, or that a task is
about to requeue, has an attempt left (`BudgetInv`). A due row is queued or
unleased, so by `HolderInv` no task is at work on it when it is claimed.

`ScheduledApproval_proof` proves, for any numbers of firings, runs, stops and
crashes and any scopes, `TypeCorrect`, `OneResume`, `DecidedOnce` and `DecidedInTime`
without assumption beyond those bounds. `Inv` is `TypeOK` with `SessionInv`, a
decision under way names an existing request and interrupt, and `ChainInv`, a
run that has not paused has no request yet. `RespondShape` says what each step of a decision may
do to requests, `RequestKinds` that every step of the system leaves a request alone or
is one `RequestMove`: a free row becomes pending, or a pending one changes, and is
decided only while it is not due. `OneResume` follows since only `NewRun`
sets a parent, and takes it from `LatestInterrupted`, the interrupted run that
no run resumed (`Smallest`, from the well-foundedness of `<`, makes both `CHOOSE`s real).

`PendingRequestsWait` and `ExpiredFiringsFail`, in the same module, need a second
invariant, `Chains`, since an envelope is related to the whole chain of runs that were
resumed from its firing and to the deliveries and settlements under way:

* `FirstRunInv`: a firing has at most one run that no answer created;
* `PauseInv`: a run with a request, or whose task records one, is interrupted, and one
  whose success is to be delivered is not;
* `LinkInv`: the run an answer resumed continues the run of the request, and a firing that
  has a request has the request of its first run;
* `OneLast`: of a firing only one request is the last (`Last`), from which no run went on
  to another request;
* `WaitsInv`: the envelope waits, or the owner of the first run raised, while that run has
  paused and is not recorded, and while a resumed run has not ended.

An envelope is written by the transitions and the delivery of the first run, by the settlement of a resumed
one and by the code that abandons or expires a request. `DeliverKeepsChains`,
`SettleKeepsChains` and `AbandonKeeps` show that each writes only for the last request
of its firing, or before it has any.

`ProjectionOutbox_proof` proves, for any keys, rows, workers and numbers of
transactions cut off, `OutboxTypeCorrect` and `SettledInOrder` without
assumption, and `RevokedHasLanded` and `OverlayHolds` under `~CommitBetween`,
for the reason finding 3 gives. The invariant `OrderInv` has

* `RowInv`, `OpenInv`, `HistoryInv`: an open change is the last of its key, its
  grant is new or active and locked, and grants agree with the last committed row;
* `BatchInv`: a worker's batch is locked by it alone; after reading older rows it
  knows every older row of its keys that is not settled, so it sends a row
  only after them, and two workers never send rows of one key at a time;
* `StoreInv`: a tuple in the store is the value of a committed row of its key that no
  applied row follows; between the two calls of a replacement it is missing;
* `SettleOrder`, which is `RowsSettleInOrder` with what the batches know.

`CoverInv` adds that the rows a worker saw landed, the grants it holds finished and the
markers it chose belong to rows that were applied. So where the store exceeds
the grants, some change or revocation of the key is still unapplied, and its marker,
which only a worker that applied its row may choose, is still there. `WorkerKeeps`
reduces a step of one worker to what it does to itself; there is a lemma for each step.

`ProjectionRefinement_proof` proves `QueueImplements`: the queue implements
`TupleProjection`, without `~CommitBetween`, since the finding is about markers and
not about the order of the tuples. To `OrderInv` it adds `AllPresent`: when the last
committed change of a key was applied and is no revocation, the tuple is in the store. The
history of a key lists its committed rows by seq, the n-th being the row of rank n
(`Nth`). `RankOrder`, `RankTaken` and `NthRank` say that ranks and rows correspond; a commit takes
the highest seq of its key, so it appends to the history (`RankOfNext`); the
processed rows come first (`SettleOrder`), so their number is how much has landed
(`RankOfFirst`). With these, `ShownByHistory` explains what the store shows, and each step
is `Record`, `Deliver`, `Land` or unseen: `CommitRecords`, `CallDelivers`, `BatchLands`,
and `Stutters` with its like.

`RunStream_proof` proves all six safety properties of `RunStream`, for any scopes and
clients and any sizes of rings, queues, batches and buffers, without further assumption.
`ListFacts` holds what it needs of lists. A list built by a recursive function over its
length (`LoadEvents`, `DedupeEvents`, `NotKnown`) is known by what one step adds to it
(`GrowthElements`, `SieveElements`, `SieveAscending`); since no induction theorem can be
instantiated, `Climb` takes its place, by the smallest number that a claim fails for.
The invariant of `StreamIsKept` has

* `StoreInv`: the tables hold emitted events and the terminal one last (`TableInv`); what
  a flush believes saved is saved and nothing is flushed once the trace is closed
  (`FlushInv`); every event is in the tables, a buffer or a flush unless the run gave some
  up (`KeptInv`); a protocol run has one flush at a time, whose cache is exactly
  what is saved and whose chunk follows it (`ProtocolInv`). `ProtocolOrder` needs the
  exactness: the place of a chunk is computed from the cache;
* `RingInv`: the ring ascends, and while the broker is open reaches the newest event;
* `ClientsOK`: of a client that was not told and has lost nothing, every event it
  received or holds comes after all earlier ones (`Follows`), and a listener holds
  every event emitted. A step of a client is reduced to what it does to that client
  (`OneClient`), a step of the broker to what it does to each (`EachClient`).

Only model-checked are the liveness properties, each under the fairness section 3 gives:
TLAPS has no support for `ENABLED` here, on which fairness rests. Every other property of
the passing runs is stated by a theorem. The theorems that assume `~AgUiAttach` or
`~CommitBetween` leave out the case of a finding, where TLC violates the property;
`LeaseKept` is the timing assumption on the keeper that section 2 states for `JobQueue`;
TLC violates each of the four properties that assume it when `Jobs.cfg` sets it to `FALSE`.

## 5. Not modelled

The backend and its frontend are a quarter of a million lines, and most of them
keep no state of which an order could be wrong: request handlers that read and write
one row under one transaction, user interface, text, model calls, file and network
I/O, seeds, migrations and scripts. A model of those would restate them. The
maps name what is modelled, about one line in forty. Left out are

* *Skill evaluation worker.* A second leased queue with the shape of `JobQueue`:
  claim, heartbeat, recovery; its cancel and its retries differ. The next module to write.
* *Usage limits and spend.* Counters that are buffered in a process and flushed; a crash
  between the two loses what was buffered, by design. Worth a small module.
* *Prepared-run leases.* Behind `prepared_run_lease_enabled`, off by default.
* *Agent runtime.* LangGraph, middleware, models and tools: third-party control flow and
  I/O. `ConversationRuns` takes its outcomes, `ScheduledApproval` its interrupts,
  `RunStream` its events.
* *Agent API, authentication.* Request-scoped; the first starts the same runs by the
  same functions.
* *Retention, memory, skills, marketplace, MCP and credentials.* Sequential deletion;
  embeddings and recall; packages on disk; moderation rows; network clients and OAuth.
* *Guardrails and builder, observability, frontend.* Text policies and a
  model-driven dialogue; append-only records; a client whose calls may come in
  any order, as the actions of the modules assume.
* *Database schema and seeds.* Declarative; the constraints on which the code relies, like
  the unique active grant, are guards of the modules.

What each modelled part leaves out is said with it in section 2 and in the
notes of `PROJECT.json`.

## 6. Plan

1. `EvaluationQueue` (skill evaluation worker), with the properties of `JobQueue` restated
   for its own cancel and retry rules.
2. Fan-outs and `reconcile` in `ProjectionOutbox`; a store call that times out
   and arrives late.
3. The endings by stop, error and interrupt in `RunStream`, composed with the finalizer
   of `ConversationRuns`; the ag-ui attach.
4. API runs that wait, several interrupts in one run, and retries of a trigger in
   `ScheduledApproval`.
5. Proofs: the invariants of `EvaluationQueue`; what a client may rely on, and what a job
   still promises, in the cases that `~AgUiAttach` and `LeaseKept` leave out.
