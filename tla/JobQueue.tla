------------------------------ MODULE JobQueue ------------------------------
(***************************************************************************)
(* Background jobs (jobs/service.py, jobs/worker.py, routers/jobs.py): a   *)
(* table of jobs, worker processes that claim them under a lease, run      *)
(* their handlers and write the result, and the requester who cancels.     *)
(*                                                                         *)
(* claim takes its row FOR UPDATE SKIP LOCKED: one iteration of its loop   *)
(* is one step.  _held (of succeed, fail, canceled) and owned_job (of the  *)
(* cancel route) read without a lock, so their read and their write are    *)
(* two steps, and the write touches only the columns it changed.  The      *)
(* write of a heartbeat only extends a lease; it is one step with its      *)
(* read.  Times appear as two sets: due (run_after has passed) and leased  *)
(* (lease_until has not).  A job stands for its (company, type,            *)
(* idempotency key): enqueueing it again returns the row there is.         *)
(***************************************************************************)
EXTENDS Integers

CONSTANTS
    Jobs,
    Workers,      \* worker processes (a restart is a new worker_id)
    Slots,        \* places for a task in a worker, as many as its concurrency
    NoWorker,     \* SQL NULL in locked_by
    NoJob,        \* a slot without a task
    MaxAttempts,  \* max_attempts of every job
    DbMayFail,    \* whether a session of a task may raise
    LeaseKept     \* whether the keeper of a live task always beats in time

ASSUME NullAssumption == NoWorker \notin Workers /\ NoJob \notin Jobs
ASSUME AttemptsAssumption == MaxAttempts \in Nat \ {0}
ASSUME SwitchAssumption == DbMayFail \in BOOLEAN /\ LeaseKept \in BOOLEAN

VARIABLES
    \* jobs: columns, and the sets of jobs that are due, leased or asked to cancel
    state, attempts, lockedBy, due, leased, cancelRequested,
    \* the state a cancel request in flight has read
    cancelRead,
    \* workers and the tasks in their slots: job, attempt number, program counter of
    \* _run, whether the handler was told of the cancel, and what is to be written
    process, job, number, phase, told, outcome

rowVars == <<state, attempts, lockedBy, due, leased, cancelRequested>>
taskVars == <<job, number, phase, told, outcome>>
vars == <<rowVars, cancelRead, process, taskVars>>

TerminalStates == {"succeeded", "failed", "canceled"}
JobStates == TerminalStates \cup {"queued", "running"}
Tasks == Workers \X Slots
\* "starting" until the payload is read, "handling" in the handler, "ending" until
\* _held has read the row, "holding" until the result is committed.
Phases == {"free", "starting", "handling", "ending", "holding"}
\* How a handler ends: "retry" is an error that may be tried again.
Outcomes == {"succeeded", "failed", "retry", "canceled"}

\* Every column and every task entry has one of the values its code writes.
TypeOK ==
    /\ state \in [Jobs -> JobStates \cup {"none"}]
    /\ attempts \in [Jobs -> Nat]
    /\ lockedBy \in [Jobs -> Workers \cup {NoWorker}]
    /\ due \subseteq Jobs
    /\ leased \subseteq Jobs
    /\ cancelRequested \subseteq Jobs
    /\ cancelRead \in [Jobs -> {"none", "queued", "running"}]
    /\ process \in [Workers -> {"up", "stopping", "draining", "down"}]
    /\ job \in [Tasks -> Jobs \cup {NoJob}]
    /\ number \in [Tasks -> Nat]
    /\ phase \in [Tasks -> Phases]
    /\ told \in [Tasks -> BOOLEAN]
    /\ outcome \in [Tasks -> Outcomes \cup {"none", "queued"}]

Init ==
    /\ state = [j \in Jobs |-> "none"]
    /\ attempts = [j \in Jobs |-> 0]
    /\ lockedBy = [j \in Jobs |-> NoWorker]
    /\ due = {}
    /\ leased = {}
    /\ cancelRequested = {}
    /\ cancelRead = [j \in Jobs |-> "none"]
    /\ process = [w \in Workers |-> "up"]
    /\ job = [t \in Tasks |-> NoJob]
    /\ number = [t \in Tasks |-> 0]
    /\ phase = [t \in Tasks |-> "free"]
    /\ told = [t \in Tasks |-> FALSE]
    /\ outcome = [t \in Tasks |-> "none"]

-----------------------------------------------------------------------------
(* Queries *)

AtWork(t) == phase[t] # "free"

\* Mutant of Due: a running job may be claimed whatever its lease says.
DueWhateverLease(j) == (state[j] = "queued" /\ j \in due) \/ state[j] = "running"
\* Mutant of Due: only queued jobs are looked for.
DueQueued(j) == state[j] = "queued" /\ j \in due
\* The rows claim looks for: queued and due, or running with a lease that ran out.
Due(j) ==
    \/ state[j] = "queued" /\ j \in due
    \/ state[j] = "running" /\ j \notin leased

\* Mutant of Exhausted: one attempt more than the maximum.
ExhaustedLate(j) == state[j] = "running" /\ attempts[j] > MaxAttempts
\* A job that lost its worker in its last attempt.
Exhausted(j) == state[j] = "running" /\ attempts[j] >= MaxAttempts

\* _held: the job if this worker still holds it.
Held(w, j) == lockedBy[j] = w /\ state[j] = "running"

-----------------------------------------------------------------------------
(* The requester *)

\* enqueue, with a run_after that has passed or is still to come.
Enqueue(j) ==
    /\ state[j] = "none"
    /\ state' = [state EXCEPT ![j] = "queued"]
    /\ \/ due' = due \cup {j}
       \/ UNCHANGED due
    /\ UNCHANGED <<attempts, lockedBy, leased, cancelRequested, cancelRead, process, taskVars>>

\* cancel_job reads the row; a finished job is left alone ...
CancelRead(j) ==
    /\ state[j] \in {"queued", "running"}
    /\ cancelRead[j] = "none"
    /\ cancelRead' = [cancelRead EXCEPT ![j] = state[j]]
    /\ UNCHANGED <<rowVars, process, taskVars>>

\* ... and request_cancel writes what the state it read calls for.  locked_by and
\* lease_until of a job read as queued were NULL already and are not written.
CancelWrite(j) ==
    /\ cancelRead[j] # "none"
    /\ state' = IF cancelRead[j] = "queued" THEN [state EXCEPT ![j] = "canceled"] ELSE state
    /\ cancelRequested' = IF cancelRead[j] = "running"
                          THEN cancelRequested \cup {j} ELSE cancelRequested
    /\ cancelRead' = [cancelRead EXCEPT ![j] = "none"]
    /\ UNCHANGED <<attempts, lockedBy, due, leased, process, taskVars>>

-----------------------------------------------------------------------------
(* Claiming: run_once, claim *)

\* _finish
Finish(j, to) ==
    /\ state' = [state EXCEPT ![j] = to]
    /\ lockedBy' = [lockedBy EXCEPT ![j] = NoWorker]
    /\ leased' = leased \ {j}
    /\ UNCHANGED <<attempts, cancelRequested>>

\* run_once claims while a slot is free; stop is looked at only between its calls.
MayClaim(w) ==
    /\ process[w] \in {"up", "stopping"}
    /\ \E s \in Slots : ~AtWork(<<w, s>>)

\* A job without attempts left is failed instead of being run again.
ClaimExhausted(w, j) ==
    /\ MayClaim(w)
    /\ Due(j)
    /\ Exhausted(j)
    /\ Finish(j, "failed")
    /\ UNCHANGED <<due, cancelRead, process, taskVars>>

\* A job that was asked to cancel while it ran is not run again.
ClaimCanceled(w, j) ==
    /\ MayClaim(w)
    /\ Due(j)
    /\ ~Exhausted(j)
    /\ j \in cancelRequested
    /\ Finish(j, "canceled")
    /\ UNCHANGED <<due, cancelRead, process, taskVars>>

\* A new attempt: the row is leased to the worker and a task of it started.
StartAttempt(w, s, j) ==
    /\ process[w] \in {"up", "stopping"}
    /\ ~AtWork(<<w, s>>)
    /\ state' = [state EXCEPT ![j] = "running"]
    /\ attempts' = [attempts EXCEPT ![j] = @ + 1]
    /\ lockedBy' = [lockedBy EXCEPT ![j] = w]
    /\ leased' = leased \cup {j}
    /\ job' = [job EXCEPT ![<<w, s>>] = j]
    /\ number' = [number EXCEPT ![<<w, s>>] = attempts[j] + 1]
    /\ phase' = [phase EXCEPT ![<<w, s>>] = "starting"]
    /\ UNCHANGED <<due, cancelRequested, cancelRead, process, told, outcome>>

\* Mutant of ClaimJob: the cancel request is not looked at.
ClaimJobUnchecked(w, s, j) == Due(j) /\ ~Exhausted(j) /\ StartAttempt(w, s, j)
ClaimJob(w, s, j) ==
    /\ Due(j)
    /\ ~Exhausted(j)
    /\ j \notin cancelRequested
    /\ StartAttempt(w, s, j)

-----------------------------------------------------------------------------
(* A task: _run *)

Live(t) == process[t[1]] # "down"

\* The task ends; its slot is free again.
FreeSlot(t) ==
    /\ job' = [job EXCEPT ![t] = NoJob]
    /\ number' = [number EXCEPT ![t] = 0]
    /\ phase' = [phase EXCEPT ![t] = "free"]
    /\ told' = [told EXCEPT ![t] = FALSE]
    /\ outcome' = [outcome EXCEPT ![t] = "none"]
    /\ UNCHANGED <<cancelRead, process>>

\* The payload is read, the lease keeper started and the handler called.
CallHandler(t) ==
    /\ Live(t)
    /\ phase[t] = "starting"
    /\ phase' = [phase EXCEPT ![t] = "handling"]
    /\ UNCHANGED <<rowVars, cancelRead, process, job, number, told, outcome>>

\* The session that reads the payload, or the one that writes the result, raises: the
\* task ends and leaves the row to the next claim after the lease.
TaskRaises(t) ==
    /\ DbMayFail
    /\ Live(t)
    /\ phase[t] \in {"starting", "ending", "holding"}
    /\ FreeSlot(t)
    /\ UNCHANGED rowVars

\* The lease keeper beats while the handler runs and, when it raised, until the result
\* is written; it is stopped before succeed.
KeeperRuns(t) ==
    \/ phase[t] = "handling"
    \/ phase[t] \in {"ending", "holding"} /\ outcome[t] # "succeeded"

\* heartbeat, by the lease keeper or by a report of progress.  When the claim was lost
\* the answer is None, which the handler is not told.
Heartbeat(t) ==
    /\ Live(t)
    /\ KeeperRuns(t)
    /\ Held(t[1], job[t])
    /\ leased' = leased \cup {job[t]}
    /\ told' = IF job[t] \in cancelRequested THEN [told EXCEPT ![t] = TRUE] ELSE told
    /\ UNCHANGED <<state, attempts, lockedBy, due, cancelRequested, cancelRead, process,
                   job, number, phase, outcome>>

\* The handler returns or raises; check_canceled raises only once it was told.
HandlerEnds(t, how) ==
    /\ Live(t)
    /\ phase[t] = "handling"
    /\ how = "canceled" => told[t]
    /\ phase' = [phase EXCEPT ![t] = "ending"]
    /\ outcome' = [outcome EXCEPT ![t] = how]
    /\ UNCHANGED <<rowVars, cancelRead, process, job, number, told>>

\* Mutant of ResultState: the wish for a retry is written as it is.
RawResult(j, how) == how
\* The state succeed, fail or canceled is going to write.
ResultState(j, how) ==
    CASE how # "retry" -> how
      [] how = "retry" /\ attempts[j] < MaxAttempts /\ j \notin cancelRequested -> "queued"
      [] OTHER -> "failed"

\* _held reads the row, without a lock.
ReadHeld(t) ==
    /\ Live(t)
    /\ phase[t] = "ending"
    /\ Held(t[1], job[t])
    /\ phase' = [phase EXCEPT ![t] = "holding"]
    /\ outcome' = [outcome EXCEPT ![t] = ResultState(job[t], outcome[t])]
    /\ UNCHANGED <<rowVars, cancelRead, process, job, number, told>>

\* _held finds that the claim was lost: nothing is written.
ClaimLost(t) ==
    /\ Live(t)
    /\ phase[t] = "ending"
    /\ ~Held(t[1], job[t])
    /\ FreeSlot(t)
    /\ UNCHANGED rowVars

\* The result, or the requeue with its delay, is committed.
WriteResult(t) ==
    /\ Live(t)
    /\ phase[t] = "holding"
    /\ Finish(job[t], outcome[t])
    /\ due' = IF outcome[t] = "queued" THEN due \ {job[t]} ELSE due
    /\ FreeSlot(t)

-----------------------------------------------------------------------------
(* Clock and processes *)

\* run_after passes.
ComesDue(j) ==
    /\ state[j] = "queued"
    /\ j \notin due
    /\ due' = due \cup {j}
    /\ UNCHANGED <<state, attempts, lockedBy, leased, cancelRequested, cancelRead, process,
                   taskVars>>

\* lease_until passes.  A keeper beats every third of the lease: LeaseKept says that no
\* live task misses all of them (a blocked event loop or a database outage may).
LeaseRunsOut(j) ==
    /\ state[j] = "running"
    /\ j \in leased
    /\ LeaseKept => \A t \in Tasks : AtWork(t) => job[t] # j
    /\ leased' = leased \ {j}
    /\ UNCHANGED <<state, attempts, lockedBy, due, cancelRequested, cancelRead, process,
                   taskVars>>

\* Bound: another worker is up.
Replaceable(w) == \E v \in Workers \ {w} : process[v] = "up"

\* SIGTERM: stop is set, the loop may still be inside run_once.
Stop(w) ==
    /\ process[w] = "up"
    /\ Replaceable(w)
    /\ process' = [process EXCEPT ![w] = "stopping"]
    /\ UNCHANGED <<rowVars, cancelRead, taskVars>>

\* run_forever leaves its loop and waits for the tasks.
Drain(w) ==
    /\ process[w] = "stopping"
    /\ process' = [process EXCEPT ![w] = "draining"]
    /\ UNCHANGED <<rowVars, cancelRead, taskVars>>

\* All tasks ended, or the process is killed with the tasks it has.
WorkerDown(w) ==
    /\ process[w] # "down"
    /\ process[w] = "up" => Replaceable(w)
    /\ process' = [process EXCEPT ![w] = "down"]
    /\ job' = [t \in Tasks |-> IF t[1] = w THEN NoJob ELSE job[t]]
    /\ number' = [t \in Tasks |-> IF t[1] = w THEN 0 ELSE number[t]]
    /\ phase' = [t \in Tasks |-> IF t[1] = w THEN "free" ELSE phase[t]]
    /\ told' = [t \in Tasks |-> IF t[1] = w THEN FALSE ELSE told[t]]
    /\ outcome' = [t \in Tasks |-> IF t[1] = w THEN "none" ELSE outcome[t]]
    /\ UNCHANGED <<rowVars, cancelRead>>

-----------------------------------------------------------------------------
(* The specification *)

Claim(w) ==
    \E j \in Jobs : \/ ClaimExhausted(w, j)
                    \/ ClaimCanceled(w, j)
                    \/ \E s \in Slots : ClaimJob(w, s, j)

\* A step of a task that needs nobody else.
TaskProgress(t) ==
    CallHandler(t) \/ TaskRaises(t) \/ ReadHeld(t) \/ ClaimLost(t) \/ WriteResult(t)

Next ==
    \/ \E j \in Jobs : \/ Enqueue(j) \/ CancelRead(j) \/ CancelWrite(j)
                       \/ ComesDue(j) \/ LeaseRunsOut(j)
    \/ \E w \in Workers : Claim(w) \/ Stop(w) \/ Drain(w) \/ WorkerDown(w)
    \/ \E t \in Tasks : \/ TaskProgress(t)
                        \/ Heartbeat(t)
                        \/ \E how \in Outcomes : HandlerEnds(t, how)

Spec == Init /\ [][Next]_vars

\* The clock moves; asyncio runs ready tasks; the poll loop of a worker that is up
\* claims; a stopped worker leaves its loop; handlers return, which is asked of them: the
\* worker sets them no time limit.
Fairness ==
    /\ \A j \in Jobs : WF_vars(ComesDue(j)) /\ WF_vars(LeaseRunsOut(j))
    /\ \A w \in Workers : WF_vars(process[w] = "up" /\ Claim(w)) /\ WF_vars(Drain(w))
    /\ \A t \in Tasks : /\ WF_vars(TaskProgress(t))
                        /\ WF_vars(\E how \in Outcomes : HandlerEnds(t, how))

FairSpec == Spec /\ Fairness

-----------------------------------------------------------------------------
(* Properties *)

\* A job is run by one attempt at a time, whichever workers claim, die, stop or fail to
\* write: claim's lease check keeps a second attempt away from a task at work.
OneLiveAttempt ==
    \A t, u \in Tasks : AtWork(t) /\ AtWork(u) /\ job[t] = job[u] => t = u

\* Neither retries nor recovered leases, in any mixture, exceed max_attempts.
AttemptsWithinMax == \A j \in Jobs : attempts[j] <= MaxAttempts

\* A job reported as succeeded or failed is not being worked on.
FinishedIsIdle ==
    \A t \in Tasks : AtWork(t) => state[job[t]] \notin {"succeeded", "failed"}

\* Only the attempt that holds the claim writes a result: a result that reaches the row
\* comes from the attempt the row counts, not from an earlier one whose lease was
\* recovered.
ResultByHolder ==
    [][\A t \in Tasks : WriteResult(t) => number[t] = attempts[job[t]]]_vars

\* After a running job was asked to cancel it is not attempted again, although its retry
\* may have been decided before the request was seen.
NoAttemptAfterCancel ==
    [][\A j \in Jobs : j \in cancelRequested => attempts'[j] = attempts[j]]_vars

\* Every job ends: retries, dead workers, raised sessions and cancels included.
EveryJobEnds ==
    \A j \in Jobs : state[j] \in {"queued", "running"} ~> state[j] \in TerminalStates

=============================================================================
