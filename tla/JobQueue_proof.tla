--------------------------- MODULE JobQueue_proof ---------------------------
(***************************************************************************)
(* Theorems about JobQueue, for any sets of jobs, workers and slots.       *)
(***************************************************************************)
EXTENDS JobQueue, TLAPS

-----------------------------------------------------------------------------
(* Types *)

\* What the phase of a task says about its job and its outcome.
TaskType ==
    \A t \in Tasks :
        /\ AtWork(t) => job[t] \in Jobs
        /\ phase[t] = "ending" => outcome[t] \in Outcomes
        /\ phase[t] = "holding" => outcome[t] \in TerminalStates \cup {"queued"}

\* What a handler's end becomes in the row is a state of the row.
LEMMA ResultIsState ==
    ASSUME NEW j \in Jobs, NEW how \in Outcomes
    PROVE  ResultState(j, how) \in TerminalStates \cup {"queued"}
BY DEF ResultState, Outcomes, TerminalStates

\* A worker and a slot make a task, and a task is one.
LEMMA TaskPairs ==
    /\ \A w \in Workers, s \in Slots : <<w, s>> \in Tasks /\ <<w, s>>[1] = w
    /\ \A t \in Tasks : t[1] \in Workers
BY DEF Tasks

\* The steps of the requester and of the clock keep the types.
LEMMA TypeJobSteps ==
    ASSUME TypeOK, TaskType, NEW j \in Jobs,
           \/ Enqueue(j) \/ CancelRead(j) \/ CancelWrite(j) \/ ComesDue(j) \/ LeaseRunsOut(j)
    PROVE  TypeOK' /\ TaskType'
<1> USE DEF TypeOK, TaskType, AtWork, JobStates, TerminalStates, rowVars, taskVars
<1>1. CASE Enqueue(j)
  BY <1>1 DEF Enqueue
<1>2. CASE CancelRead(j)
  BY <1>2 DEF CancelRead
<1>3. CASE CancelWrite(j)
  BY <1>3 DEF CancelWrite
<1>4. CASE ComesDue(j)
  BY <1>4 DEF ComesDue
<1>5. CASE LeaseRunsOut(j)
  BY <1>5 DEF LeaseRunsOut
<1> QED BY <1>1, <1>2, <1>3, <1>4, <1>5

\* The steps of a worker keep the types.
LEMMA TypeWorkerSteps ==
    ASSUME TypeOK, TaskType, NEW w \in Workers,
           Claim(w) \/ Stop(w) \/ Drain(w) \/ WorkerDown(w)
    PROVE  TypeOK' /\ TaskType'
<1> USE DEF TypeOK, JobStates, TerminalStates
<1>1. ASSUME NEW j \in Jobs, ClaimExhausted(w, j) \/ ClaimCanceled(w, j)
      PROVE  TypeOK' /\ TaskType'
  BY <1>1 DEF ClaimExhausted, ClaimCanceled, Finish, taskVars, TaskType, AtWork
<1>2. ASSUME NEW j \in Jobs, NEW s \in Slots, ClaimJob(w, s, j)
      PROVE  TypeOK' /\ TaskType'
  <2>1. <<w, s>> \in Tasks
    BY TaskPairs
  <2>2. TypeOK'
    BY <1>2, <2>1 DEF ClaimJob, StartAttempt, Phases
  <2>3. TaskType'
    BY <1>2, <2>1 DEF ClaimJob, StartAttempt, TaskType, AtWork
  <2> QED BY <2>2, <2>3
<1>3. CASE Stop(w) \/ Drain(w)
  BY <1>3 DEF Stop, Drain, rowVars, taskVars, TaskType, AtWork
<1>4. CASE WorkerDown(w)
  <2>1. TypeOK'
    BY <1>4 DEF WorkerDown, rowVars, Phases
  <2>2. TaskType'
    BY <1>4 DEF WorkerDown, TaskType, AtWork
  <2> QED BY <2>1, <2>2
<1> QED BY <1>1, <1>2, <1>3, <1>4 DEF Claim

\* The steps of a task keep the types.
LEMMA TypeTaskSteps ==
    ASSUME TypeOK, TaskType, NEW t \in Tasks,
           TaskProgress(t) \/ Heartbeat(t) \/ \E how \in Outcomes : HandlerEnds(t, how)
    PROVE  TypeOK' /\ TaskType'
<1> USE DEF TypeOK
<1>1. CASE CallHandler(t)
  BY <1>1 DEF CallHandler, rowVars, Phases, TaskType, AtWork
<1>2. CASE TaskRaises(t) \/ ClaimLost(t)
  <2>1. FreeSlot(t) /\ UNCHANGED rowVars
    BY <1>2 DEF TaskRaises, ClaimLost
  <2>2. TypeOK'
    BY <2>1 DEF FreeSlot, rowVars, Phases
  <2>3. TaskType'
    BY <2>1 DEF FreeSlot, TaskType, AtWork
  <2> QED BY <2>2, <2>3
<1>3. CASE ReadHeld(t)
  <2>1. outcome'[t] \in TerminalStates \cup {"queued"}
    BY <1>3, ResultIsState DEF ReadHeld, TaskType, AtWork
  <2>2. TypeOK'
    BY <1>3, <2>1 DEF ReadHeld, rowVars, Phases, Outcomes, TerminalStates
  <2>3. TaskType'
    BY <1>3, <2>1 DEF ReadHeld, TaskType, AtWork
  <2> QED BY <2>2, <2>3
<1>4. CASE WriteResult(t)
  <2>1. job[t] \in Jobs /\ outcome[t] \in TerminalStates \cup {"queued"}
    BY <1>4 DEF WriteResult, TaskType, AtWork
  <2>2. TypeOK'
    BY <1>4, <2>1 DEF WriteResult, Finish, FreeSlot, Phases, JobStates
  <2>3. TaskType'
    BY <1>4 DEF WriteResult, FreeSlot, TaskType, AtWork
  <2> QED BY <2>2, <2>3
<1>5. CASE Heartbeat(t)
  <2>1. job[t] \in Jobs
    BY <1>5 DEF Heartbeat, KeeperRuns, TaskType, AtWork
  <2> QED BY <1>5, <2>1 DEF Heartbeat, TaskType, AtWork
<1>6. ASSUME NEW how \in Outcomes, HandlerEnds(t, how)
      PROVE  TypeOK' /\ TaskType'
  BY <1>6 DEF HandlerEnds, rowVars, Phases, TaskType, AtWork
<1> QED BY <1>1, <1>2, <1>3, <1>4, <1>5, <1>6 DEF TaskProgress

\* TypeOK and TaskType together are inductive.
LEMMA TypeStep == TypeOK /\ TaskType /\ [Next]_vars => TypeOK' /\ TaskType'
<1> SUFFICES ASSUME TypeOK, TaskType, [Next]_vars
             PROVE  TypeOK' /\ TaskType'
  OBVIOUS
<1>1. CASE UNCHANGED vars
  BY <1>1 DEF vars, rowVars, taskVars, TypeOK, TaskType, AtWork
<1>2. CASE Next
  BY <1>2, TypeJobSteps, TypeWorkerSteps, TypeTaskSteps DEF Next
<1> QED BY <1>1, <1>2

\* No task is at work before the first claim.
LEMMA TypeInit == Init => TypeOK /\ TaskType
BY DEF Init, TypeOK, TaskType, AtWork, Phases

\* The columns of jobs and the entries of tasks keep the values their code writes: in
\* particular a handler's wish for a retry never reaches the row as it is.
THEOREM JobTypeCorrect == Spec => []TypeOK
<1>1. Spec => [](TypeOK /\ TaskType)
  BY TypeInit, TypeStep, PTL DEF Spec
<1> QED BY <1>1, PTL

-----------------------------------------------------------------------------
(* One attempt at a time *)

\* A task at work is the attempt its row counts; the row is running under an unexpired
\* lease, or was written off by a cancel that read it before the claim.
HolderInv ==
    \A t \in Tasks : AtWork(t) =>
        /\ number[t] = attempts[job[t]]
        /\ state[job[t]] \in {"running", "canceled"}
        /\ state[job[t]] = "running" => job[t] \in leased

\* There is an attempt left for a job that waits, or that a task is about to requeue.
BudgetInv ==
    /\ \A j \in Jobs : /\ attempts[j] <= MaxAttempts
                       /\ state[j] \in {"none", "queued"} => attempts[j] < MaxAttempts
    /\ \A t \in Tasks : phase[t] = "holding" /\ outcome[t] = "queued"
                           => attempts[job[t]] < MaxAttempts

Inv == OneLiveAttempt /\ HolderInv /\ BudgetInv

\* Inv holds of the empty queue.
LEMMA InvInit == Init => Inv
BY AttemptsAssumption DEF Init, Inv, OneLiveAttempt, HolderInv, BudgetInv, AtWork

\* Inv is kept by the requester and the clock: a cancel may only turn a row canceled,
\* and LeaseKept keeps the lease of a task at work.
LEMMA InvJobSteps ==
    ASSUME LeaseKept, TypeOK, TaskType, Inv, NEW j \in Jobs,
           \/ Enqueue(j) \/ CancelRead(j) \/ CancelWrite(j) \/ ComesDue(j) \/ LeaseRunsOut(j)
    PROVE  Inv'
<1>1. UNCHANGED <<job, number, phase, outcome, attempts>>
  BY DEF Enqueue, CancelRead, CancelWrite, ComesDue, LeaseRunsOut, rowVars, taskVars
<1>2. OneLiveAttempt'
  BY <1>1 DEF Inv, OneLiveAttempt, AtWork
<1>3. HolderInv'
  <2> SUFFICES ASSUME NEW t \in Tasks, AtWork(t)
               PROVE  /\ state'[job[t]] \in {"running", "canceled"}
                      /\ state'[job[t]] = "running" => job[t] \in leased'
    BY <1>1 DEF HolderInv, Inv, AtWork
  <2>1. /\ job[t] \in Jobs
        /\ state[job[t]] \in {"running", "canceled"}
        /\ state[job[t]] = "running" => job[t] \in leased
    BY DEF TaskType, Inv, HolderInv
  <2> QED BY <2>1 DEF Enqueue, CancelRead, CancelWrite, ComesDue, LeaseRunsOut, rowVars, TypeOK
<1>4. BudgetInv'
  <2>1. \A i \in Jobs : state'[i] \in {"none", "queued"} => state[i] \in {"none", "queued"}
    BY DEF Enqueue, CancelRead, CancelWrite, ComesDue, LeaseRunsOut, rowVars, TypeOK
  <2> QED BY <1>1, <2>1 DEF Inv, BudgetInv
<1> QED BY <1>2, <1>3, <1>4 DEF Inv

\* Inv is kept by claims: a job that is due has no task at work.
LEMMA InvClaim ==
    ASSUME TypeOK, TaskType, Inv, NEW w \in Workers, Claim(w)
    PROVE  Inv'
<1>0. PICK j \in Jobs : \/ ClaimExhausted(w, j) \/ ClaimCanceled(w, j)
                        \/ \E s \in Slots : ClaimJob(w, s, j)
  BY DEF Claim
<1>1. \A t \in Tasks : AtWork(t) => job[t] # j
  BY <1>0 DEF ClaimExhausted, ClaimCanceled, ClaimJob, Due, Inv, HolderInv
<1>2. CASE ClaimExhausted(w, j) \/ ClaimCanceled(w, j)
  <2>1. UNCHANGED <<job, number, phase, outcome, attempts>>
    BY <1>2 DEF ClaimExhausted, ClaimCanceled, Finish, taskVars
  <2>2. \A i \in Jobs \ {j} : /\ state'[i] = state[i]
                              /\ i \in leased => i \in leased'
    BY <1>2 DEF ClaimExhausted, ClaimCanceled, Finish, TypeOK
  <2>3. state'[j] \in {"failed", "canceled"}
    BY <1>2 DEF ClaimExhausted, ClaimCanceled, Finish, TypeOK
  <2>4. OneLiveAttempt'
    BY <2>1 DEF Inv, OneLiveAttempt, AtWork
  <2>5. HolderInv'
    BY <1>1, <2>1, <2>2 DEF Inv, HolderInv, AtWork, TaskType
  <2>6. BudgetInv'
    BY <2>1, <2>2, <2>3 DEF Inv, BudgetInv
  <2> QED BY <2>4, <2>5, <2>6 DEF Inv
<1>3. ASSUME NEW s \in Slots, ClaimJob(w, s, j)
      PROVE  Inv'
  <2> DEFINE c == <<w, s>>
  <2>1. c \in Tasks
    BY TaskPairs
  <2>2. /\ job'[c] = j /\ number'[c] = attempts[j] + 1 /\ phase'[c] = "starting"
        /\ attempts'[j] = attempts[j] + 1 /\ state'[j] = "running"
        /\ leased' = leased \cup {j} /\ outcome' = outcome
    BY <1>3, <2>1 DEF ClaimJob, StartAttempt, TypeOK
  <2>3. \A t \in Tasks \ {c} : job'[t] = job[t] /\ number'[t] = number[t] /\ phase'[t] = phase[t]
    BY <1>3, <2>1 DEF ClaimJob, StartAttempt, TypeOK
  <2>4. \A i \in Jobs \ {j} : state'[i] = state[i] /\ attempts'[i] = attempts[i]
    BY <1>3 DEF ClaimJob, StartAttempt, TypeOK
  <2>5. attempts[j] \in Nat /\ attempts[j] < MaxAttempts
    BY <1>3, AttemptsAssumption DEF ClaimJob, Due, Exhausted, Inv, BudgetInv, TypeOK
  <2> HIDE DEF c
  <2>6. OneLiveAttempt'
    BY <1>1, <2>1, <2>2, <2>3 DEF Inv, OneLiveAttempt, AtWork
  <2>7. HolderInv'
    BY <1>1, <2>1, <2>2, <2>3, <2>4 DEF Inv, HolderInv, AtWork, TaskType
  <2>8. BudgetInv'
    <3>1. \A i \in Jobs : /\ attempts'[i] <= MaxAttempts
                          /\ state'[i] \in {"none", "queued"} => attempts'[i] < MaxAttempts
      BY <2>2, <2>4, <2>5, AttemptsAssumption DEF Inv, BudgetInv
    <3>2. \A t \in Tasks : phase'[t] = "holding" /\ outcome'[t] = "queued"
                              => attempts'[job'[t]] < MaxAttempts
      BY <1>1, <2>2, <2>3, <2>4 DEF Inv, BudgetInv, AtWork, TaskType
    <3> QED BY <3>1, <3>2 DEF BudgetInv
  <2> QED BY <2>6, <2>7, <2>8 DEF Inv
<1> QED BY <1>0, <1>2, <1>3

\* Inv is kept when slots are freed and no row is written.
LEMMA InvFreed ==
    ASSUME TypeOK, TaskType, Inv, UNCHANGED rowVars,
           \A t \in Tasks : \/ phase'[t] = "free"
                            \/ /\ AtWork(t)
                               /\ job'[t] = job[t] /\ number'[t] = number[t]
                               /\ phase'[t] = "holding" =>
                                    \/ phase[t] = "holding" /\ outcome'[t] = outcome[t]
                                    \/ outcome'[t] = "queued" => attempts[job[t]] < MaxAttempts
    PROVE  Inv'
<1>1. UNCHANGED <<state, attempts, leased>>
  BY DEF rowVars
<1>2. OneLiveAttempt'
  BY DEF Inv, OneLiveAttempt, AtWork
<1>3. HolderInv'
  BY <1>1 DEF Inv, HolderInv, AtWork
<1>4. BudgetInv'
  BY <1>1 DEF Inv, BudgetInv
<1> QED BY <1>2, <1>3, <1>4 DEF Inv

\* Inv is kept when a worker stops or dies.
LEMMA InvWorkerSteps ==
    ASSUME TypeOK, TaskType, Inv, NEW w \in Workers, Stop(w) \/ Drain(w) \/ WorkerDown(w)
    PROVE  Inv'
<1>1. UNCHANGED rowVars
  BY DEF Stop, Drain, WorkerDown
<1>2. \A t \in Tasks : \/ phase'[t] = "free"
                       \/ /\ job'[t] = job[t] /\ number'[t] = number[t]
                          /\ phase'[t] = phase[t] /\ outcome'[t] = outcome[t]
  BY DEF Stop, Drain, WorkerDown, taskVars
<1> QED BY <1>1, <1>2, InvFreed DEF AtWork

\* Inv is kept by the steps of a task that write no result.
LEMMA InvTaskSteps ==
    ASSUME TypeOK, TaskType, Inv, NEW t \in Tasks,
           \/ CallHandler(t) \/ TaskRaises(t) \/ ClaimLost(t) \/ ReadHeld(t)
           \/ \E how \in Outcomes : HandlerEnds(t, how)
    PROVE  Inv'
<1>1. UNCHANGED rowVars
  BY DEF CallHandler, TaskRaises, ClaimLost, ReadHeld, HandlerEnds
<1>2. \A u \in Tasks \ {t} : /\ job'[u] = job[u] /\ number'[u] = number[u]
                             /\ phase'[u] = phase[u] /\ outcome'[u] = outcome[u]
  BY DEF CallHandler, TaskRaises, ClaimLost, ReadHeld, HandlerEnds, FreeSlot, TypeOK
<1>3. \/ phase'[t] = "free"
      \/ /\ AtWork(t) /\ job'[t] = job[t] /\ number'[t] = number[t]
         /\ phase'[t] = "holding" => (outcome'[t] = "queued" => attempts[job[t]] < MaxAttempts)
  <2>1. CASE CallHandler(t) \/ \E how \in Outcomes : HandlerEnds(t, how)
    BY <2>1 DEF CallHandler, HandlerEnds, AtWork, TypeOK
  <2>2. CASE TaskRaises(t) \/ ClaimLost(t)
    BY <2>2 DEF TaskRaises, ClaimLost, FreeSlot, TypeOK
  <2>3. CASE ReadHeld(t)
    <3>1. ResultState(job[t], outcome[t]) = "queued" => attempts[job[t]] < MaxAttempts
      BY <2>3 DEF ReadHeld, ResultState, TaskType, Outcomes
    <3> QED BY <2>3, <3>1 DEF ReadHeld, AtWork, TypeOK
  <2> QED BY <2>1, <2>2, <2>3
<1> QED BY <1>1, <1>2, <1>3, InvFreed DEF AtWork

\* Inv is kept by a heartbeat.
LEMMA InvHeartbeat ==
    ASSUME TypeOK, TaskType, Inv, NEW t \in Tasks, Heartbeat(t)
    PROVE  Inv'
<1>1. UNCHANGED <<state, attempts, job, number, phase, outcome>> /\ leased \subseteq leased'
  BY DEF Heartbeat
<1> QED BY <1>1 DEF Inv, OneLiveAttempt, HolderInv, BudgetInv, AtWork

\* Inv is kept when a result is written: the task that writes it was the only one.
LEMMA InvWriteResult ==
    ASSUME TypeOK, TaskType, Inv, NEW t \in Tasks, WriteResult(t)
    PROVE  Inv'
<1>1. /\ AtWork(t) /\ job[t] \in Jobs /\ outcome[t] \in TerminalStates \cup {"queued"}
      /\ attempts' = attempts /\ state'[job[t]] = outcome[t] /\ phase'[t] = "free"
  BY DEF WriteResult, Finish, FreeSlot, TaskType, AtWork, TypeOK
<1>2. \A i \in Jobs \ {job[t]} : /\ state'[i] = state[i]
                                 /\ i \in leased => i \in leased'
  BY DEF WriteResult, Finish, TypeOK
<1>3. \A u \in Tasks \ {t} : /\ job'[u] = job[u] /\ number'[u] = number[u]
                             /\ phase'[u] = phase[u] /\ outcome'[u] = outcome[u]
                             /\ AtWork(u) => job[u] # job[t]
  BY <1>1 DEF WriteResult, FreeSlot, TypeOK, Inv, OneLiveAttempt
<1>4. OneLiveAttempt'
  BY <1>1, <1>3 DEF Inv, OneLiveAttempt, AtWork
<1>5. HolderInv'
  BY <1>1, <1>2, <1>3 DEF Inv, HolderInv, AtWork, TaskType
<1>6. BudgetInv'
  <2>1. outcome[t] = "queued" => attempts[job[t]] < MaxAttempts
    BY DEF WriteResult, Inv, BudgetInv
  <2>2. \A i \in Jobs : /\ attempts'[i] <= MaxAttempts
                        /\ state'[i] \in {"none", "queued"} => attempts'[i] < MaxAttempts
    BY <1>1, <1>2, <2>1 DEF Inv, BudgetInv, TerminalStates
  <2>3. \A u \in Tasks : phase'[u] = "holding" /\ outcome'[u] = "queued"
                            => attempts'[job'[u]] < MaxAttempts
    BY <1>1, <1>3 DEF Inv, BudgetInv
  <2> QED BY <2>2, <2>3 DEF BudgetInv
<1> QED BY <1>4, <1>5, <1>6 DEF Inv

\* Inv is inductive while keepers beat in time.
LEMMA InvStep ==
    ASSUME LeaseKept
    PROVE  TypeOK /\ TaskType /\ Inv /\ [Next]_vars => Inv'
<1> SUFFICES ASSUME TypeOK, TaskType, Inv, [Next]_vars
             PROVE  Inv'
  OBVIOUS
<1>1. CASE UNCHANGED vars
  BY <1>1 DEF vars, rowVars, taskVars, Inv, OneLiveAttempt, HolderInv, BudgetInv, AtWork
<1>2. CASE Next
  BY <1>2, InvJobSteps, InvClaim, InvWorkerSteps, InvTaskSteps, InvHeartbeat, InvWriteResult
     DEF Next, TaskProgress
<1> QED BY <1>1, <1>2

\* The facts about tasks and rows the theorems below rest on.
THEOREM JobInvHolds == ASSUME LeaseKept PROVE Spec => [](TypeOK /\ TaskType /\ Inv)
<1>1. Init => TypeOK /\ TaskType /\ Inv
  BY TypeInit, InvInit
<1>2. TypeOK /\ TaskType /\ Inv /\ [Next]_vars => (TypeOK /\ TaskType /\ Inv)'
  BY TypeStep, InvStep
<1> QED BY <1>1, <1>2, PTL DEF Spec

\* While keepers beat in time, a job never has two attempts at work.
THEOREM OneAttempt == ASSUME LeaseKept PROVE Spec => []OneLiveAttempt
<1>1. Inv => OneLiveAttempt
  BY DEF Inv
<1> QED BY <1>1, JobInvHolds, PTL

\* While keepers beat in time, no mixture of retries and recovered leases exceeds
\* max_attempts.
THEOREM WithinMax == ASSUME LeaseKept PROVE Spec => []AttemptsWithinMax
<1>1. Inv => AttemptsWithinMax
  BY DEF Inv, BudgetInv, AttemptsWithinMax
<1> QED BY <1>1, JobInvHolds, PTL

\* While keepers beat in time, a job reported as succeeded or failed has no task at work.
THEOREM FinishedHasStopped == ASSUME LeaseKept PROVE Spec => []FinishedIsIdle
<1>1. Inv => FinishedIsIdle
  BY DEF Inv, HolderInv, FinishedIsIdle
<1> QED BY <1>1, JobInvHolds, PTL

\* While keepers beat in time, every result that is written is that of the attempt the
\* row counts.
THEOREM HolderWrites == ASSUME LeaseKept PROVE Spec => ResultByHolder
<1>1. TypeOK /\ TaskType /\ Inv /\ [Next]_vars
        => [\A t \in Tasks : WriteResult(t) => number[t] = attempts[job[t]]]_vars
  BY DEF Inv, HolderInv, WriteResult, AtWork
<1> QED BY <1>1, JobInvHolds, PTL DEF Spec, ResultByHolder

\* Whatever the leases do, no attempt follows a recorded request to cancel.
THEOREM CancelEndsAttempts == Spec => NoAttemptAfterCancel
<1>1. TypeOK /\ TaskType /\ [Next]_vars
        => [\A j \in Jobs : j \in cancelRequested => attempts'[j] = attempts[j]]_vars
  <2> SUFFICES ASSUME TypeOK, TaskType, Next, NEW j \in Jobs, j \in cancelRequested
               PROVE  attempts'[j] = attempts[j]
    BY DEF vars
  <2>1. CASE \E i \in Jobs : \/ Enqueue(i) \/ CancelRead(i) \/ CancelWrite(i)
                             \/ ComesDue(i) \/ LeaseRunsOut(i)
    BY <2>1 DEF Enqueue, CancelRead, CancelWrite, ComesDue, LeaseRunsOut, rowVars
  <2>2. CASE \E w \in Workers : Claim(w) \/ Stop(w) \/ Drain(w) \/ WorkerDown(w)
    BY <2>2 DEF Claim, ClaimExhausted, ClaimCanceled, ClaimJob, StartAttempt, Finish, Stop,
                Drain, WorkerDown, rowVars, TypeOK
  <2>3. CASE \E t \in Tasks : \/ TaskProgress(t) \/ Heartbeat(t)
                              \/ \E how \in Outcomes : HandlerEnds(t, how)
    BY <2>3 DEF TaskProgress, CallHandler, TaskRaises, ReadHeld, ClaimLost, WriteResult, Finish,
                Heartbeat, HandlerEnds, rowVars
  <2> QED BY <2>1, <2>2, <2>3 DEF Next
<1>2. Spec => [](TypeOK /\ TaskType)
  BY TypeInit, TypeStep, PTL DEF Spec
<1> QED BY <1>1, <1>2, PTL DEF Spec, NoAttemptAfterCancel

=============================================================================
