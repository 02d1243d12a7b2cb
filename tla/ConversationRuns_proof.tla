----------------------- MODULE ConversationRuns_proof -----------------------
(***************************************************************************)
(* TLAPS proofs about ConversationRuns, for any number of runs, inputs and *)
(* process instances.                                                      *)
(***************************************************************************)
EXTENDS ConversationRuns, TLAPS

-----------------------------------------------------------------------------
(* Types *)

\* The constants the actions write belong to the sets TypeOK names.
LEMMA Vocabulary ==
    /\ {"queued", "running", "canceling"} \subseteq RunStatuses
    /\ TerminalStatuses \subseteq RunStatuses
    /\ {"completed", "failed", "interrupted", "canceled", "stale"} = TerminalStatuses
    /\ {"none", "stop", "shutdown"} = CancelReasons
    /\ CancelReasons \cup {Revoked} = RowReasons
    /\ {"none", "prep", "begun", "exec", "deaf", "fin"} = TaskStates
    /\ {"none", "completed", "failed", "interrupted", "error", "canceled", "stale",
        "prestart"} = Proposals
BY DEF RunStatuses, ActiveStatuses, TerminalStatuses, CancelReasons, RowReasons, TaskStates,
    Proposals

\* Updating one entry of a two-level table (task, intent, proposed) keeps its type.
LEMMA TableUpdate ==
    ASSUME NEW V, NEW f \in [Workers -> [Runs -> V]],
           NEW w \in Workers, NEW r \in Runs, NEW v \in V
    PROVE  [f EXCEPT ![w][r] = v] \in [Workers -> [Runs -> V]]
OBVIOUS

\* The empty tables and idle processes of Init are typed.
LEMMA TypeInit == Init => TypeOK
<1> SUFFICES ASSUME Init PROVE TypeOK
  OBVIOUS
<1>1. RunTypeOK
  BY Vocabulary DEF Init, RunTypeOK
<1>2. QueueTypeOK
  BY DEF Init, QueueTypeOK
<1>3. ProcessTypeOK
  BY Vocabulary DEF Init, ProcessTypeOK
<1> QED BY <1>1, <1>2, <1>3 DEF TypeOK

\* transition_run keeps the columns of a run typed.
LEMMA TransitionRunType ==
    ASSUME RunTypeOK, NEW r \in Runs, NEW to \in RunStatuses,
           NEW w \in Workers \cup {NoWorker}, NEW acker,
           TransitionRun(r, to, w, acker), UNCHANGED <<cancelReason, parent>>
    PROVE  RunTypeOK'
BY DEF TransitionRun, RunTypeOK

\* request_cancel_run keeps the columns of a run typed.
LEMMA RequestCancelType ==
    ASSUME RunTypeOK, NEW r \in Runs, NEW reason \in RowReasons,
           RequestCancelRun(r, reason), UNCHANGED parent
    PROVE  RunTypeOK'
<1>1. CASE UNCHANGED runVars
  BY <1>1 DEF RunTypeOK, runVars
<1>2. CASE /\ TransitionRun(r, "canceling", NoWorker, FALSE)
           /\ cancelReason' = [cancelReason EXCEPT ![r] = reason]
  BY <1>2, Vocabulary DEF TransitionRun, RunTypeOK
<1> QED BY <1>1, <1>2 DEF RequestCancelRun

\* create_run_from_locked_proof inserts a typed row.
LEMMA CreateRunType ==
    ASSUME RunTypeOK, NEW r \in Runs, NEW p \in Runs \cup {NoRun}, CreateRun(r, p)
    PROVE  RunTypeOK'
BY Vocabulary DEF CreateRun, RunTypeOK

\* The notice to a local task keeps the registry typed.
LEMMA LocalCancelType ==
    ASSUME ProcessTypeOK, NEW w \in Workers, NEW r \in Runs, NEW reason \in CancelReasons,
           RequestLocalCancel(w, r, reason)
    PROVE  intent' \in [Workers -> [Runs -> CancelReasons]]
BY TableUpdate DEF RequestLocalCancel, ProcessTypeOK

\* Steering the active run keeps the rows and the registry typed.
LEMMA SteerType ==
    ASSUME RunTypeOK, ProcessTypeOK, NEW w \in Workers, SteerActiveRun(w), UNCHANGED parent
    PROVE  RunTypeOK' /\ intent' \in [Workers -> [Runs -> CancelReasons]]
<1>1. CASE UNCHANGED <<runVars, intent>>
  BY <1>1 DEF RunTypeOK, ProcessTypeOK, runVars
<1>2. ASSUME NEW r \in Runs, RequestCancelRun(r, "stop"), RequestLocalCancel(w, r, "stop")
      PROVE  RunTypeOK' /\ intent' \in [Workers -> [Runs -> CancelReasons]]
  BY <1>2, RequestCancelType, LocalCancelType, Vocabulary
<1> QED BY <1>1, <1>2 DEF SteerActiveRun

\* Every HTTP handler keeps TypeOK.
LEMMA TypeHandler ==
    ASSUME TypeOK, NEW w \in Workers, Handler(w)
    PROVE  TypeOK'
<1> USE DEF runVars, inputVars, taskVars, flightVars
<1>0. RunTypeOK /\ QueueTypeOK /\ ProcessTypeOK
  BY DEF TypeOK
<1>1. ASSUME NEW i \in Inputs, StartDirect(w, i) PROVE TypeOK'
  <2>1. PICK r \in Runs : CreateRun(r, NoRun) /\ inputRun' = [inputRun EXCEPT ![i] = r]
                          /\ launching' = launching \cup {<<w, r>>}
    BY <1>1 DEF StartDirect
  <2>2. RunTypeOK'
    BY <1>0, <2>1, CreateRunType DEF NoRun
  <2>3. QueueTypeOK'
    BY <1>0, <1>1, <2>1 DEF StartDirect, QueueTypeOK
  <2>4. ProcessTypeOK'
    BY <1>0, <1>1, <2>1 DEF StartDirect, ProcessTypeOK
  <2> QED BY <2>2, <2>3, <2>4 DEF TypeOK
<1>2. ASSUME NEW i \in Inputs, NEW prio \in {0, 100}, EnqueueInput(w, i, prio) PROVE TypeOK'
  <2>1. SteerActiveRun(w) \/ UNCHANGED <<runVars, intent>>
    BY <1>2 DEF EnqueueInput
  <2>2. RunTypeOK' /\ intent' \in [Workers -> [Runs -> CancelReasons]]
    <3>1. CASE SteerActiveRun(w)
      BY <1>0, <1>2, <3>1, SteerType DEF EnqueueInput
    <3>2. CASE UNCHANGED <<runVars, intent>>
      BY <1>0, <1>2, <3>2 DEF EnqueueInput, RunTypeOK, ProcessTypeOK
    <3> QED BY <2>1, <3>1, <3>2
  <2>3. QueueTypeOK'
    BY <1>0, <1>2 DEF EnqueueInput, QueueTypeOK
  <2>4. ProcessTypeOK'
    BY <1>0, <1>2, <2>2 DEF EnqueueInput, ProcessTypeOK
  <2> QED BY <2>2, <2>3, <2>4 DEF TypeOK
<1>3. ASSUME NEW i \in Inputs, DeleteInput(w, i) PROVE TypeOK'
  BY <1>0, <1>3 DEF DeleteInput, TypeOK, RunTypeOK, QueueTypeOK, ProcessTypeOK
<1>4. ASSUME NEW i \in Inputs, PromoteInput(w, i) PROVE TypeOK'
  <2>1. RunTypeOK' /\ intent' \in [Workers -> [Runs -> CancelReasons]]
    BY <1>0, <1>4, SteerType DEF PromoteInput
  <2>2. QueueTypeOK'
    BY <1>0, <1>4 DEF PromoteInput, QueueTypeOK
  <2>3. ProcessTypeOK'
    BY <1>0, <1>4, <2>1 DEF PromoteInput, ProcessTypeOK
  <2> QED BY <2>1, <2>2, <2>3 DEF TypeOK
<1>5. ASSUME NEW r \in Runs, CancelRun(w, r) PROVE TypeOK'
  <2>1. RunTypeOK'
    BY <1>0, <1>5, RequestCancelType, Vocabulary DEF CancelRun
  <2>2. QueueTypeOK'
    BY <1>0, <1>5 DEF CancelRun, QueueTypeOK
  <2>3. intent' \in [Workers -> [Runs -> CancelReasons]]
    BY <1>0, <1>5, LocalCancelType, Vocabulary DEF CancelRun, ProcessTypeOK
  <2>4. ProcessTypeOK'
    BY <1>0, <1>5, <2>3 DEF CancelRun, ProcessTypeOK
  <2> QED BY <2>1, <2>2, <2>4 DEF TypeOK
<1>6. ASSUME NEW r \in Runs, StageCancelIntent(w, r) \/ EmergencyStop(w, r) PROVE TypeOK'
  <2>1. RunTypeOK'
    BY <1>0, <1>6, RequestCancelType, Vocabulary DEF StageCancelIntent, EmergencyStop
  <2>2. intent' \in [Workers -> [Runs -> CancelReasons]]
    BY <1>0, <1>6, LocalCancelType, Vocabulary DEF StageCancelIntent, EmergencyStop, ProcessTypeOK
  <2> QED BY <1>0, <1>6, <2>1, <2>2
      DEF StageCancelIntent, EmergencyStop, TypeOK, QueueTypeOK, ProcessTypeOK
<1>7. ASSUME NEW r \in Runs, NEW p \in Runs \cup {NoRun}, CreateRun(r, p),
             launching' = launching \cup {<<w, r>>},
             UNCHANGED <<inputVars, queuePaused, process, taskVars, agUiRead, published>>
      PROVE  TypeOK'
  <2>1. RunTypeOK'
    BY <1>0, <1>7, CreateRunType
  <2> QED BY <1>0, <1>7, <2>1 DEF TypeOK, QueueTypeOK, ProcessTypeOK
<1>8. ASSUME StartFork(w) PROVE TypeOK'
  BY <1>7, <1>8 DEF StartFork
<1>9. ASSUME ResumeInterrupted(w) PROVE TypeOK'
  BY <1>7, <1>9 DEF ResumeInterrupted
<1>10. ASSUME ReorderInputs(w) PROVE TypeOK'
  <2>1. QueueTypeOK'
    BY <1>0, <1>10 DEF ReorderInputs, PendingInputs, QueueTypeOK
  <2> QED BY <1>0, <1>10, <2>1 DEF ReorderInputs, TypeOK, RunTypeOK, ProcessTypeOK
<1>11. ASSUME ResumeQueue(w) PROVE TypeOK'
  BY <1>0, <1>11 DEF ResumeQueue, TypeOK, RunTypeOK, QueueTypeOK, ProcessTypeOK
<1> QED BY <1>1, <1>2, <1>3, <1>4, <1>5, <1>6, <1>8, <1>9, <1>10, <1>11 DEF Handler

\* Every step of the queue worker keeps TypeOK.
LEMMA TypeQueueWorker ==
    ASSUME TypeOK, NEW w \in Workers, QueueWorker(w)
    PROVE  TypeOK'
<1> USE DEF runVars, inputVars, taskVars, flightVars
<1>0. RunTypeOK /\ QueueTypeOK /\ ProcessTypeOK
  BY DEF TypeOK
<1>1. ASSUME ClaimNextInput(w) PROVE TypeOK'
  <2>1. PICK r \in Runs, i \in Inputs :
          /\ CreateRun(r, NoRun)
          /\ inputStatus' = [inputStatus EXCEPT ![i] = "claimed"]
          /\ inputRun' = [inputRun EXCEPT ![i] = r]
          /\ launching' = launching \cup {<<w, r>>}
    BY <1>1 DEF ClaimNextInput
  <2>2. RunTypeOK'
    BY <1>0, <2>1, CreateRunType
  <2>3. QueueTypeOK'
    BY <1>0, <1>1, <2>1 DEF ClaimNextInput, QueueTypeOK
  <2>4. ProcessTypeOK'
    BY <1>0, <1>1, <2>1 DEF ClaimNextInput, ProcessTypeOK
  <2> QED BY <2>2, <2>3, <2>4 DEF TypeOK
<1>2. ASSUME PauseBlockedQueue(w) PROVE TypeOK'
  BY <1>0, <1>2 DEF PauseBlockedQueue, TypeOK, RunTypeOK, QueueTypeOK, ProcessTypeOK
<1>3. ASSUME NEW r \in Runs, LaunchStart(w, r) PROVE TypeOK'
  <2>1. ProcessTypeOK'
    BY <1>0, <1>3, TableUpdate, Vocabulary DEF LaunchStart, ProcessTypeOK
  <2> QED BY <1>0, <1>3, <2>1 DEF LaunchStart, TypeOK, RunTypeOK, QueueTypeOK
<1>4. ASSUME NEW r \in Runs, LaunchSkip(w, r) PROVE TypeOK'
  BY <1>0, <1>4 DEF LaunchSkip, TypeOK, RunTypeOK, QueueTypeOK, ProcessTypeOK
<1>5. ASSUME NEW r \in Runs, NEW i \in Inputs, FailClaimedInput(w, r, i) PROVE TypeOK'
  <2>1. RunTypeOK'
    BY <1>0, <1>5, TransitionRunType, Vocabulary DEF FailClaimedInput
  <2>2. QueueTypeOK' /\ ProcessTypeOK'
    BY <1>0, <1>5 DEF FailClaimedInput, QueueTypeOK, ProcessTypeOK
  <2> QED BY <2>1, <2>2 DEF TypeOK
<1>6. ASSUME NEW r \in Runs, NEW i \in Inputs, FailUnboundInput(w, r, i) PROVE TypeOK'
  BY <1>0, <1>6 DEF FailUnboundInput, TypeOK, RunTypeOK, QueueTypeOK, ProcessTypeOK
<1>7. ASSUME NEW r \in Runs, FinalizeWorkerless(w, r) PROVE TypeOK'
  <2>1. RunTypeOK'
    BY <1>0, <1>7, TransitionRunType, Vocabulary DEF FinalizeWorkerless
  <2>2. QueueTypeOK' /\ ProcessTypeOK'
    BY <1>0, <1>7 DEF FinalizeWorkerless, QueueTypeOK, ProcessTypeOK
  <2> QED BY <2>1, <2>2 DEF TypeOK
<1> QED BY <1>1, <1>2, <1>3, <1>4, <1>5, <1>6, <1>7 DEF QueueWorker

\* The status a finalizer commits is a terminal one.
LEMMA EffectiveIsTerminal ==
    ASSUME NEW current, NEW p \in Proposals, NEW may,
           <<current, EffectiveTerminalStatus(current, ProposedStatus(p), may)>>
               \in AllowedTransitions
    PROVE  EffectiveTerminalStatus(current, ProposedStatus(p), may) \in TerminalStatuses
BY DEF EffectiveTerminalStatus, ProposedStatus, Proposals, TerminalStatuses, AllowedTransitions

\* Every step of a run task, its heartbeat and its finalizer keeps TypeOK.
LEMMA TypeRunTask ==
    ASSUME TypeOK, NEW w \in Workers, NEW r \in Runs, RunTask(w, r)
    PROVE  TypeOK'
<1> USE DEF runVars, inputVars, taskVars, flightVars
<1>0. RunTypeOK /\ QueueTypeOK /\ ProcessTypeOK
  BY DEF TypeOK
<1>1. ASSUME DropTask(w, r) PROVE QueueTypeOK' /\ ProcessTypeOK'
  BY <1>0, <1>1, TableUpdate, Vocabulary DEF DropTask, QueueTypeOK, ProcessTypeOK
<1>2. ASSUME DropTask(w, r), UNCHANGED runVars PROVE TypeOK'
  BY <1>0, <1>1, <1>2 DEF DropTask, TypeOK, RunTypeOK
<1>3. ASSUME BeginRun(w, r) PROVE TypeOK'
  <2>1. RunTypeOK'
    BY <1>0, <1>3, TransitionRunType, Vocabulary DEF BeginRun
  <2>2. QueueTypeOK' /\ ProcessTypeOK'
    BY <1>0, <1>3, TableUpdate, Vocabulary DEF BeginRun, QueueTypeOK, ProcessTypeOK
  <2> QED BY <2>1, <2>2 DEF TypeOK
<1>4. ASSUME BeginRevoked(w, r) PROVE TypeOK'
  <2>1. RunTypeOK'
    BY <1>0, <1>4, RequestCancelType, Vocabulary DEF BeginRevoked, DropTask
  <2> QED BY <1>1, <1>4, <2>1 DEF BeginRevoked, TypeOK
<1>5. ASSUME BeginCanceled(w, r) PROVE TypeOK'
  <2>1. ProcessTypeOK'
    BY <1>0, <1>5, TableUpdate, Vocabulary DEF BeginCanceled, ProcessTypeOK
  <2> QED BY <1>0, <1>5, <2>1 DEF BeginCanceled, TypeOK, RunTypeOK, QueueTypeOK
<1>6. ASSUME EnterExecutor(w, r) PROVE TypeOK'
  <2>1. ProcessTypeOK'
    BY <1>0, <1>6, TableUpdate, Vocabulary DEF EnterExecutor, ProcessTypeOK
  <2> QED BY <1>0, <1>6, <2>1 DEF EnterExecutor, TypeOK, RunTypeOK, QueueTypeOK
<1>7. ASSUME NEW p \in Proposals, EndBody(w, r, p) PROVE TypeOK'
  <2>1. ProcessTypeOK'
    BY <1>0, <1>7, TableUpdate, Vocabulary DEF EndBody, ProcessTypeOK
  <2> QED BY <1>0, <1>7, <2>1 DEF EndBody, TypeOK, RunTypeOK, QueueTypeOK
<1>8. ASSUME HeartbeatRun(w, r) PROVE TypeOK'
  BY <1>0, <1>8 DEF HeartbeatRun, TypeOK, RunTypeOK, QueueTypeOK, ProcessTypeOK
<1>9. ASSUME PollCancels(w, r) \/ HeartbeatEnds(w, r) PROVE TypeOK'
  <2>1. PollReason(r) \in CancelReasons
    BY Vocabulary DEF PollReason, LocalReason
  <2>2. intent' \in [Workers -> [Runs -> CancelReasons]]
    BY <1>0, <1>9, <2>1, LocalCancelType DEF PollCancels, HeartbeatEnds, ProcessTypeOK
  <2>3. StopHeartbeat(w, r)
    BY <1>9 DEF PollCancels, HeartbeatEnds
  <2>4. task' \in [Workers -> [Runs -> TaskStates]]
    BY <1>0, <2>3, TableUpdate, Vocabulary DEF StopHeartbeat, ProcessTypeOK
  <2> QED BY <1>0, <2>2, <2>3, <2>4 DEF StopHeartbeat, TypeOK, RunTypeOK, QueueTypeOK, ProcessTypeOK
<1>10. ASSUME Discard(w, r)
       PROVE  /\ QueueTypeOK'
              /\ published' \in [Runs -> TerminalStatuses \cup {"none"}] => ProcessTypeOK'
  BY <1>0, <1>10, TableUpdate, Vocabulary DEF Discard, QueueTypeOK, ProcessTypeOK
<1>11. ASSUME Finalize(w, r) PROVE TypeOK'
  <2> DEFINE effective == EffectiveTerminalStatus(status[r], ProposedStatus(proposed[w][r]),
                                                  MayAcknowledge(w, r))
  <2>1. TransitionRun(r, effective, w, MayAcknowledge(w, r)) /\ UNCHANGED <<cancelReason, parent>>
        /\ PublishTerminal(w, r, effective) /\ Discard(w, r)
    BY <1>11 DEF Finalize, Discard
  <2>2. effective \in TerminalStatuses
    BY <1>0, <2>1, EffectiveIsTerminal DEF TransitionRun, ProcessTypeOK
  <2> HIDE DEF effective
  <2>3. RunTypeOK'
    BY <1>0, <2>1, <2>2, TransitionRunType, Vocabulary
  <2>4. published' \in [Runs -> TerminalStatuses \cup {"none"}]
    BY <1>0, <2>1, <2>2 DEF PublishTerminal, ProcessTypeOK
  <2> QED BY <1>10, <2>1, <2>3, <2>4 DEF TypeOK
<1>12. ASSUME FinalizeRefused(w, r) PROVE TypeOK'
  <2>1. Discard(w, r) /\ UNCHANGED <<runVars, parent, published>>
    BY <1>12 DEF FinalizeRefused, Discard
  <2> QED BY <1>0, <1>10, <2>1 DEF TypeOK, RunTypeOK, ProcessTypeOK
<1> QED
  BY <1>2, <1>3, <1>4, <1>5, <1>6, <1>7, <1>8, <1>9, <1>11, <1>12, Vocabulary
  DEF RunTask, PrepAborts, BeginNotStartable, BeginTorn, ExecutorEnds, ExecutorRaises,
      ExecutorCanceled

\* Sweeps, attaches, the clock, shutdown and crash keep TypeOK.
LEMMA TypeEnvironment ==
    ASSUME TypeOK, NEW w \in Workers,
           Staleness(w) \/ StartProcess(w) \/ Shutdown(w) \/ ProcessDown(w)
    PROVE  TypeOK'
<1> USE DEF runVars, inputVars, taskVars, flightVars
<1>0. RunTypeOK /\ QueueTypeOK /\ ProcessTypeOK
  BY DEF TypeOK
<1>1. ASSUME SweepStale(w) PROVE TypeOK'
  BY <1>0, <1>1, Vocabulary DEF SweepStale, TypeOK, RunTypeOK, QueueTypeOK, ProcessTypeOK
<1>2. ASSUME AgUiWriteStale(w) PROVE TypeOK'
  <2>1. agUiRead[w] \in Runs
    BY <1>0, <1>2 DEF AgUiWriteStale, ProcessTypeOK
  <2> QED BY <1>0, <1>2, <2>1, Vocabulary
      DEF AgUiWriteStale, TypeOK, RunTypeOK, QueueTypeOK, ProcessTypeOK
<1>3. ASSUME NEW r \in Runs, AttachStale(w, r) PROVE TypeOK'
  <2>1. RunTypeOK'
    BY <1>0, <1>3, TransitionRunType, Vocabulary DEF AttachStale
  <2> QED BY <1>0, <1>3, <2>1 DEF AttachStale, TypeOK, QueueTypeOK, ProcessTypeOK
<1>4. ASSUME NEW r \in Runs, AgUiReadRun(w, r) PROVE TypeOK'
  BY <1>0, <1>4 DEF AgUiReadRun, TypeOK, RunTypeOK, QueueTypeOK, ProcessTypeOK
<1>5. ASSUME StartProcess(w) PROVE TypeOK'
  BY <1>0, <1>5 DEF StartProcess, TypeOK, RunTypeOK, QueueTypeOK, ProcessTypeOK
<1>6. ASSUME Shutdown(w) PROVE TypeOK'
  <2>1. RunTypeOK'
    <3>1. CASE UNCHANGED runVars
      BY <1>0, <1>6, <3>1 DEF Shutdown, RunTypeOK
    <3>2. ASSUME NEW r \in Runs, RequestCancelRun(r, "shutdown") PROVE RunTypeOK'
      BY <1>0, <1>6, <3>2, RequestCancelType, Vocabulary DEF Shutdown
    <3> QED BY <1>6, <3>1, <3>2 DEF Shutdown
  <2>2. intent' \in [Workers -> [Runs -> CancelReasons]]
    BY <1>0, <1>6, Vocabulary DEF Shutdown, ProcessTypeOK
  <2> QED BY <1>0, <1>6, <2>1, <2>2 DEF Shutdown, TypeOK, QueueTypeOK, ProcessTypeOK
<1>7. ASSUME ProcessDown(w) PROVE TypeOK'
  <2>1. ProcessTypeOK'
    BY <1>0, <1>7, Vocabulary DEF ProcessDown, ProcessTypeOK
  <2> QED BY <1>0, <1>7, <2>1 DEF ProcessDown, TypeOK, RunTypeOK, QueueTypeOK
<1> QED BY <1>1, <1>2, <1>3, <1>4, <1>5, <1>6, <1>7 DEF Staleness

\* TypeOK is inductive.
LEMMA TypeStep == TypeOK /\ [Next]_vars => TypeOK'
<1> SUFFICES ASSUME TypeOK, [Next]_vars PROVE TypeOK'
  OBVIOUS
<1>1. CASE UNCHANGED vars
  BY <1>1 DEF TypeOK, RunTypeOK, QueueTypeOK, ProcessTypeOK, vars, runVars, inputVars,
      taskVars, flightVars
<1>2. ASSUME NEW r \in Runs, HeartbeatAges(r) PROVE TypeOK'
  BY <1>2 DEF HeartbeatAges, TypeOK, RunTypeOK, QueueTypeOK, ProcessTypeOK, inputVars,
      taskVars, flightVars
<1> QED BY <1>1, <1>2, TypeHandler, TypeQueueWorker, TypeRunTask, TypeEnvironment DEF Next

\* Every column, task entry and event keeps one of the values its code writes, for
\* any number of runs, inputs and processes.
THEOREM TypeCorrect == Spec => []TypeOK
BY TypeInit, TypeStep, PTL DEF Spec


-----------------------------------------------------------------------------
(* The inductive invariant *)

\* What a row's columns say about each other: nobody owns a run before it starts, only
\* a run past "running" was asked to cancel, and an acknowledged cancel is "canceled"
\* (or "stale": a shutdown, or a late ag-ui write).
RowInv ==
    \A r \in Runs :
        /\ status[r] \in {"none", "queued"} => worker[r] = NoWorker
        /\ r \in cancelRequested => status[r] \notin {"none", "queued", "running"}
        /\ status[r] = "canceling" => r \in cancelRequested
        /\ r \in acknowledged => status[r] \in {"canceled", "stale"}

\* What a task knows of its row: an executor owns its run, which nobody acknowledged,
\* and a finalizer owns it or runs for a cancel seen before the start.
TaskInv ==
    \A w \in Workers, r \in Runs :
        /\ Executing(w, r) => /\ worker[r] = w
                              /\ status[r] \in {"running", "canceling", "stale"}
                              /\ r \notin acknowledged
        /\ task[w][r] = "fin" => worker[r] = w \/ proposed[w][r] = "prestart"

\* What an input knows of its run.
BindInv ==
    \A i \in Inputs :
        /\ inputStatus[i] \in {"none", "pending", "canceled"} => inputRun[i] = NoRun
        /\ inputStatus[i] \in {"claimed", "failed"} => inputRun[i] # NoRun
        /\ inputRun[i] # NoRun => status[inputRun[i]] # "none"
        /\ inputStatus[i] = "failed" /\ i \notin unbound =>
              status[inputRun[i]] \in {"failed", "stale"} /\ worker[inputRun[i]] = NoWorker
        /\ \A j \in Inputs : inputRun[i] = inputRun[j] /\ inputRun[i] # NoRun => i = j

ActiveInv == \A r, q \in Runs : Active(r) /\ Active(q) => r = q

Inv == RowInv /\ TaskInv /\ BindInv /\ ActiveInv

-----------------------------------------------------------------------------
(* What the steps have in common *)

SameRows == UNCHANGED <<status, worker, cancelRequested, acknowledged>>

\* Tasks may end, be prepared or reach their finalizer, none starts executing.
EasedTasks ==
    \A w \in Workers, r \in Runs :
        /\ task'[w][r] \in {"begun", "exec", "deaf"} => Executing(w, r)
        /\ task'[w][r] = "fin" => \/ task[w][r] = "fin" /\ proposed'[w][r] = proposed[w][r]
                                  \/ worker[r] = w
                                  \/ proposed'[w][r] = "prestart"

\* Inputs may be inserted or retracted, none is bound or unbound.
EasedInputs ==
    /\ UNCHANGED <<inputRun, unbound>>
    /\ \A i \in Inputs : \/ inputStatus'[i] = inputStatus[i]
                         \/ /\ inputStatus[i] \in {"none", "pending", "canceled"}
                            /\ inputStatus'[i] \in {"none", "pending", "canceled"}

Quiet == SameRows /\ EasedTasks /\ EasedInputs

\* A run is created, with a claimed input or without one.
Creates(r) ==
    /\ NoActiveRun
    /\ status[r] = "none"
    /\ status' = [status EXCEPT ![r] = "queued"]
    /\ UNCHANGED <<worker, cancelRequested, acknowledged, task, proposed, unbound>>
    /\ \/ UNCHANGED <<inputStatus, inputRun>>
       \/ \E i \in Inputs :
             /\ inputStatus[i] \in {"none", "pending"}
             /\ inputStatus[i] = "pending" => ~UnacknowledgedCancel
             /\ inputStatus' = [inputStatus EXCEPT ![i] = "claimed"]
             /\ inputRun' = [inputRun EXCEPT ![i] = r]

\* A queued or running run is asked to cancel.
Cancels(r) ==
    /\ status[r] \in {"queued", "running"}
    /\ status' = [status EXCEPT ![r] = "canceling"]
    /\ cancelRequested' = cancelRequested \cup {r}
    /\ UNCHANGED <<worker, acknowledged>>
    /\ EasedTasks
    /\ EasedInputs

\* One or more runs are ended by somebody who is not their finalizer.
GoesStale ==
    /\ \A r \in Runs : \/ status'[r] = status[r]
                       \/ status'[r] = "stale" /\ Active(r)
    /\ UNCHANGED <<worker, cancelRequested, acknowledged, task, proposed, inputStatus, inputRun, unbound>>

\* Every step is of one of these kinds.
StepKind ==
    \/ Quiet
    \/ \E r \in Runs : Creates(r) \/ Cancels(r)
    \/ \E w \in Workers, r \in Runs :
          \/ BeginRun(w, r) \/ Finalize(w, r) \/ FinalizeWorkerless(w, r)
          \/ \E i \in Inputs : FailClaimedInput(w, r, i) \/ FailUnboundInput(w, r, i)
    \/ GoesStale
    \/ \E w \in Workers : AgUiWriteStale(w)

\* Leaving rows, tasks and bindings alone is quiet.
LEMMA QuietSteps ==
    ASSUME SameRows, UNCHANGED <<task, proposed, inputStatus, inputRun, unbound>>
    PROVE  Quiet
BY DEF Quiet, EasedTasks, EasedInputs, Executing

\* request_cancel_run either cancels an active run or changes no row.
LEMMA CancelRequests ==
    ASSUME TypeOK, NEW r \in Runs, NEW reason, RequestCancelRun(r, reason), EasedTasks, EasedInputs
    PROVE  Quiet \/ Cancels(r)
<1>1. CASE UNCHANGED runVars
  BY <1>1 DEF Quiet, SameRows, runVars
<1>2. CASE status[r] \in {"queued", "running"} /\ TransitionRun(r, "canceling", NoWorker, FALSE)
  <2>1. worker' = worker
    BY <1>2 DEF TransitionRun, TypeOK, RunTypeOK
  <2> QED BY <1>2, <2>1 DEF TransitionRun, Cancels
<1> QED BY <1>1, <1>2 DEF RequestCancelRun

\* A steering input cancels the active run or changes no row.
LEMMA SteerRequests ==
    ASSUME TypeOK, NEW w \in Workers, SteerActiveRun(w), EasedTasks, EasedInputs
    PROVE  Quiet \/ \E r \in Runs : Cancels(r)
BY CancelRequests DEF SteerActiveRun, Quiet, SameRows, runVars

\* The kinds a handler step can have.
LEMMA HandlerKind ==
    ASSUME TypeOK, NEW w \in Workers, Handler(w)
    PROVE  Quiet \/ \E r \in Runs : Creates(r) \/ Cancels(r)
<1> USE DEF runVars, inputVars, taskVars, flightVars
<1>0. UNCHANGED <<task, proposed>> => EasedTasks
  BY DEF EasedTasks, Executing
<1>1. ASSUME NEW i \in Inputs, StartDirect(w, i) PROVE \E r \in Runs : Creates(r)
  BY <1>1 DEF StartDirect, CreateRun, Creates
<1>2. ASSUME NEW i \in Inputs, NEW prio \in {0, 100}, EnqueueInput(w, i, prio)
      PROVE  Quiet \/ \E r \in Runs : Cancels(r)
  <2>1. EasedTasks /\ EasedInputs
    BY <1>0, <1>2 DEF EnqueueInput, EasedInputs, TypeOK, QueueTypeOK
  <2> QED BY <1>2, <2>1, SteerRequests DEF EnqueueInput, Quiet, SameRows
<1>3. ASSUME NEW i \in Inputs, DeleteInput(w, i) PROVE Quiet
  <2>1. EasedTasks /\ EasedInputs
    BY <1>0, <1>3 DEF DeleteInput, EasedInputs, TypeOK, QueueTypeOK
  <2> QED BY <1>3, <2>1 DEF DeleteInput, Quiet, SameRows
<1>4. ASSUME NEW i \in Inputs, PromoteInput(w, i)
      PROVE  Quiet \/ \E r \in Runs : Cancels(r)
  <2>1. EasedTasks /\ EasedInputs
    BY <1>0, <1>4 DEF PromoteInput, EasedInputs
  <2> QED BY <1>4, <2>1, SteerRequests DEF PromoteInput
<1>5. ASSUME NEW r \in Runs, CancelRun(w, r) \/ StageCancelIntent(w, r) \/ EmergencyStop(w, r)
      PROVE  Quiet \/ Cancels(r)
  <2>1. EasedTasks /\ EasedInputs
    BY <1>0, <1>5 DEF CancelRun, StageCancelIntent, EmergencyStop, EasedInputs
  <2> QED BY <1>5, <2>1, CancelRequests DEF CancelRun, StageCancelIntent, EmergencyStop
<1>6. ASSUME StartFork(w) \/ ResumeInterrupted(w) PROVE \E r \in Runs : Creates(r)
  BY <1>6 DEF StartFork, ResumeInterrupted, CreateRun, Creates
<1>7. ASSUME ReorderInputs(w) \/ ResumeQueue(w) PROVE Quiet
  BY <1>7, QuietSteps DEF ReorderInputs, ResumeQueue, SameRows
<1> QED BY <1>1, <1>2, <1>3, <1>4, <1>5, <1>6, <1>7 DEF Handler

\* The kinds a step of the queue worker can have.
LEMMA QueueWorkerKind ==
    ASSUME TypeOK, NEW w \in Workers, QueueWorker(w)
    PROVE  StepKind
<1> USE DEF runVars, inputVars, taskVars, flightVars
<1>1. ASSUME ClaimNextInput(w) PROVE \E r \in Runs : Creates(r)
  BY <1>1 DEF ClaimNextInput, CreateRun, Creates, NextInput, PendingInputs
<1>2. ASSUME PauseBlockedQueue(w) PROVE Quiet
  BY <1>2, QuietSteps DEF PauseBlockedQueue, SameRows
<1>3. ASSUME NEW r \in Runs, LaunchStart(w, r) PROVE Quiet
  <2>1. EasedTasks
    BY <1>3 DEF LaunchStart, EasedTasks, Executing, TypeOK, ProcessTypeOK
  <2> QED BY <1>3, <2>1 DEF LaunchStart, Quiet, EasedInputs, SameRows
<1>4. ASSUME NEW r \in Runs, LaunchSkip(w, r) PROVE Quiet
  BY <1>4, QuietSteps DEF LaunchSkip, SameRows
<1> QED BY <1>1, <1>2, <1>3, <1>4 DEF QueueWorker, StepKind

\* The kinds a step of a run task can have.
LEMMA RunTaskKind ==
    ASSUME TypeOK, TaskInv, NEW w \in Workers, NEW r \in Runs, RunTask(w, r)
    PROVE  StepKind
<1> USE DEF runVars, inputVars, taskVars, flightVars
<1>0. task \in [Workers -> [Runs -> TaskStates]] /\ proposed \in [Workers -> [Runs -> Proposals]]
  BY DEF TypeOK, ProcessTypeOK
<1>1. ASSUME DropTask(w, r) PROVE EasedTasks /\ EasedInputs
  BY <1>0, <1>1 DEF DropTask, EasedTasks, EasedInputs, Executing
<1>2. ASSUME DropTask(w, r), UNCHANGED runVars PROVE Quiet
  BY <1>1, <1>2 DEF Quiet, SameRows
<1>3. ASSUME BeginRevoked(w, r) PROVE Quiet \/ Cancels(r)
  BY <1>1, <1>3, CancelRequests DEF BeginRevoked
<1>4. ASSUME BeginCanceled(w, r) PROVE Quiet
  <2>1. EasedTasks
    BY <1>0, <1>4 DEF BeginCanceled, EasedTasks, Executing
  <2> QED BY <1>4, <2>1 DEF BeginCanceled, Quiet, SameRows, EasedInputs
<1>5. ASSUME EnterExecutor(w, r) PROVE Quiet
  <2>1. EasedTasks
    BY <1>0, <1>5 DEF EnterExecutor, EasedTasks, Executing
  <2> QED BY <1>5, <2>1 DEF EnterExecutor, Quiet, SameRows, EasedInputs
<1>6. ASSUME NEW p, EndBody(w, r, p) PROVE Quiet
  <2>1. worker[r] = w
    BY <1>6 DEF EndBody, TaskInv, Executing
  <2>2. EasedTasks
    BY <1>0, <1>6, <2>1 DEF EndBody, EasedTasks, Executing
  <2> QED BY <1>6, <2>2 DEF EndBody, Quiet, SameRows, EasedInputs
<1>7. ASSUME HeartbeatRun(w, r) PROVE Quiet
  BY <1>7, QuietSteps DEF HeartbeatRun, SameRows
<1>8. ASSUME StopHeartbeat(w, r) PROVE Quiet
  <2>1. EasedTasks
    BY <1>0, <1>8 DEF StopHeartbeat, EasedTasks, Executing
  <2> QED BY <1>8, <2>1 DEF StopHeartbeat, Quiet, SameRows, EasedInputs
<1>9. ASSUME FinalizeRefused(w, r) PROVE Quiet
  <2>1. EasedTasks
    BY <1>0, <1>9 DEF FinalizeRefused, Discard, EasedTasks, Executing
  <2> QED BY <1>9, <2>1 DEF FinalizeRefused, Discard, Quiet, SameRows, EasedInputs
<1> QED
  BY <1>2, <1>3, <1>4, <1>5, <1>6, <1>7, <1>8, <1>9
  DEF RunTask, StepKind, PrepAborts, BeginNotStartable, BeginTorn, ExecutorEnds,
      ExecutorRaises, ExecutorCanceled, PollCancels, HeartbeatEnds

\* The kinds a sweep, an attach, a clock tick or a process event can have.
LEMMA EnvironmentKind ==
    ASSUME TypeOK, NEW w \in Workers,
           Staleness(w) \/ StartProcess(w) \/ Shutdown(w) \/ ProcessDown(w)
    PROVE  StepKind
<1> USE DEF runVars, inputVars, taskVars, flightVars
<1>1. ASSUME SweepStale(w) PROVE GoesStale
  BY <1>1 DEF SweepStale, SweptRuns, GoesStale, Active, ActiveStatuses, TypeOK, RunTypeOK
<1>2. ASSUME NEW r \in Runs, AttachStale(w, r) PROVE GoesStale
  <2>1. UNCHANGED <<worker, cancelRequested, acknowledged, task, proposed, inputStatus, inputRun, unbound>>
    BY <1>2 DEF AttachStale, TransitionRun, TypeOK, RunTypeOK
  <2> QED BY <1>2, <2>1 DEF AttachStale, TransitionRun, GoesStale, TypeOK, RunTypeOK
<1>3. ASSUME NEW r \in Runs, AgUiReadRun(w, r) PROVE Quiet
  BY <1>3, QuietSteps DEF AgUiReadRun, SameRows
<1>4. ASSUME StartProcess(w) PROVE Quiet
  BY <1>4, QuietSteps DEF StartProcess, SameRows
<1>5. ASSUME Shutdown(w) PROVE Quiet \/ \E r \in Runs : Cancels(r)
  <2>1. EasedTasks /\ EasedInputs
    BY <1>5 DEF Shutdown, EasedTasks, EasedInputs, Executing
  <2>2. ASSUME UNCHANGED runVars PROVE Quiet
    BY <2>1, <2>2 DEF Quiet, SameRows
  <2> QED BY <1>5, <2>1, <2>2, CancelRequests DEF Shutdown
<1>6. ASSUME ProcessDown(w) PROVE Quiet
  <2>1. EasedTasks
    BY <1>6 DEF ProcessDown, EasedTasks, Executing, TypeOK, ProcessTypeOK
  <2> QED BY <1>6, <2>1 DEF ProcessDown, Quiet, SameRows, EasedInputs
<1> QED BY <1>1, <1>2, <1>3, <1>4, <1>5, <1>6 DEF Staleness, StepKind

\* Every step is quiet, creates, cancels, starts or ends a run.
LEMMA StepKinds == TypeOK /\ TaskInv /\ [Next]_vars => StepKind
<1> SUFFICES ASSUME TypeOK, TaskInv, [Next]_vars PROVE StepKind
  OBVIOUS
<1>1. CASE UNCHANGED vars
  BY <1>1, QuietSteps DEF vars, runVars, inputVars, taskVars, SameRows, StepKind
<1>2. ASSUME NEW r \in Runs, HeartbeatAges(r) PROVE StepKind
  BY <1>2, QuietSteps DEF HeartbeatAges, inputVars, taskVars, SameRows, StepKind
<1>3. ASSUME NEW w \in Workers, Handler(w) PROVE StepKind
  BY <1>3, HandlerKind DEF StepKind
<1> QED BY <1>1, <1>2, <1>3, QueueWorkerKind, RunTaskKind, EnvironmentKind DEF Next

-----------------------------------------------------------------------------
(* The invariant is inductive *)

\* Inv holds of the empty tables.
LEMMA InvInit == Init => Inv
BY DEF Init, Inv, RowInv, TaskInv, BindInv, ActiveInv, Executing, Active, ActiveStatuses

\* A quiet step keeps Inv: executors only stop, rows do not change.
LEMMA QuietInv ==
    ASSUME TypeOK, Inv, Quiet
    PROVE  Inv'
<1>1. RowInv'
  BY DEF Inv, Quiet, SameRows, RowInv
<1>2. TaskInv'
  BY DEF Inv, Quiet, SameRows, EasedTasks, TaskInv, Executing
<1>3. BindInv'
  BY DEF Inv, Quiet, SameRows, EasedInputs, BindInv
<1>4. ActiveInv'
  BY DEF Inv, Quiet, SameRows, ActiveInv, Active
<1> QED BY <1>1, <1>2, <1>3, <1>4 DEF Inv

\* Creating a run keeps Inv: no run was active, and the new row has no owner.
LEMMA CreatesInv ==
    ASSUME TypeOK, Inv, NEW r \in Runs, Creates(r)
    PROVE  Inv'
<1>0. RowInv /\ TaskInv /\ BindInv /\ RunTypeOK /\ QueueTypeOK
  BY DEF Inv, TypeOK
<1>1. RowInv'
  BY <1>0 DEF Creates, RowInv, RunTypeOK
<1>2. TaskInv'
  BY <1>0 DEF Creates, TaskInv, Executing, RunTypeOK
<1>3. BindInv'
  <2>1. CASE UNCHANGED <<inputStatus, inputRun>>
    BY <1>0, <2>1 DEF Creates, BindInv, RunTypeOK, QueueTypeOK
  <2>2. ASSUME NEW i \in Inputs, inputStatus[i] \in {"none", "pending"},
               inputStatus' = [inputStatus EXCEPT ![i] = "claimed"],
               inputRun' = [inputRun EXCEPT ![i] = r]
        PROVE  BindInv'
    <3>1. r # NoRun
      BY RunsAssumption
    <3>2. \A j \in Inputs : inputRun[j] # r
      BY <1>0, <3>1 DEF Creates, BindInv
    <3> QED BY <1>0, <2>2, <3>1, <3>2 DEF Creates, BindInv, RunTypeOK, QueueTypeOK
  <2> QED BY <2>1, <2>2 DEF Creates
<1>4. ActiveInv'
  BY <1>0 DEF Creates, ActiveInv, NoActiveRun, Active, RunTypeOK
<1> QED BY <1>1, <1>2, <1>3, <1>4 DEF Inv

\* Requesting a cancel keeps Inv: the run stays active and unacknowledged.
LEMMA CancelsInv ==
    ASSUME TypeOK, Inv, NEW r \in Runs, Cancels(r)
    PROVE  Inv'
<1>0. RowInv /\ TaskInv /\ BindInv /\ ActiveInv /\ RunTypeOK /\ QueueTypeOK
  BY DEF Inv, TypeOK
<1>1. RowInv'
  BY <1>0 DEF Cancels, RowInv, RunTypeOK
<1>2. TaskInv'
  BY <1>0 DEF Cancels, EasedTasks, TaskInv, Executing, RunTypeOK
<1>3. BindInv'
  BY <1>0 DEF Cancels, EasedInputs, BindInv, RunTypeOK, QueueTypeOK
<1>4. ActiveInv'
  BY <1>0 DEF Cancels, ActiveInv, Active, ActiveStatuses, RunTypeOK
<1> QED BY <1>1, <1>2, <1>3, <1>4 DEF Inv

\* Taking a run over keeps Inv: the row was queued, so nobody executed it.
LEMMA BeginInv ==
    ASSUME TypeOK, Inv, NEW w \in Workers, NEW r \in Runs, BeginRun(w, r)
    PROVE  Inv'
<1> USE DEF inputVars
<1>0. RowInv /\ TaskInv /\ BindInv /\ ActiveInv /\ RunTypeOK /\ QueueTypeOK /\ ProcessTypeOK
  BY DEF Inv, TypeOK
<1>1. /\ status[r] = "queued"
      /\ status' = [status EXCEPT ![r] = "running"]
      /\ worker' = [worker EXCEPT ![r] = w]
      /\ task' = [task EXCEPT ![w][r] = "begun"]
      /\ UNCHANGED <<cancelRequested, acknowledged, proposed, inputStatus, inputRun, unbound>>
  BY <1>0 DEF BeginRun, TransitionRun, TerminalStatuses, RunTypeOK
<1>2. RowInv'
  BY <1>0, <1>1 DEF RowInv, RunTypeOK
<1>3. \A v \in Workers : ~Executing(v, r) /\ worker[r] = NoWorker /\ r \notin acknowledged
  BY <1>0, <1>1 DEF RowInv, TaskInv
<1>4. TaskInv'
  BY <1>0, <1>1, <1>3, NullAssumption DEF TaskInv, Executing, RunTypeOK, ProcessTypeOK
<1>5. BindInv'
  BY <1>0, <1>1 DEF BindInv, RunTypeOK, QueueTypeOK
<1>6. ActiveInv'
  BY <1>0, <1>1 DEF ActiveInv, Active, ActiveStatuses, RunTypeOK
<1> QED BY <1>2, <1>4, <1>5, <1>6 DEF Inv

\* The finalizer of task (w, r) ends the run: every cancel it acknowledges becomes
\* "canceled" (or the shutdown's "stale"), and no executor of the run is still at work.
Ends(w, r, to) ==
    /\ Active(r)
    /\ <<status[r], to>> \in AllowedTransitions
    /\ status' = [status EXCEPT ![r] = to]
    /\ UNCHANGED <<worker, cancelRequested, inputStatus, inputRun, unbound>>
    /\ \/ UNCHANGED acknowledged
       \/ acknowledged' = acknowledged \cup {r} /\ to \in {"canceled", "stale"}
    /\ \A v \in Workers : ~Executing(v, r)
    /\ task' = [task EXCEPT ![w][r] = "none"]
    /\ proposed' = [proposed EXCEPT ![w][r] = "none"]

\* What a finalizer commits: "canceled" for every cancel it acknowledges, and never
\* under an executor that is still at work.
LEMMA FinalizeEffect ==
    ASSUME TypeOK, Inv, NEW w \in Workers, NEW r \in Runs, Finalize(w, r)
    PROVE  \E to \in TerminalStatuses : Ends(w, r, to)
<1> DEFINE to == EffectiveTerminalStatus(status[r], ProposedStatus(proposed[w][r]),
                                         MayAcknowledge(w, r))
<1>0. RowInv /\ TaskInv /\ RunTypeOK /\ ProcessTypeOK
  BY DEF Inv, TypeOK
<1>1. /\ TransitionRun(r, to, w, MayAcknowledge(w, r))
      /\ r \in cancelRequested => MayAcknowledge(w, r)
      /\ task[w][r] = "fin"
      /\ Discard(w, r)
  BY DEF Finalize
<1>2. to \in TerminalStatuses
  BY <1>0, <1>1, EffectiveIsTerminal DEF TransitionRun, ProcessTypeOK
<1>3. Active(r) /\ <<status[r], to>> \in AllowedTransitions
  BY <1>1 DEF TransitionRun, AllowedTransitions, Active, ActiveStatuses
<1>4. r \in cancelRequested => to \in {"canceled", "stale"}
  BY <1>0, <1>1, <1>3 DEF RowInv, Active, ActiveStatuses, EffectiveTerminalStatus
<1>5. \A v \in Workers : ~Executing(v, r)
  <2> SUFFICES ASSUME NEW v \in Workers, Executing(v, r) PROVE FALSE
    OBVIOUS
  <2>1. v # w /\ worker[r] = v
    BY <1>0, <1>1 DEF TaskInv, Executing
  <2>2. ~MayAcknowledge(w, r) /\ proposed[w][r] = "prestart"
    BY <1>0, <1>1, <2>1, NullAssumption DEF TaskInv, MayAcknowledge
  <2>3. status[r] # "canceling"
    BY <1>0, <1>1, <2>2 DEF RowInv
  <2>4. to = "canceled"
    BY <2>2 DEF EffectiveTerminalStatus, ProposedStatus
  <2> QED BY <1>3, <2>3, <2>4 DEF AllowedTransitions
<1> HIDE DEF to
<1>6. UNCHANGED <<worker, cancelRequested>>
  BY <1>0, <1>1, <1>2 DEF TransitionRun, TerminalStatuses, RunTypeOK
<1>7. \/ UNCHANGED acknowledged
      \/ acknowledged' = acknowledged \cup {r} /\ to \in {"canceled", "stale"}
  BY <1>1, <1>4 DEF TransitionRun
<1> QED BY <1>1, <1>2, <1>3, <1>5, <1>6, <1>7 DEF TransitionRun, Discard, inputVars, Ends

\* The finalizer keeps Inv.
LEMMA FinalizeInv ==
    ASSUME TypeOK, Inv, NEW w \in Workers, NEW r \in Runs, Finalize(w, r)
    PROVE  Inv'
<1>0. RowInv /\ TaskInv /\ BindInv /\ ActiveInv /\ RunTypeOK /\ QueueTypeOK /\ ProcessTypeOK
  BY DEF Inv, TypeOK
<1>1. PICK to \in TerminalStatuses : Ends(w, r, to)
  BY FinalizeEffect
<1>2. to \notin ActiveStatuses \cup {"none"}
  BY DEF TerminalStatuses, ActiveStatuses
<1>3. RowInv'
  BY <1>0, <1>1, <1>2 DEF Ends, RowInv, RunTypeOK, Active, ActiveStatuses
<1>4. TaskInv'
  BY <1>0, <1>1 DEF Ends, TaskInv, Executing, RunTypeOK, ProcessTypeOK
<1>5. BindInv'
  BY <1>0, <1>1, <1>2 DEF Ends, BindInv, RunTypeOK, QueueTypeOK, Active, ActiveStatuses
<1>6. ActiveInv'
  BY <1>0, <1>1, <1>2 DEF Ends, ActiveInv, Active, RunTypeOK
<1> QED BY <1>3, <1>4, <1>5, <1>6 DEF Inv

\* The workerless recovery keeps Inv: a run without owner has no executor.
LEMMA WorkerlessInv ==
    ASSUME TypeOK, Inv, NEW w \in Workers, NEW r \in Runs, FinalizeWorkerless(w, r)
    PROVE  Inv'
<1>0. RowInv /\ TaskInv /\ BindInv /\ ActiveInv /\ RunTypeOK /\ QueueTypeOK /\ ProcessTypeOK
  BY DEF Inv, TypeOK
<1>1. /\ status[r] = "canceling"
      /\ worker[r] = NoWorker
      /\ status' = [status EXCEPT ![r] = "canceled"]
      /\ acknowledged' = acknowledged \cup {r}
      /\ UNCHANGED <<worker, cancelRequested, task, proposed, unbound>>
  BY <1>0 DEF FinalizeWorkerless, WorkerlessCancel, TransitionRun, TerminalStatuses, RowInv,
      RunTypeOK, taskVars
<1>2. /\ inputStatus' = [i \in Inputs |-> IF inputRun[i] = r THEN "canceled" ELSE inputStatus[i]]
      /\ inputRun' = [i \in Inputs |-> IF inputRun[i] = r THEN NoRun ELSE inputRun[i]]
  BY DEF FinalizeWorkerless
<1>3. RowInv'
  BY <1>0, <1>1 DEF RowInv, RunTypeOK
<1>4. \A v \in Workers : ~Executing(v, r)
  BY <1>0, <1>1, NullAssumption DEF TaskInv
<1>5. TaskInv'
  BY <1>0, <1>1, <1>4 DEF TaskInv, Executing, RunTypeOK
<1>6. BindInv'
  BY <1>0, <1>1, <1>2 DEF BindInv, RunTypeOK, QueueTypeOK
<1>7. ActiveInv'
  BY <1>0, <1>1 DEF ActiveInv, Active, ActiveStatuses, RunTypeOK
<1> QED BY <1>3, <1>5, <1>6, <1>7 DEF Inv

\* _fail_claimed_input keeps Inv: it ends only a run that was never started.
LEMMA FailClaimedInv ==
    ASSUME TypeOK, Inv, NEW w \in Workers, NEW r \in Runs, NEW i \in Inputs,
           FailClaimedInput(w, r, i)
    PROVE  Inv'
<1>0. RowInv /\ TaskInv /\ BindInv /\ ActiveInv /\ RunTypeOK /\ QueueTypeOK /\ ProcessTypeOK
  BY DEF Inv, TypeOK
<1>1. /\ status[r] = "queued" /\ inputRun[i] = r /\ inputStatus[i] = "claimed"
      /\ worker[r] = NoWorker
      /\ status' = [status EXCEPT ![r] = "failed"]
      /\ inputStatus' = [inputStatus EXCEPT ![i] = "failed"]
      /\ UNCHANGED <<worker, cancelRequested, acknowledged, task, proposed, inputRun, unbound>>
  BY <1>0 DEF FailClaimedInput, TransitionRun, RowInv, RunTypeOK, taskVars
<1>2. RowInv'
  BY <1>0, <1>1 DEF RowInv, RunTypeOK
<1>3. TaskInv'
  BY <1>0, <1>1 DEF TaskInv, Executing, RunTypeOK
<1>4. BindInv'
  BY <1>0, <1>1 DEF BindInv, RunTypeOK, QueueTypeOK
<1>5. ActiveInv'
  BY <1>0, <1>1 DEF ActiveInv, Active, ActiveStatuses, RunTypeOK
<1> QED BY <1>2, <1>3, <1>4, <1>5 DEF Inv

\* _fail_claimed_input of an input whose binding broke keeps Inv: no row changes.
LEMMA FailUnboundInv ==
    ASSUME TypeOK, Inv, NEW w \in Workers, NEW r \in Runs, NEW i \in Inputs,
           FailUnboundInput(w, r, i)
    PROVE  Inv'
<1>0. RowInv /\ TaskInv /\ BindInv /\ ActiveInv /\ QueueTypeOK
  BY DEF Inv, TypeOK
<1>1. /\ inputStatus' = [inputStatus EXCEPT ![i] = "failed"]
      /\ unbound' = unbound \cup {i}
      /\ inputStatus[i] = "claimed"
      /\ UNCHANGED <<status, worker, cancelRequested, acknowledged, task, proposed, inputRun>>
  BY DEF FailUnboundInput, runVars, taskVars
<1>2. RowInv' /\ TaskInv' /\ ActiveInv'
  BY <1>0, <1>1 DEF RowInv, TaskInv, Executing, ActiveInv, Active
<1>3. BindInv'
  BY <1>0, <1>1 DEF BindInv, QueueTypeOK
<1> QED BY <1>2, <1>3 DEF Inv

\* A write of "stale" only, to active rows or (ag-ui) to whatever row was read.
LEMMA StaleInv ==
    ASSUME TypeOK, Inv,
           \A r \in Runs : status'[r] = status[r] \/ status'[r] = "stale",
           UNCHANGED <<worker, cancelRequested, acknowledged, task, proposed, inputStatus, inputRun, unbound>>
    PROVE  Inv'
<1>0. RowInv /\ TaskInv /\ BindInv /\ ActiveInv /\ RunTypeOK /\ QueueTypeOK
  BY DEF Inv, TypeOK
<1>1. RowInv'
  BY <1>0 DEF RowInv
<1>2. TaskInv'
  BY <1>0 DEF TaskInv, Executing
<1>3. BindInv'
  <2>1. \A j \in Inputs : inputRun[j] # NoRun => inputRun[j] \in Runs
    BY <1>0 DEF QueueTypeOK
  <2>2. \A j \in Inputs : inputStatus[j] = "failed" => inputRun[j] # NoRun
    BY <1>0 DEF BindInv
  <2> QED BY <1>0, <2>1, <2>2 DEF BindInv
<1>4. ActiveInv'
  BY <1>0 DEF ActiveInv, Active, ActiveStatuses
<1> QED BY <1>1, <1>2, <1>3, <1>4 DEF Inv

\* The unlocked write of the ag-ui route keeps Inv, whatever row it hits.
LEMMA AgUiInv ==
    ASSUME TypeOK, Inv, NEW w \in Workers, AgUiWriteStale(w)
    PROVE  Inv'
<1>1. \A r \in Runs : status'[r] = status[r] \/ status'[r] = "stale"
  BY DEF AgUiWriteStale, TypeOK, RunTypeOK
<1>2. UNCHANGED <<worker, cancelRequested, acknowledged, task, proposed, inputStatus, inputRun, unbound>>
  BY DEF AgUiWriteStale, inputVars, taskVars
<1> QED BY <1>1, <1>2, StaleInv

\* Inv is inductive.
LEMMA InvStep == TypeOK /\ Inv /\ [Next]_vars => Inv'
<1> SUFFICES ASSUME TypeOK, Inv, [Next]_vars PROVE Inv'
  OBVIOUS
<1>1. StepKind
  BY StepKinds DEF Inv
<1>2. CASE GoesStale
  BY <1>2, StaleInv DEF GoesStale
<1> QED BY <1>1, <1>2, QuietInv, CreatesInv, CancelsInv, BeginInv, FinalizeInv, WorkerlessInv,
           FailClaimedInv, FailUnboundInv, AgUiInv DEF StepKind

\* The facts of rows, tasks and inputs that the safety theorems rest on always hold.
THEOREM InvHolds == Spec => [](TypeOK /\ Inv)
BY TypeInit, TypeStep, InvInit, InvStep, PTL DEF Spec

-----------------------------------------------------------------------------
(* Safety of any deployment *)

\* create_run_from_locked_proof under the conversation lock never inserts a second
\* active run, however many processes create, claim, resume, cancel and sweep.
THEOREM OneActive == Spec => []OneActiveRun
<1>1. Inv => OneActiveRun
  BY DEF Inv, ActiveInv, Active, ActiveStatuses, OneActiveRun, RunTable!OneActiveRun,
      RunTable!ActiveStatuses
<1> QED BY <1>1, InvHolds, PTL

\* cancellation_acknowledged_at is set by no one while an executor of the run is at work.
THEOREM AckedHasStopped == Spec => []AckMeansStopped
<1>1. Inv => AckMeansStopped
  BY DEF Inv, TaskInv, AckMeansStopped
<1> QED BY <1>1, InvHolds, PTL

\* An acknowledged cancel is reported as one, whatever the body proposed.
THEOREM AckedCanceled == Spec => []AckedRunIsCanceled
<1>1. Inv => AckedRunIsCanceled
  BY DEF Inv, RowInv, AckedRunIsCanceled
<1> QED BY <1>1, InvHolds, PTL

\* A run never executes twice at a time, and two runs execute side by side only when
\* one of them was written off as stale.
THEOREM NoOverlap == Spec => []OverlapOnlyWhenStale
<1>1. Inv => OverlapOnlyWhenStale
  <2> SUFFICES ASSUME Inv, NEW w \in Workers, NEW v \in Workers, NEW r \in Runs, NEW q \in Runs,
                      Executing(w, r), Executing(v, q)
               PROVE  \/ w = v /\ r = q
                      \/ r # q /\ "stale" \in {status[r], status[q]}
    BY DEF OverlapOnlyWhenStale
  <2>1. /\ worker[r] = w /\ status[r] \in {"running", "canceling", "stale"}
        /\ worker[q] = v /\ status[q] \in {"running", "canceling", "stale"}
    BY DEF Inv, TaskInv
  <2>2. Active(r) /\ Active(q) => r = q
    BY DEF Inv, ActiveInv
  <2> QED BY <2>1, <2>2 DEF Active, ActiveStatuses
<1> QED BY <1>1, InvHolds, PTL

\* The next input is handed over only when no executor of a canceled run is at work.
THEOREM SteeringWaits == Spec => SteerWaitsForStop
<1> DEFINE Waits == (\E i \in Inputs : inputStatus[i] = "pending" /\ inputStatus'[i] = "claimed")
                        => \A r \in Runs, w \in Workers : r \in cancelRequested => ~Executing(w, r)
<1>1. TypeOK /\ Inv /\ [Next]_vars => [Waits]_vars
  <2> SUFFICES ASSUME TypeOK, Inv, [Next]_vars,
                      NEW i \in Inputs, inputStatus[i] = "pending", inputStatus'[i] = "claimed",
                      NEW r \in Runs, NEW w \in Workers, r \in cancelRequested
               PROVE  ~Executing(w, r)
    OBVIOUS
  <2>0. TaskInv /\ BindInv /\ QueueTypeOK
    BY DEF Inv, TypeOK
  <2>1. ~UnacknowledgedCancel
    <3>1. CASE EasedInputs
      BY <3>1 DEF EasedInputs
    <3>2. ASSUME NEW q \in Runs, Creates(q) PROVE ~UnacknowledgedCancel
      BY <2>0, <3>2 DEF Creates, QueueTypeOK
    <3>3. ASSUME NEW v \in Workers, NEW q \in Runs, BeginRun(v, q) \/ Finalize(v, q)
          PROVE  FALSE
      BY <3>3 DEF BeginRun, Finalize, Discard, inputVars
    <3>4. ASSUME NEW v \in Workers, NEW q \in Runs, FinalizeWorkerless(v, q) PROVE FALSE
      BY <3>4 DEF FinalizeWorkerless
    <3>5. ASSUME NEW v \in Workers, NEW q \in Runs, NEW j \in Inputs,
                 FailClaimedInput(v, q, j) \/ FailUnboundInput(v, q, j)
          PROVE  FALSE
      BY <2>0, <3>5 DEF FailClaimedInput, FailUnboundInput, QueueTypeOK
    <3>6. ASSUME NEW v \in Workers, AgUiWriteStale(v) PROVE FALSE
      BY <3>6 DEF AgUiWriteStale, inputVars
    <3>7. ~GoesStale
      BY DEF GoesStale
    <3> QED BY <3>1, <3>2, <3>3, <3>4, <3>5, <3>6, <3>7, StepKinds
        DEF StepKind, Quiet, Cancels, Inv
  <2> QED BY <2>0, <2>1 DEF UnacknowledgedCancel, TaskInv
<1> QED BY <1>1, InvHolds, PTL DEF Spec, SteerWaitsForStop

\* After a process took a run over no other process does, and its input stays as it is.
THEOREM RunStartsOnce == Spec => StartedOnce
<1> DEFINE Once == \A r \in Runs : worker[r] # NoWorker =>
                       /\ worker'[r] = worker[r]
                       /\ \A i \in Inputs : inputRun[i] = r =>
                             inputRun'[i] = r /\ inputStatus'[i] = inputStatus[i]
<1>1. TypeOK /\ Inv /\ [Next]_vars => [Once]_vars
  <2> SUFFICES ASSUME TypeOK, Inv, [Next]_vars, NEW r \in Runs, worker[r] # NoWorker
               PROVE  /\ worker'[r] = worker[r]
                      /\ \A i \in Inputs : inputRun[i] = r =>
                            inputRun'[i] = r /\ inputStatus'[i] = inputStatus[i]
    OBVIOUS
  <2> DEFINE Kept == /\ worker'[r] = worker[r]
                     /\ \A i \in Inputs : inputRun[i] = r =>
                           inputRun'[i] = r /\ inputStatus'[i] = inputStatus[i]
  <2>0. RowInv /\ TaskInv /\ BindInv /\ RunTypeOK /\ QueueTypeOK
    BY DEF Inv, TypeOK
  <2>1. status[r] \notin {"none", "queued"}
    BY <2>0 DEF RowInv
  <2>2. \A i \in Inputs : inputRun[i] = r => inputStatus[i] \in {"claimed", "failed"}
    BY <2>0, RunsAssumption DEF BindInv, QueueTypeOK
  <2> QED
    <3>1. CASE Quiet \/ \E q \in Runs : Cancels(q)
      BY <2>2, <3>1 DEF Quiet, SameRows, Cancels, EasedInputs
    <3>2. ASSUME NEW q \in Runs, Creates(q) PROVE Kept
      BY <2>0, <2>1, <2>2, <3>2 DEF Creates, QueueTypeOK
    <3>3. ASSUME NEW v \in Workers, NEW q \in Runs, BeginRun(v, q) PROVE Kept
      BY <2>0, <2>1, <2>2, <3>3 DEF BeginRun, TransitionRun, RunTypeOK, inputVars
    <3>4. ASSUME NEW v \in Workers, NEW q \in Runs, Finalize(v, q) PROVE Kept
      BY <2>2, <3>4, FinalizeEffect DEF Ends
    <3>5. ASSUME NEW v \in Workers, NEW q \in Runs, FinalizeWorkerless(v, q) PROVE Kept
      BY <2>0, <2>2, <3>5 DEF FinalizeWorkerless, WorkerlessCancel, TransitionRun, RunTypeOK
    <3>6. ASSUME NEW v \in Workers, NEW q \in Runs, NEW j \in Inputs,
                 FailClaimedInput(v, q, j) \/ FailUnboundInput(v, q, j)
          PROVE  Kept
      BY <2>0, <2>1, <2>2, <3>6 DEF FailClaimedInput, FailUnboundInput, TransitionRun, RunTypeOK,
          QueueTypeOK, runVars
    <3>7. ASSUME NEW v \in Workers, AgUiWriteStale(v) PROVE Kept
      BY <2>2, <3>7 DEF AgUiWriteStale, inputVars
    <3>8. CASE GoesStale
      BY <2>2, <3>8 DEF GoesStale
    <3> QED BY <3>1, <3>2, <3>3, <3>4, <3>5, <3>6, <3>7, <3>8, <2>0, StepKinds DEF StepKind
<1> QED BY <1>1, InvHolds, PTL DEF Spec, StartedOnce

-----------------------------------------------------------------------------
(* Safety where nobody attaches through the ag-ui route, the one writer of a run that
   does not lock its row *)

NoReader == \A w \in Workers : agUiRead[w] = NoRun

\* Without ag-ui attaches nobody holds an unlocked read of a run.
LEMMA NoReaderHolds == ASSUME ~AgUiAttach PROVE Spec => []NoReader
<1>1. Init => NoReader
  BY DEF Init, NoReader
<1>2. TypeOK /\ NoReader /\ [Next]_vars => NoReader'
  <2> SUFFICES ASSUME TypeOK, NoReader, [Next]_vars PROVE NoReader'
    OBVIOUS
  <2>1. CASE UNCHANGED agUiRead
    BY <2>1 DEF NoReader
  <2>2. ASSUME NEW w \in Workers, ProcessDown(w) PROVE NoReader'
    BY <2>2 DEF ProcessDown, NoReader, TypeOK, ProcessTypeOK
  <2>3. ASSUME NEW w \in Workers, AgUiWriteStale(w) PROVE FALSE
    BY <2>3 DEF AgUiWriteStale, NoReader
  <2>4. ASSUME NEW w \in Workers, NEW r \in Runs, AgUiReadRun(w, r) PROVE FALSE
    BY <2>4 DEF AgUiReadRun
  <2>5. ASSUME NEW w \in Workers, Handler(w) PROVE UNCHANGED agUiRead
    BY <2>5 DEF Handler, StartDirect, EnqueueInput, DeleteInput, PromoteInput, CancelRun,
        StageCancelIntent, EmergencyStop, StartFork, ResumeInterrupted, ReorderInputs, ResumeQueue, flightVars
  <2>6. ASSUME NEW w \in Workers, QueueWorker(w) PROVE UNCHANGED agUiRead
    BY <2>6 DEF QueueWorker, ClaimNextInput, PauseBlockedQueue, LaunchStart, LaunchSkip,
        FailClaimedInput, FailUnboundInput, FinalizeWorkerless, flightVars
  <2>7. ASSUME NEW w \in Workers, NEW r \in Runs, RunTask(w, r) PROVE UNCHANGED agUiRead
    BY <2>7 DEF RunTask, PrepAborts, BeginRun, BeginRevoked, BeginCanceled, BeginNotStartable,
        EnterExecutor, BeginTorn, ExecutorEnds, ExecutorRaises, ExecutorCanceled, EndBody,
        HeartbeatRun, PollCancels, HeartbeatEnds, StopHeartbeat, Finalize, FinalizeRefused, DropTask,
        Discard, flightVars
  <2>8. ASSUME NEW w \in Workers, SweepStale(w) \/ StartProcess(w) \/ Shutdown(w)
                                  \/ \E r \in Runs : AttachStale(w, r)
        PROVE  UNCHANGED agUiRead
    BY <2>8 DEF SweepStale, StartProcess, Shutdown, AttachStale, flightVars
  <2>9. ASSUME UNCHANGED vars \/ \E r \in Runs : HeartbeatAges(r) PROVE UNCHANGED agUiRead
    BY <2>9 DEF vars, HeartbeatAges, flightVars
  <2> QED BY <2>1, <2>2, <2>3, <2>4, <2>5, <2>6, <2>7, <2>8, <2>9 DEF Next, Staleness
<1> QED BY <1>1, <1>2, TypeCorrect, PTL DEF Spec

\* Every step is a step of the run table or leaves it alone.
LEMMA LifecycleStep ==
    ASSUME TypeOK, TypeOK', Inv, NoReader, [Next]_vars
    PROVE  [RunTable!LifecycleNext]_(RunTable!lifecycleVars)
<1>0. RunTypeOK /\ RunTypeOK' /\ StepKind
  BY StepKinds DEF Inv, TypeOK
<1>1. ASSUME \A r \in Runs : \/ status'[r] = status[r]
                             \/ <<status[r], status'[r]>> \in AllowedTransitions
      PROVE  RunTable!LifecycleNext
  <2>1. RunTable!AllowedTransitions = AllowedTransitions
    BY DEF AllowedTransitions, RunTable!AllowedTransitions
  <2>2. RunTable!RunStatuses = RunStatuses
    BY DEF RunStatuses, RunTable!RunStatuses, ActiveStatuses, RunTable!ActiveStatuses,
        TerminalStatuses, RunTable!TerminalStatuses
  <2> QED BY <1>0, <1>1, <2>1, <2>2 DEF RunTypeOK, RunTable!LifecycleNext, RunTable!Move
<1>2. ASSUME NEW r \in Runs, NEW to, <<status[r], to>> \in AllowedTransitions,
             status' = [status EXCEPT ![r] = to]
      PROVE  RunTable!LifecycleNext
  BY <1>0, <1>1, <1>2 DEF RunTypeOK
<1>3. CASE Quiet
  BY <1>3 DEF Quiet, SameRows, RunTable!lifecycleVars
<1>4. ASSUME NEW r \in Runs, Creates(r) PROVE RunTable!LifecycleNext
  BY <1>4 DEF Creates, NoActiveRun, Active, ActiveStatuses, RunTable!LifecycleNext,
      RunTable!Create, RunTable!ActiveStatuses
<1>5. ASSUME NEW r \in Runs, Cancels(r) PROVE RunTable!LifecycleNext
  <2>1. <<status[r], "canceling">> \in AllowedTransitions
    BY <1>5 DEF Cancels, AllowedTransitions
  <2> QED BY <1>2, <1>5, <2>1 DEF Cancels
<1>6. ASSUME NEW w \in Workers, NEW r \in Runs, BeginRun(w, r) \/ FinalizeWorkerless(w, r)
      PROVE  RunTable!LifecycleNext
  BY <1>2, <1>6 DEF BeginRun, FinalizeWorkerless, TransitionRun
<1>7. ASSUME NEW w \in Workers, NEW r \in Runs, Finalize(w, r) PROVE RunTable!LifecycleNext
  BY <1>2, <1>7, FinalizeEffect DEF Ends
<1>8. ASSUME NEW w \in Workers, NEW r \in Runs, NEW i \in Inputs, FailClaimedInput(w, r, i)
      PROVE  RunTable!LifecycleNext
  BY <1>2, <1>8 DEF FailClaimedInput, TransitionRun
<1>9. CASE GoesStale
  <2>1. \A r \in Runs : Active(r) => <<status[r], "stale">> \in AllowedTransitions
    BY DEF Active, ActiveStatuses, AllowedTransitions
  <2> QED BY <1>1, <1>9, <2>1 DEF GoesStale
<1>10. ASSUME NEW w \in Workers, AgUiWriteStale(w) PROVE FALSE
  BY <1>10 DEF AgUiWriteStale, NoReader
<1>11. ASSUME NEW w \in Workers, NEW r \in Runs, NEW i \in Inputs, FailUnboundInput(w, r, i)
       PROVE  status' = status
  BY <1>11 DEF FailUnboundInput, runVars
<1> QED BY <1>0, <1>3, <1>4, <1>5, <1>6, <1>7, <1>8, <1>9, <1>10, <1>11
    DEF StepKind, RunTable!lifecycleVars

\* The status column of any number of processes implements RunLifecycle: runs are
\* created one at a time, move along ALLOWED_TRANSITIONS only, and stay ended.
THEOREM Refinement == ASSUME ~AgUiAttach PROVE Spec => ImplementsLifecycle
<1>1. Init => RunTable!LifecycleInit
  BY DEF Init, RunTable!LifecycleInit
<1>2. TypeOK /\ TypeOK' /\ Inv /\ NoReader /\ [Next]_vars
         => [RunTable!LifecycleNext]_(RunTable!lifecycleVars)
  BY LifecycleStep
<1> QED BY <1>1, <1>2, InvHolds, NoReaderHolds, PTL
    DEF Spec, ImplementsLifecycle, RunTable!Lifecycle

\* An ended run keeps its status.
LEMMA EndedStep ==
    ASSUME TypeOK, TypeOK', Inv, NoReader, [Next]_vars,
           NEW r \in Runs, status[r] \in TerminalStatuses
    PROVE  status'[r] = status[r]
<1>1. [RunTable!LifecycleNext]_(RunTable!lifecycleVars)
  BY LifecycleStep
<1> QED BY <1>1 DEF RunTable!LifecycleNext, RunTable!lifecycleVars, RunTable!Move,
        RunTable!Create, RunTable!AllowedTransitions, TerminalStatuses, TypeOK, RunTypeOK

\* Without the unlocked writer a terminal status is never overwritten.
THEOREM EndedForGood == ASSUME ~AgUiAttach PROVE Spec => TerminalIsFinal
<1>1. TypeOK /\ TypeOK' /\ Inv /\ NoReader /\ [Next]_vars
         => [\A r \in Runs : status[r] \in TerminalStatuses => status'[r] = status[r]]_vars
  BY EndedStep
<1> QED BY <1>1, InvHolds, NoReaderHolds, PTL DEF Spec, TerminalIsFinal

\* A failed input's run is failed, unless the binding broke.
FailedInv ==
    \A i \in Inputs : inputStatus[i] = "failed" /\ i \notin unbound => status[inputRun[i]] = "failed"

\* No step disturbs the fate of an input.
LEMMA FailedStep ==
    ASSUME TypeOK, TypeOK', Inv, NoReader, FailedInv, [Next]_vars
    PROVE  FailedInv'
<1> SUFFICES ASSUME NEW i \in Inputs, inputStatus'[i] = "failed", i \notin unbound'
             PROVE  status'[inputRun'[i]] = "failed"
  BY DEF FailedInv
<1>0. BindInv /\ RowInv /\ RunTypeOK /\ QueueTypeOK /\ StepKind
  BY StepKinds DEF Inv, TypeOK
<1>1. ASSUME inputStatus[i] = "failed", inputRun'[i] = inputRun[i], unbound \subseteq unbound'
      PROVE  status'[inputRun'[i]] = "failed"
  <2>1. inputRun[i] \in Runs /\ status[inputRun[i]] = "failed"
    BY <1>0, <1>1 DEF BindInv, FailedInv, QueueTypeOK
  <2> QED BY <1>1, <2>1, EndedStep DEF TerminalStatuses
<1>2. ASSUME EasedInputs PROVE status'[inputRun'[i]] = "failed"
  BY <1>1, <1>2 DEF EasedInputs
<1>3. ASSUME NEW r \in Runs, Creates(r) PROVE status'[inputRun'[i]] = "failed"
  BY <1>0, <1>1, <1>3 DEF Creates, QueueTypeOK
<1>4. ASSUME NEW w \in Workers, NEW r \in Runs, BeginRun(w, r) \/ Finalize(w, r)
      PROVE  status'[inputRun'[i]] = "failed"
  <2>1. UNCHANGED <<inputStatus, inputRun, unbound>>
    BY <1>4 DEF BeginRun, Finalize, Discard, inputVars
  <2> QED BY <1>1, <2>1
<1>5. ASSUME NEW w \in Workers, NEW r \in Runs, FinalizeWorkerless(w, r)
      PROVE  status'[inputRun'[i]] = "failed"
  BY <1>1, <1>5 DEF FinalizeWorkerless
<1>6. ASSUME NEW w \in Workers, NEW r \in Runs, NEW j \in Inputs, FailClaimedInput(w, r, j)
      PROVE  status'[inputRun'[i]] = "failed"
  <2>1. CASE i = j
    BY <1>0, <1>6, <2>1 DEF FailClaimedInput, TransitionRun, RunTypeOK
  <2>2. CASE i # j
    BY <1>0, <1>1, <1>6, <2>2 DEF FailClaimedInput, QueueTypeOK
  <2> QED BY <2>1, <2>2
<1>7. CASE GoesStale
  BY <1>1, <1>7 DEF GoesStale
<1>8. ASSUME NEW w \in Workers, AgUiWriteStale(w) PROVE FALSE
  BY <1>8 DEF AgUiWriteStale, NoReader
<1>9. ASSUME NEW w \in Workers, NEW r \in Runs, NEW j \in Inputs, FailUnboundInput(w, r, j)
      PROVE  status'[inputRun'[i]] = "failed"
  BY <1>0, <1>1, <1>9 DEF FailUnboundInput, QueueTypeOK
<1> QED BY <1>0, <1>2, <1>3, <1>4, <1>5, <1>6, <1>7, <1>8, <1>9 DEF StepKind, Quiet, Cancels

\* A retracted input has no run, a failed one's run failed before anybody took it over
\* (unless its binding broke), and no run serves two inputs.
THEOREM InputsKeepTheirFate == ASSUME ~AgUiAttach PROVE Spec => []InputFate
<1>1. Init => FailedInv
  BY DEF Init, FailedInv
<1>2. TypeOK /\ TypeOK' /\ Inv /\ NoReader /\ FailedInv /\ [Next]_vars => FailedInv'
  BY FailedStep
<1>3. Inv /\ FailedInv => InputFate
  BY DEF Inv, BindInv, FailedInv, InputFate
<1> QED BY <1>1, <1>2, <1>3, InvHolds, NoReaderHolds, PTL DEF Spec

\* No step makes a published terminal event disagree with its row.
LEMMA PublishedStep ==
    ASSUME TypeOK, TypeOK', Inv, NoReader, PublishedMatchesRow, [Next]_vars
    PROVE  PublishedMatchesRow'
<1>1. ASSUME UNCHANGED published PROVE PublishedMatchesRow'
  <2> SUFFICES ASSUME NEW r \in Runs, published[r] # "none" PROVE status'[r] = published[r]
    BY <1>1 DEF PublishedMatchesRow
  <2>1. published[r] \in TerminalStatuses /\ status[r] = published[r]
    BY DEF PublishedMatchesRow, TypeOK, ProcessTypeOK
  <2> QED BY <2>1, EndedStep
<1>2. ASSUME NEW w \in Workers, NEW r \in Runs, Finalize(w, r) PROVE PublishedMatchesRow'
  <2> DEFINE to == EffectiveTerminalStatus(status[r], ProposedStatus(proposed[w][r]),
                                           MayAcknowledge(w, r))
  <2>1. status' = [status EXCEPT ![r] = to] /\ <<status[r], to>> \in AllowedTransitions
        /\ PublishTerminal(w, r, to)
    BY <1>2 DEF Finalize, TransitionRun
  <2>2. published[r] = "none"
    BY <2>1 DEF PublishedMatchesRow, TypeOK, ProcessTypeOK, AllowedTransitions, TerminalStatuses
  <2> HIDE DEF to
  <2> QED BY <2>1, <2>2 DEF PublishTerminal, PublishedMatchesRow, TypeOK, RunTypeOK, ProcessTypeOK
<1>3. ASSUME NEW w \in Workers, Handler(w) PROVE UNCHANGED published
  BY <1>3 DEF Handler, StartDirect, EnqueueInput, DeleteInput, PromoteInput, CancelRun,
      StageCancelIntent, EmergencyStop, StartFork, ResumeInterrupted, ReorderInputs, ResumeQueue
<1>4. ASSUME NEW w \in Workers, QueueWorker(w) PROVE UNCHANGED published
  BY <1>4 DEF QueueWorker, ClaimNextInput, PauseBlockedQueue, LaunchStart, LaunchSkip,
      FailClaimedInput, FailUnboundInput, FinalizeWorkerless
<1>5. ASSUME NEW w \in Workers, NEW r \in Runs, RunTask(w, r)
      PROVE  UNCHANGED published \/ Finalize(w, r)
  BY <1>5 DEF RunTask, PrepAborts, BeginRun, BeginRevoked, BeginCanceled, BeginNotStartable,
      EnterExecutor, BeginTorn, ExecutorEnds, ExecutorRaises, ExecutorCanceled, EndBody,
      HeartbeatRun, PollCancels, HeartbeatEnds, StopHeartbeat, FinalizeRefused, DropTask
<1>6. ASSUME NEW w \in Workers,
             Staleness(w) \/ StartProcess(w) \/ Shutdown(w) \/ ProcessDown(w)
      PROVE  UNCHANGED published
  BY <1>6 DEF Staleness, SweepStale, AgUiWriteStale, AttachStale, AgUiReadRun, StartProcess,
      Shutdown, ProcessDown
<1>7. ASSUME UNCHANGED vars \/ \E r \in Runs : HeartbeatAges(r) PROVE UNCHANGED published
  BY <1>7 DEF vars, HeartbeatAges
<1> QED BY <1>1, <1>2, <1>3, <1>4, <1>5, <1>6, <1>7 DEF Next

\* The held-back terminal event says what the row says, now and later.
THEOREM EventsMatchRows == ASSUME ~AgUiAttach PROVE Spec => []PublishedMatchesRow
<1>1. Init => PublishedMatchesRow
  BY DEF Init, PublishedMatchesRow
<1>2. TypeOK /\ TypeOK' /\ Inv /\ NoReader /\ PublishedMatchesRow /\ [Next]_vars
         => PublishedMatchesRow'
  BY PublishedStep
<1> QED BY <1>1, <1>2, InvHolds, NoReaderHolds, PTL DEF Spec

=============================================================================
