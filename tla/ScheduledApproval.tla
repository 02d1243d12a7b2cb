------------------------- MODULE ScheduledApproval -------------------------
(***************************************************************************)
(* A schedule whose runs wait for the approval inbox: the firing           *)
(* (agent_runtime/trigger_execution_*.py), the owned run and its poller    *)
(* (services/agent_execution_*.py), the requests and their answers         *)
(* (approvals/*.py, routers/conversation_protocol_fork.py), the expiry     *)
(* sweep and the emergency stop.                                           *)
(*                                                                         *)
(* One trigger that keeps its conversation (schedule_thread).  A firing    *)
(* has an envelope (agent_trigger_runs) and a first run; an answer to an   *)
(* approval creates a resumed run of the paused one.  A run pauses on one  *)
(* interrupt, which has the number of the run.  A transaction is one step; *)
(* what a handler does between two transactions is open to the others.     *)
(***************************************************************************)
EXTENDS Naturals, FiniteSets

CONSTANTS
    MaxFirings,     \* bound: firings of the trigger
    MaxRuns,        \* bound: runs of the conversation
    MaxFaults,      \* bound: emergency stops, tasks lost or shut down with their process, failed writes
    Scopes          \* what a behaviour has of these, and the channels that answer in it

ASSUME ApprovalBounds ==
    MaxFirings \in Nat \ {0} /\ MaxRuns \in Nat \ {0} /\ MaxFaults \in Nat

Firings == 1 .. MaxFirings
Runs == 1 .. MaxRuns
Channels == {"chat", "inbox", "expiry"}

ASSUME ScopeAssumption ==
    Scopes \subseteq [firings : 1 .. MaxFirings, runs : 1 .. MaxRuns, faults : 0 .. MaxFaults,
                      channels : SUBSET Channels]

ActiveStatuses == {"queued", "running", "canceling"}
RunStatuses == ActiveStatuses \cup {"interrupted", "completed", "failed", "canceled", "stale"}
InFlight == {"queued", "running", "canceling", "waiting"}
\* A failure that carries the message of an exception the firing caught is told apart: "error".
Envelopes == InFlight \cup {"success", "failed", "error", "canceled", "skipped"}
\* chat and inbox answers are not told apart by what they decide
RequestStatuses == {"pending", "decided", "expired", "canceled"}
Deliveries == {"waiting", "success", "error"}
Tasks == {"none", "accepted", "running", "record", "settle"} \cup Deliveries
Steps == {"idle", "check", "respond", "unresumed", "abandon"}

VARIABLES
    envelope,   \* agent_trigger_runs.status of a firing, "none" before it
    run,        \* conversation_runs: status, the run it resumes (0), its envelope (0)
    request,    \* approval_requests by run: status, interrupt, envelope (0), resumed run (0), due
    paused,     \* the interrupt the thread's checkpoint holds, 0 for none
    task,       \* what the task of a run does next
    session,    \* a decision under way: its next step, the request and the interrupt it answers
    stopped,    \* whether an emergency stop of the agent is active
    retired,    \* the requests a stop canceled and has still to abandon
    faults,     \* how many of them there were
    scope       \* the scope of this behaviour

vars == <<envelope, run, request, paused, task, session, stopped, retired, faults, scope>>

\* The columns of the three tables have values the code writes.
TypeOK ==
    /\ envelope \in [Firings -> Envelopes \cup {"none"}]
    /\ run \in [Runs -> [status : RunStatuses \cup {"none"}, parent : Runs \cup {0},
                         envelope : Firings \cup {0}]]
    /\ request \in [Runs -> [status : RequestStatuses \cup {"none"}, interrupt : Runs \cup {0},
                             envelope : Firings \cup {0}, resumed : Runs \cup {0}, due : BOOLEAN]]
    /\ paused \in Runs \cup {0}
    /\ task \in [Runs -> Tasks]
    /\ session \in [Channels -> [step : Steps, request : Runs \cup {0}, interrupt : Runs \cup {0}]]
    /\ stopped \in BOOLEAN /\ retired \subseteq Runs
    /\ faults \in 0 .. MaxFaults /\ scope \in Scopes

Idle == [step |-> "idle", request |-> 0, interrupt |-> 0]

Init ==
    /\ envelope = [f \in Firings |-> "none"]
    /\ run = [r \in Runs |-> [status |-> "none", parent |-> 0, envelope |-> 0]]
    /\ request = [r \in Runs |-> [status |-> "none", interrupt |-> 0, envelope |-> 0,
                                  resumed |-> 0, due |-> FALSE]]
    /\ paused = 0
    /\ task = [r \in Runs |-> "none"]
    /\ session = [c \in Channels |-> Idle]
    /\ stopped = FALSE /\ retired = {}
    /\ faults = 0 /\ scope \in Scopes

-----------------------------------------------------------------------------
(* Runs and the envelopes they project                                     *)

Created == {r \in Runs : run[r].status # "none"}

\* The row the next run gets.
NewRun == CHOOSE r \in Runs \ Created : \A s \in Runs \ Created : r <= s

\* The bound on runs leaves one.
Room == \E r \in Runs \ Created : r <= scope.runs

NoActiveRun == \A r \in Runs : run[r].status \notin ActiveStatuses

\* Mutant of LatestInterrupted: a run that has been resumed is offered again.
LatestInterruptedAny ==
    LET candidates == {r \in Runs : run[r].status = "interrupted"}
    IN  IF candidates = {} THEN 0 ELSE CHOOSE r \in candidates : \A s \in candidates : s <= r

\* The latest interrupted run nobody has resumed, 0 for none.
LatestInterrupted ==
    LET candidates == {r \in Runs : /\ run[r].status = "interrupted"
                                    /\ \A s \in Runs : run[s].parent # r}
    IN  IF candidates = {} THEN 0 ELSE CHOOSE r \in candidates : \A s \in candidates : s <= r

\* Mutant of TriggerStatusForRun: the run's own status is written to the envelope.
TriggerStatusRaw(status) == status

TriggerStatusForRun(status) ==
    CASE status \in {"queued", "running", "canceling", "canceled"} -> status
      [] status = "completed" -> "success"
      [] status = "interrupted" -> "waiting"
      [] OTHER -> "failed"

\* The transition of run r, and the envelope it owns with it.
Transition(r, status) ==
    /\ run' = [run EXCEPT ![r].status = status]
    /\ envelope' = [f \in Firings |-> IF f = run[r].envelope THEN TriggerStatusForRun(status)
                                                             ELSE envelope[f]]

\* The terminal state of the owner: a canceling run ends as canceled.
Terminal(r, outcome) == IF run[r].status = "canceling" THEN "canceled" ELSE outcome

-----------------------------------------------------------------------------
(* The firing                                                              *)

NextFiring(f) ==
    /\ f <= scope.firings /\ envelope[f] = "none"
    /\ \A g \in Firings : g < f => envelope[g] # "none"

\* claim_trigger_run up to the commit of the acceptance, under the lock of the trigger.
Fire(f) ==
    /\ NextFiring(f)
    /\ \A g \in Firings : envelope[g] \notin InFlight
    /\ \/ /\ stopped
          /\ envelope' = [envelope EXCEPT ![f] = "skipped"]
          /\ UNCHANGED <<run, task>>
       \/ /\ ~stopped /\ NoActiveRun /\ Room
          /\ run' = [run EXCEPT ![NewRun] = [status |-> "queued", parent |-> 0, envelope |-> f]]
          /\ envelope' = [envelope EXCEPT ![f] = TriggerStatusForRun("queued")]
          /\ task' = [task EXCEPT ![NewRun] = "accepted"]
    /\ UNCHANGED <<request, paused, session, stopped, retired, faults, scope>>

Resumed(r) == run[r].parent # 0

\* The owner claims the run.  A new message drops the interrupt the thread was paused on.
Start(r) ==
    /\ task[r] = "accepted" /\ run[r].status = "queued"
    /\ Transition(r, "running")
    /\ task' = [task EXCEPT ![r] = "running"]
    /\ paused' = IF Resumed(r) THEN paused ELSE 0
    /\ UNCHANGED <<request, session, stopped, retired, faults, scope>>

\* A run canceled before its start: the owner raises, a resumed run settles.
StartCanceled(r) ==
    /\ task[r] = "accepted" /\ run[r].status = "canceling"
    /\ Transition(r, "canceled")
    /\ task' = [task EXCEPT ![r] = IF Resumed(r) THEN "settle" ELSE "error"]
    /\ UNCHANGED <<request, paused, session, stopped, retired, faults, scope>>

\* The resumed graph goes past the interrupt it was given the answer of.
Consume(r) ==
    /\ task[r] = "running" /\ Resumed(r) /\ paused = run[r].parent
    /\ paused' = 0
    /\ UNCHANGED <<envelope, run, request, task, session, stopped, retired, faults, scope>>

\* The checkpoint a body leaves: the graph of a latest run that is no longer "running" may have
\* stopped on an approval, which pause does not record.
Left(r) == {paused} \cup {i \in {r} : run[r].status # "running" /\ \A s \in Created : s <= r}

\* The graph ends or raises; the firing delivers, a resumed run settles.
EndRun(r) ==
    /\ task[r] = "running" /\ run[r].status \in {"running", "canceling"}
    /\ \/ /\ paused # run[r].parent \/ paused = 0
          /\ Transition(r, Terminal(r, "completed"))
          /\ paused' \in Left(r)
          /\ task' = [task EXCEPT ![r] = IF Resumed(r) THEN "settle" ELSE "success"]
       \/ /\ Transition(r, Terminal(r, "failed"))
          /\ task' = [task EXCEPT ![r] = IF Resumed(r) THEN "settle" ELSE "error"]
          /\ UNCHANGED paused
    /\ UNCHANGED <<request, session, stopped, retired, faults, scope>>

\* The row of a first run was swept while it was alive: nothing is written to it.  The start is
\* refused, the body ends or raises, or the poll sees the row and cancels it.
EndStale(r) ==
    /\ run[r].status = "stale" /\ ~Resumed(r)
    /\ \/ /\ task[r] = "accepted"
          /\ task' = [task EXCEPT ![r] = "error"]
          /\ UNCHANGED paused
       \/ /\ task[r] = "running"
          /\ \E next \in {"success", "error", "none"} : task' = [task EXCEPT ![r] = next]
          /\ paused' \in Left(r)
    /\ UNCHANGED <<envelope, run, request, session, stopped, retired, faults, scope>>

\* The task is canceled by the poll that has seen canceling, by a shutdown of its process or by
\* a poll that raised.  Only the last delivers something for the firing.
CancelTask(r) ==
    /\ task[r] = "running"
    /\ \/ /\ run[r].status = "canceling"
          /\ task' = [task EXCEPT ![r] = IF Resumed(r) THEN "settle" ELSE "none"]
          /\ UNCHANGED faults
       \/ /\ run[r].status \in {"running", "canceling"} /\ faults < scope.faults
          /\ \E next \in IF Resumed(r) THEN {"settle"} ELSE {"none", "error"} :
                task' = [task EXCEPT ![r] = next]
          /\ faults' = faults + 1
    /\ Transition(r, IF Resumed(r) THEN Terminal(r, "stale") ELSE "canceled")
    /\ UNCHANGED <<request, paused, session, stopped, retired, scope>>

\* The graph stops on an approval: pause, and the interrupted end of a resumed run.
Pause(r) ==
    /\ task[r] = "running" /\ run[r].status = "running"
    /\ paused # run[r].parent \/ paused = 0
    /\ paused' = r
    /\ Transition(r, "interrupted")
    /\ task' = [task EXCEPT ![r] = "record"]
    /\ UNCHANGED <<request, session, stopped, retired, faults, scope>>

\* The poller of an owned run reads the interrupted row before the body has ended.
PollCancelsPause(r) ==
    /\ task[r] \in {"record", "waiting"} /\ ~Resumed(r)
    /\ task' = [task EXCEPT ![r] = "none"]
    /\ UNCHANGED <<envelope, run, request, paused, session, stopped, retired, faults, scope>>

\* The envelope a request inherits from the one its run answered.
Inherited(r) ==
    IF \E p \in Runs : request[p].resumed = r
    THEN request[CHOOSE p \in Runs : request[p].resumed = r].envelope
    ELSE 0

\* record_interrupted_run, in a session of its own.
Record(r) ==
    /\ task[r] = "record"
    /\ request' = IF paused = 0 THEN request
                  ELSE [request EXCEPT ![r] =
                            [status |-> "pending", interrupt |-> paused,
                             envelope |-> IF Resumed(r) THEN Inherited(r) ELSE run[r].envelope,
                             resumed |-> 0, due |-> FALSE]]
    /\ task' = [task EXCEPT ![r] = IF Resumed(r) THEN "settle" ELSE "waiting"]
    /\ UNCHANGED <<envelope, run, paused, session, stopped, retired, faults, scope>>

\* record_interrupted_run raises before its commit: the firing delivers the exception, a resumed
\* run goes on without a request.
RecordFails(r) ==
    /\ task[r] = "record" /\ faults < scope.faults
    /\ task' = [task EXCEPT ![r] = IF Resumed(r) THEN "settle" ELSE "error"]
    /\ faults' = faults + 1
    /\ UNCHANGED <<envelope, run, request, paused, session, stopped, retired, scope>>

\* The owner raises after its body: its last write failed, or, after a pause, the end of the
\* recording, the read of the row or a poll did.  The firing delivers the exception.
FinishFails(r) ==
    /\ task[r] \in {"running", "waiting"} /\ ~Resumed(r) /\ faults < scope.faults
    /\ task' = [task EXCEPT ![r] = "error"]
    /\ faults' = faults + 1
    /\ UNCHANGED <<envelope, run, request, paused, session, stopped, retired, scope>>

\* deliver_trigger_waiting, deliver_trigger_success and the exceptions of invoke_trigger_run:
\* finish_trigger_run writes over whatever the envelope has become.
Deliver(r) ==
    /\ task[r] \in Deliveries
    /\ envelope' = [envelope EXCEPT ![run[r].envelope] = task[r]]
    /\ task' = [task EXCEPT ![r] = "none"]
    /\ UNCHANGED <<run, request, paused, session, stopped, retired, faults, scope>>

-----------------------------------------------------------------------------
(* The end of a waiting firing                                             *)

\* Mutant of Outcome: the answer the run resumed with is not looked at.
OutcomeOfRun(status, answer) == IF status = "completed" THEN "success" ELSE "failed"

Outcome(status, answer) ==
    IF status = "completed" /\ answer # "expired" THEN "success" ELSE "failed"

\* Mutant of Settles: a run that waits again ends the firing too.
SettlesAlways(r) == TRUE

Settles(r) == run[r].status # "interrupted"

\* settle: the firing whose request run r answered ends with it.
Settle(r) ==
    /\ task[r] = "settle"
    /\ LET answered == {p \in Runs : request[p].resumed = r /\ request[p].envelope # 0}
       IN  envelope' = [f \in Firings |->
               IF /\ Settles(r) /\ envelope[f] = "waiting"
                  /\ \E p \in answered : request[p].envelope = f
               THEN Outcome(run[r].status, request[CHOOSE p \in answered : TRUE].status)
               ELSE envelope[f]]
    /\ task' = [task EXCEPT ![r] = "none"]
    /\ UNCHANGED <<run, request, paused, session, stopped, retired, faults, scope>>

\* abandon: the firings none of whose requests is pending end when these were canceled.
Abandoned(ids) ==
    [f \in Firings |->
        IF /\ envelope[f] = "waiting"
           /\ \E p \in ids : request[p].envelope = f /\ request[p].status = "canceled"
           /\ \A p \in Runs : request[p].envelope = f => request[p].status # "pending"
        THEN "failed" ELSE envelope[f]]

-----------------------------------------------------------------------------
(* Answers                                                                 *)

\* Mutant of Claimable: the expiry is the check of decide only.
ClaimableLate(p, c) == request[p].status = "pending"

\* Mutant of Claimable: whoever answers last decides.
ClaimableTwice(p, c) == c = "expiry" \/ ~request[p].due

\* The compare-and-set of claim.
Claimable(p, c) == request[p].status = "pending" /\ (c = "expiry" \/ ~request[p].due)

\* The clock passes expires_at.
ComesDue(p) ==
    /\ request[p].status = "pending" /\ ~request[p].due
    /\ request' = [request EXCEPT ![p].due = TRUE]
    /\ UNCHANGED <<envelope, run, paused, task, session, stopped, retired, faults, scope>>

\* A card of the chat is answered: the latest interrupted run is there to resume.
ChatRead(i) ==
    /\ "chat" \in scope.channels /\ session["chat"] = Idle
    /\ LatestInterrupted = i /\ paused \in {0, i}
    /\ session' = [session EXCEPT !["chat"] =
                      [step |-> "respond", request |-> i, interrupt |-> i]]
    /\ UNCHANGED <<envelope, run, request, paused, task, stopped, retired, faults, scope>>

\* decide reads the request.
InboxRead(p) ==
    /\ "inbox" \in scope.channels /\ session["inbox"] = Idle
    /\ request[p].status = "pending" /\ ~request[p].due
    /\ session' = [session EXCEPT !["inbox"] =
                      [step |-> "check", request |-> p, interrupt |-> request[p].interrupt]]
    /\ UNCHANGED <<envelope, run, request, paused, task, stopped, retired, faults, scope>>

\* decide reads the checkpoint: a request its run no longer waits for is closed.
InboxCheck ==
    /\ session["inbox"].step = "check"
    /\ LET p == session["inbox"].request
       IN  \/ /\ paused = session["inbox"].interrupt
              /\ session' = [session EXCEPT !["inbox"].step = "respond"]
              /\ UNCHANGED request
           \/ /\ paused # session["inbox"].interrupt
              /\ request' = IF request[p].status = "pending"
                            THEN [request EXCEPT ![p].status = "canceled"] ELSE request
              /\ session' = [session EXCEPT !["inbox"].step = "abandon"]
    /\ UNCHANGED <<envelope, run, paused, task, stopped, retired, faults, scope>>

\* close goes on with abandon.
InboxAbandon ==
    /\ session["inbox"].step = "abandon"
    /\ envelope' = Abandoned({session["inbox"].request})
    /\ session' = [session EXCEPT !["inbox"] = Idle]
    /\ UNCHANGED <<run, request, paused, task, stopped, retired, faults, scope>>

\* _expire_one reads a request past its expiry; its run may not be there to resume.
SweepRead(p) ==
    /\ session["expiry"] = Idle
    /\ request[p].status = "pending" /\ request[p].due
    /\ \E step \in {"respond", "unresumed"} :
          session' = [session EXCEPT !["expiry"] =
                         [step |-> step, request |-> p, interrupt |-> request[p].interrupt]]
    /\ UNCHANGED <<envelope, run, request, paused, task, stopped, retired, faults, scope>>

\* The answer has been given or refused: the sweep looks at the request once more.
Answered(c) ==
    session' = [session EXCEPT ![c] = IF c = "expiry" THEN [@ EXCEPT !.step = "unresumed"]
                                                      ELSE Idle]

\* The conversation accepts the resumed run; a row of the interrupt, if any, must be claimable.
Accepts(i, c) ==
    /\ ~stopped /\ NoActiveRun /\ Room
    /\ LatestInterrupted = i
    /\ request[i].status # "none" /\ request[i].interrupt = i => Claimable(i, c)

\* _handle_input_respond_command: the resumed run and the claim, in one transaction.
Respond(c) ==
    /\ session[c].step = "respond"
    /\ LET i == session[c].interrupt
       IN  /\ Accepts(i, c)
           /\ run' = [run EXCEPT ![NewRun] = [status |-> "queued", parent |-> i, envelope |-> 0]]
           /\ task' = [task EXCEPT ![NewRun] = "accepted"]
           /\ request' = IF request[i].status # "none" /\ request[i].interrupt = i
                         THEN [request EXCEPT
                                  ![i].status = IF c = "expiry" THEN "expired" ELSE "decided",
                                  ![i].resumed = NewRun]
                         ELSE request
    /\ Answered(c)
    /\ UNCHANGED <<envelope, paused, stopped, retired, faults, scope>>

\* The answer is refused: a conflict, a stop, a stale claim, or an access lost meanwhile.
Refused(c) ==
    /\ session[c].step = "respond"
    /\ Answered(c)
    /\ UNCHANGED <<envelope, run, request, paused, task, stopped, retired, faults, scope>>

\* Mutant of ExpireUnresumed: a request whose answer was refused is left for the next sweep.
ExpireUnresumedLater ==
    /\ session["expiry"].step = "unresumed"
    /\ session' = [session EXCEPT !["expiry"] = Idle]
    /\ UNCHANGED <<envelope, run, request, paused, task, stopped, retired, faults, scope>>

\* A request that is still pending expires on its own.
ExpireUnresumed ==
    /\ session["expiry"].step = "unresumed"
    /\ LET p == session["expiry"].request
       IN  request' = IF request[p].status = "pending"
                      THEN [request EXCEPT ![p].status = "expired"] ELSE request
    /\ session' = [session EXCEPT !["expiry"] = Idle]
    /\ UNCHANGED <<envelope, run, paused, task, stopped, retired, faults, scope>>

-----------------------------------------------------------------------------
(* Emergency stop, crashes                                                 *)

\* stop: the block, the canceled runs and the canceled requests, in one transaction.
EmergencyStop ==
    /\ ~stopped /\ retired = {} /\ faults < scope.faults
    /\ stopped' = TRUE /\ faults' = faults + 1
    /\ LET canceling == {r \in Runs : run[r].status \in {"queued", "running"}}
           canceled == {p \in Runs : request[p].status = "pending"}
       IN  /\ run' = [r \in Runs |-> IF r \in canceling THEN [run[r] EXCEPT !.status = "canceling"]
                                                        ELSE run[r]]
           /\ envelope' = [f \in Firings |-> IF \E r \in canceling : run[r].envelope = f
                                             THEN TriggerStatusForRun("canceling")
                                             ELSE envelope[f]]
           /\ request' = [p \in Runs |-> IF p \in canceled
                                         THEN [request[p] EXCEPT !.status = "canceled"]
                                         ELSE request[p]]
           /\ retired' = canceled
    /\ UNCHANGED <<paused, task, session, scope>>

\* stop goes on with abandon.
StopAbandon ==
    /\ retired # {}
    /\ envelope' = Abandoned(retired)
    /\ retired' = {}
    /\ UNCHANGED <<run, request, paused, task, session, stopped, faults, scope>>

\* release.
Release ==
    /\ stopped
    /\ stopped' = FALSE
    /\ UNCHANGED <<envelope, run, request, paused, task, session, retired, faults, scope>>

\* The process of a task dies, or is shut down outside the body of a run.
Crash(r) ==
    /\ task[r] # "none" /\ faults < scope.faults
    /\ task' = [task EXCEPT ![r] = "none"]
    /\ faults' = faults + 1
    /\ UNCHANGED <<envelope, run, request, paused, session, stopped, retired, scope>>

\* mark_stale_active_runs ends a run without a heartbeat, dead or not: first runs have none.  A
\* canceling one is left alone.
MarkStale(r) ==
    /\ run[r].status \in {"queued", "running"} /\ (Resumed(r) => task[r] = "none")
    /\ Transition(r, "stale")
    /\ UNCHANGED <<request, paused, task, session, stopped, retired, faults, scope>>

-----------------------------------------------------------------------------
TaskStep(r) ==
    \/ Start(r) \/ StartCanceled(r) \/ Consume(r) \/ EndRun(r) \/ EndStale(r) \/ CancelTask(r)
    \/ Pause(r) \/ PollCancelsPause(r) \/ Record(r) \/ RecordFails(r) \/ FinishFails(r)
    \/ Deliver(r) \/ Settle(r)

Next ==
    \/ \E f \in Firings : Fire(f)
    \/ \E r \in Runs : TaskStep(r) \/ Crash(r) \/ MarkStale(r)
    \/ \E r \in Runs : ComesDue(r) \/ ChatRead(r) \/ InboxRead(r) \/ SweepRead(r)
    \/ InboxCheck \/ InboxAbandon \/ ExpireUnresumed
    \/ \E c \in Channels : Respond(c) \/ Refused(c)
    \/ EmergencyStop \/ StopAbandon \/ Release

Spec == Init /\ [][Next]_vars

\* The clock runs, the leader sweeps every minute and an answer that was begun returns.
FairSpec ==
    /\ Spec
    /\ \A p \in Runs : WF_vars(ComesDue(p)) /\ SF_vars(SweepRead(p))
    /\ WF_vars(ExpireUnresumed)
    /\ WF_vars(Respond("expiry") \/ Refused("expiry"))

-----------------------------------------------------------------------------
\* However the chat, the inbox and the sweep race, an interrupt is answered by one resumed run:
\* each of them read the paused run in a transaction of its own, before the one that resumes it.
OneResumePerInterrupt ==
    \A r, s \in Runs : run[r].parent # 0 /\ run[r].parent = run[s].parent => r = s

\* A request that can still be answered has a firing that waits for the answer, or one whose
\* owner raised after the pause: no end of an earlier run of the chain, stop, sweep or other
\* delivery has ended it in between.
PendingIsWaiting ==
    \A p \in Runs : request[p].status = "pending" /\ request[p].envelope # 0
                        => envelope[request[p].envelope] \in {"waiting", "error"}

\* A firing whose last answer was an expiry is never a success, although its resumed run,
\* which was only told of the rejection, completes.
ExpiredIsNotSuccess ==
    \A p \in Runs :
        /\ request[p].status = "expired" /\ request[p].resumed # 0 /\ request[p].envelope # 0
        /\ run[request[p].resumed].status = "completed"
        => envelope[request[p].envelope] # "success"

\* A request is decided once: nothing the other channels, a stop or a late recording do
\* changes an answered or retired one, or the run that goes on from it.
DecisionIsFinal ==
    [][\A p \in Runs : request[p].status \in RequestStatuses \ {"pending"}
           => request'[p] = request[p]]_vars

\* An answer read before the expiry and written after it is not taken.
NoLateDecision ==
    [][\A p \in Runs : request[p].due /\ request'[p].status = "decided"
           => request[p].status = "decided"]_vars

\* Every request ends, whether or not its run can be resumed.
EveryRequestEnds ==
    \A p \in Runs : request[p].status = "pending" ~> request[p].status # "pending"

\* What a waiting firing waits for: a request, the run an answer resumed, or a step that
\* some handler is about to take.
Held(f) ==
    \/ \E p \in Runs : request[p].envelope = f /\ request[p].status = "pending"
    \/ \E p \in Runs : /\ request[p].envelope = f /\ request[p].resumed # 0
                       /\ task[request[p].resumed] # "none"
    \/ \E r \in Runs : run[r].envelope = f /\ task[r] # "none"
    \/ \E p \in Runs : /\ request[p].envelope = f
                       /\ p \in retired \/ session["inbox"].request = p

\* A waiting firing, which holds back the next one, is waited for by somebody: its request
\* was recorded, as the first step of the wait says.
WaitingIsHeld == \A f \in Firings : envelope[f] = "waiting" => Held(f)
=============================================================================
