----------------------- MODULE ScheduledApproval_proof -----------------------
(***************************************************************************)
(* Theorems about ScheduledApproval, for any number of firings, runs,      *)
(* stops and crashes, and any scopes.                                      *)
(***************************************************************************)
EXTENDS ScheduledApproval, WellFoundedInduction, TLAPS

-----------------------------------------------------------------------------
(* The choices of NewRun and LatestInterrupted *)

\* A set of numbers that is not empty has a least one.
LEMMA Smallest ==
    ASSUME NEW S \in SUBSET Nat, S # {}
    PROVE  \E x \in S : \A y \in S : x <= y
<1> DEFINE R == {ss \in Nat \X Nat : ss[1] < ss[2]}
<1>1. OpToRel(<, Nat) = R
  BY DEF OpToRel
<1>2. PICK x \in S : \A y \in S : <<y, x>> \notin R
  BY <1>1, WFMin, NatLessThanWellFounded
<1>3. ASSUME NEW y \in S PROVE x <= y
  <2>1. x \in Nat /\ y \in Nat
    OBVIOUS
  <2>2. y < x => <<y, x>> \in R
    BY <2>1
  <2>3. ~(y < x)
    BY <1>2, <2>2
  <2> QED BY <2>1, <2>3
<1> QED BY <1>3

\* The row of the next run is free.
LEMMA NewRunIsFree ==
    ASSUME Runs \ Created # {}
    PROVE  NewRun \in Runs /\ run[NewRun].status = "none"
<1>1. Runs \ Created \in SUBSET Nat
  BY ApprovalBounds DEF Runs
<1>2. \E r \in Runs \ Created : \A s \in Runs \ Created : r <= s
  BY <1>1, Smallest
<1>3. NewRun \in Runs \ Created
  BY <1>2 DEF NewRun
<1> QED BY <1>3 DEF Created

\* What LatestInterrupted offers is an interrupted run nobody has resumed.
LEMMA LatestIsOpen ==
    ASSUME LatestInterrupted # 0
    PROVE  /\ LatestInterrupted \in Runs
           /\ run[LatestInterrupted].status = "interrupted"
           /\ \A s \in Runs : run[s].parent # LatestInterrupted
<1> DEFINE candidates == {r \in Runs : /\ run[r].status = "interrupted"
                                       /\ \A s \in Runs : run[s].parent # r}
           below == {MaxRuns - r : r \in candidates}
<1>1. candidates # {}
  BY DEF LatestInterrupted
<1>2. \A r \in candidates : r \in Nat /\ MaxRuns - r \in Nat /\ MaxRuns \in Nat
  BY ApprovalBounds DEF Runs
<1>3. \E x \in below : \A y \in below : x <= y
  <2>1. below \in SUBSET Nat /\ below # {}
    BY <1>1, <1>2
  <2> QED BY <2>1, Smallest
<1>4. \E r \in candidates : \A s \in candidates : s <= r
  <2>1. PICK r \in candidates : \A y \in below : MaxRuns - r <= y
    BY <1>3
  <2>2. \A s \in candidates : MaxRuns - r <= MaxRuns - s
    BY <2>1
  <2>3. \A s \in candidates : s <= r
    BY <1>2, <2>2
  <2> QED BY <2>3
<1>5. LatestInterrupted = CHOOSE r \in candidates : \A s \in candidates : s <= r
  BY <1>1 DEF LatestInterrupted
<1>6. LatestInterrupted \in candidates
  BY <1>4, <1>5
<1> QED BY <1>6
-----------------------------------------------------------------------------
(* Types, and what tasks and sessions know *)

\* A decision under way knows its request and its interrupt; a request knows its interrupt.
SessionInv ==
    /\ \A c \in Channels : session[c].step # "idle" =>
           session[c].request \in Runs /\ session[c].interrupt \in Runs
    /\ \A p \in Runs : request[p].status # "none" => request[p].interrupt \in Runs

\* A task has a run, and a run that has not paused has no request.
ChainInv ==
    /\ \A r \in Runs : task[r] # "none" => run[r].status # "none"
    /\ \A r \in Runs : run[r].status = "none" \/ task[r] \in {"accepted", "running", "record"}
           => request[r].status = "none"

Inv == TypeOK /\ SessionInv /\ ChainInv

\* The values the actions write belong to the sets TypeOK names.
LEMMA Vocabulary ==
    /\ RunStatuses = {"queued", "running", "canceling", "interrupted", "completed", "failed",
                      "canceled", "stale"}
    /\ Envelopes = {"queued", "running", "canceling", "waiting", "success", "failed", "error",
                    "canceled", "skipped"}
    /\ Tasks = {"none", "accepted", "running", "record", "settle", "waiting", "success", "error"}
    /\ \A status : TriggerStatusForRun(status) \in Envelopes
<1>1. ASSUME NEW status PROVE TriggerStatusForRun(status) \in Envelopes
  BY DEF TriggerStatusForRun, Envelopes, InFlight
<1> QED BY <1>1 DEF RunStatuses, ActiveStatuses, Envelopes, InFlight, Tasks, Deliveries

\* A transition keeps the columns of runs and envelopes, and the parents.
LEMMA TransitionKeeps ==
    ASSUME TypeOK, NEW r \in Runs, NEW status \in RunStatuses, Transition(r, status)
    PROVE  /\ envelope' \in [Firings -> Envelopes \cup {"none"}]
           /\ run' \in [Runs -> [status : RunStatuses \cup {"none"}, parent : Runs \cup {0},
                                 envelope : Firings \cup {0}]]
           /\ \A s \in Runs : run'[s].parent = run[s].parent
           /\ \A s \in Runs \ {r} : run'[s] = run[s]
           /\ run'[r].status = status
<1>1. \A f \in Firings : envelope'[f] \in Envelopes \cup {"none"}
  BY Vocabulary DEF Transition, TypeOK
<1>2. envelope' \in [Firings -> Envelopes \cup {"none"}]
  BY <1>1 DEF Transition
<1>3. run' = [run EXCEPT ![r].status = status]
  BY DEF Transition
<1> QED BY <1>2, <1>3 DEF TypeOK

\* A new run keeps the table typed.
LEMMA InsertRun ==
    ASSUME TypeOK, NEW n \in Runs, NEW p \in Runs \cup {0}, NEW e \in Firings \cup {0},
           run' = [run EXCEPT ![n] = [status |-> "queued", parent |-> p, envelope |-> e]]
    PROVE  /\ run' \in [Runs -> [status : RunStatuses \cup {"none"}, parent : Runs \cup {0},
                                 envelope : Firings \cup {0}]]
           /\ \A s \in Runs \ {n} : run'[s] = run[s]
           /\ run'[n].status = "queued" /\ run'[n].parent = p
BY Vocabulary DEF TypeOK

\* The room the bound leaves is a free row.
LEMMA RoomIsFree ==
    ASSUME Room
    PROVE  NewRun \in Runs /\ run[NewRun].status = "none"
BY NewRunIsFree DEF Room

\* The initial state has no requests, runs or firings.
LEMMA InvInit == Init => Inv
<1> SUFFICES ASSUME Init PROVE Inv
  OBVIOUS
<1>1. TypeOK
  <2>1. 0 \in 0 .. MaxFaults
    BY ApprovalBounds
  <2>2. session \in [Channels -> [step : Steps, request : Runs \cup {0}, interrupt : Runs \cup {0}]]
    BY DEF Init, Idle, Steps
  <2>3. run \in [Runs -> [status : RunStatuses \cup {"none"}, parent : Runs \cup {0},
                         envelope : Firings \cup {0}]]
    BY DEF Init
  <2>4. request \in [Runs -> [status : RequestStatuses \cup {"none"}, interrupt : Runs \cup {0},
                             envelope : Firings \cup {0}, resumed : Runs \cup {0}, due : BOOLEAN]]
    BY DEF Init
  <2>5. envelope \in [Firings -> Envelopes \cup {"none"}] /\ task \in [Runs -> Tasks]
    BY Vocabulary DEF Init
  <2> QED BY <2>1, <2>2, <2>3, <2>4, <2>5 DEF Init, TypeOK
<1>2. SessionInv /\ ChainInv
  BY DEF Init, SessionInv, ChainInv, Idle
<1> QED BY <1>1, <1>2 DEF Inv

\* A firing keeps the invariant.
LEMMA FireKeeps ==
    ASSUME Inv, NEW f \in Firings, Fire(f)
    PROVE  Inv'
<1> USE DEF Inv
<1>1. CASE stopped /\ envelope' = [envelope EXCEPT ![f] = "skipped"] /\ UNCHANGED <<run, task>>
  <2>1. TypeOK'
    BY <1>1, Vocabulary DEF Fire, TypeOK
  <2> QED BY <1>1, <2>1 DEF Fire, SessionInv, ChainInv
<1>2. CASE /\ Room
           /\ run' = [run EXCEPT ![NewRun] = [status |-> "queued", parent |-> 0, envelope |-> f]]
           /\ envelope' = [envelope EXCEPT ![f] = TriggerStatusForRun("queued")]
           /\ task' = [task EXCEPT ![NewRun] = "accepted"]
  <2>1. NewRun \in Runs /\ run[NewRun].status = "none"
    BY <1>2, RoomIsFree
  <2>2. run' \in [Runs -> [status : RunStatuses \cup {"none"}, parent : Runs \cup {0},
                            envelope : Firings \cup {0}]]
        /\ (\A s \in Runs \ {NewRun} : run'[s] = run[s]) /\ run'[NewRun].status = "queued"
    BY <1>2, <2>1, InsertRun
  <2>3. TypeOK'
    BY <1>2, <2>1, <2>2, Vocabulary DEF Fire, TypeOK
  <2>4. SessionInv'
    BY DEF Fire, SessionInv
  <2>5. ChainInv'
    <3>1. task' \in [Runs -> Tasks] /\ task'[NewRun] = "accepted"
          /\ (\A s \in Runs \ {NewRun} : task'[s] = task[s]) /\ request' = request
      BY <1>2, <2>1, <2>3 DEF Fire, TypeOK
    <3> QED BY <2>1, <2>2, <3>1 DEF ChainInv
  <2> QED BY <2>3, <2>4, <2>5
<1> QED BY <1>1, <1>2 DEF Fire

\* A step of a task that moves its run and then does something else with it.
LEMMA MoveKeeps ==
    ASSUME Inv, NEW r \in Runs, NEW status \in RunStatuses, NEW next \in Tasks,
           Transition(r, status), task' = [task EXCEPT ![r] = next], paused' \in Runs \cup {0},
           next \in {"running", "record"} => task[r] \in {"accepted", "running"},
           next # "accepted", faults' \in 0 .. MaxFaults,
           UNCHANGED <<request, session, stopped, retired, scope>>
    PROVE  Inv'
<1> USE DEF Inv
<1>1. TypeOK'
  BY TransitionKeeps DEF TypeOK
<1>2. SessionInv'
  BY DEF SessionInv
<1>3. ChainInv'
  <2>1. (\A s \in Runs \ {r} : run'[s] = run[s]) /\ run'[r].status = status /\ status # "none"
    BY TransitionKeeps, Vocabulary
  <2>2. task'[r] = next /\ \A s \in Runs \ {r} : task'[s] = task[s]
    BY DEF TypeOK
  <2> QED BY <2>1, <2>2 DEF ChainInv
<1> QED BY <1>1, <1>2, <1>3

\* A fault is counted within the scope.
LEMMA FaultCount ==
    ASSUME TypeOK, faults < scope.faults, faults' = faults + 1
    PROVE  faults' \in 0 .. MaxFaults
<1>1. scope.faults \in 0 .. MaxFaults
  BY ScopeAssumption DEF TypeOK
<1> QED BY <1>1, ApprovalBounds DEF TypeOK

\* A step of a task that leaves runs, requests and sessions alone.
LEMMA TaskOnlyKeeps ==
    ASSUME Inv, NEW r \in Runs, NEW next \in Tasks \ {"accepted", "running", "record"},
           task[r] # "none", task' = [task EXCEPT ![r] = next],
           envelope' \in [Firings -> Envelopes \cup {"none"}],
           faults' \in 0 .. MaxFaults, paused' \in Runs \cup {0},
           UNCHANGED <<run, request, session, stopped, retired, scope>>
    PROVE  Inv'
<1> USE DEF Inv
<1>1. TypeOK' /\ SessionInv'
  BY DEF TypeOK, SessionInv
<1>2. task'[r] = next /\ \A s \in Runs \ {r} : task'[s] = task[s]
  BY DEF TypeOK
<1>3. ChainInv'
  BY <1>2 DEF ChainInv
<1> QED BY <1>1, <1>3

\* The steps of the owner's task keep the invariant.
LEMMA TaskKeeps ==
    ASSUME Inv, NEW r \in Runs, TaskStep(r)
    PROVE  Inv'
<1>0. paused \in Runs \cup {0} /\ faults \in 0 .. MaxFaults
      /\ envelope \in [Firings -> Envelopes \cup {"none"}]
  BY DEF Inv, TypeOK
<1>1. CASE Start(r)
  BY <1>0, <1>1, MoveKeeps, Vocabulary DEF Start
<1>2. CASE StartCanceled(r)
  BY <1>0, <1>2, MoveKeeps, Vocabulary DEF StartCanceled
<1>3. CASE Consume(r)
  <2>1. TypeOK'
    BY <1>3 DEF Consume, Inv, TypeOK
  <2> QED BY <1>3, <2>1 DEF Consume, Inv, SessionInv, ChainInv
<1>4. CASE EndRun(r)
  <2>1. Terminal(r, "completed") \in RunStatuses /\ Terminal(r, "failed") \in RunStatuses
    BY Vocabulary DEF Terminal
  <2>2. paused' \in Runs \cup {0}
    BY <1>0, <1>4 DEF EndRun, Left
  <2> QED BY <1>0, <1>4, <2>1, <2>2, MoveKeeps, Vocabulary DEF EndRun
<1>5. CASE CancelTask(r)
  <2>1. faults' \in 0 .. MaxFaults
    BY <1>0, <1>5, FaultCount DEF CancelTask, Inv
  <2>2. Terminal(r, "stale") \in RunStatuses /\ "canceled" \in RunStatuses
    BY Vocabulary DEF Terminal
  <2>3. \E next \in {"settle", "none", "error"} : task' = [task EXCEPT ![r] = next]
    BY <1>5 DEF CancelTask
  <2> QED BY <1>0, <1>5, <2>1, <2>2, <2>3, MoveKeeps, Vocabulary DEF CancelTask
<1>6. CASE Pause(r)
  BY <1>0, <1>6, MoveKeeps, Vocabulary DEF Pause
<1>7. CASE PollCancelsPause(r)
  BY <1>0, <1>7, TaskOnlyKeeps, Vocabulary DEF PollCancelsPause
<1>8. CASE Record(r)
  <2>1. Inherited(r) \in Firings \cup {0} /\ run[r].envelope \in Firings \cup {0}
    BY DEF Inherited, Inv, TypeOK
  <2>2. /\ request' \in [Runs -> [status : RequestStatuses \cup {"none"}, interrupt : Runs \cup {0},
                               envelope : Firings \cup {0}, resumed : Runs \cup {0}, due : BOOLEAN]]
        /\ \A p \in Runs \ {r} : request'[p] = request[p]
        /\ request'[r] = request[r] \/ request'[r].interrupt \in Runs
    BY <1>0, <1>8, <2>1 DEF Record, Inv, TypeOK, RequestStatuses
  <2>3. TypeOK'
    BY <1>8, <2>2, Vocabulary DEF Record, Inv, TypeOK
  <2>4. SessionInv'
    BY <1>8, <2>2 DEF Record, Inv, SessionInv
  <2>5. /\ task'[r] \in {"settle", "waiting"} /\ \A s \in Runs \ {r} : task'[s] = task[s]
        /\ run[r].status # "none"
    BY <1>8 DEF Record, Inv, TypeOK, ChainInv
  <2>6. ChainInv'
    BY <1>8, <2>2, <2>5 DEF Record, Inv, ChainInv
  <2> QED BY <2>3, <2>4, <2>6 DEF Inv
<1>9. CASE Deliver(r)
  <2>1. envelope' \in [Firings -> Envelopes \cup {"none"}]
    BY <1>0, <1>9, Vocabulary DEF Deliver, Deliveries
  <2> QED BY <1>0, <1>9, <2>1, TaskOnlyKeeps, Vocabulary DEF Deliver, Deliveries
<1>10. CASE Settle(r)
  <2>1. \A status, answer : Outcome(status, answer) \in Envelopes
    BY Vocabulary DEF Outcome
  <2>2. envelope' \in [Firings -> Envelopes \cup {"none"}]
    BY <1>0, <1>10, <2>1 DEF Settle
  <2> QED BY <1>0, <1>10, <2>2, TaskOnlyKeeps, Vocabulary DEF Settle
<1>11. CASE EndStale(r)
  <2>1. paused' \in Runs \cup {0}
    BY <1>0, <1>11 DEF EndStale, Left
  <2>2. \E next \in {"error", "success", "none"} : task' = [task EXCEPT ![r] = next]
    BY <1>11 DEF EndStale
  <2> QED BY <1>0, <1>11, <2>1, <2>2, TaskOnlyKeeps, Vocabulary DEF EndStale
<1>12. CASE RecordFails(r) \/ FinishFails(r)
  <2>1. faults' \in 0 .. MaxFaults
    BY <1>12, FaultCount DEF RecordFails, FinishFails, Inv
  <2>2. \E next \in {"settle", "error"} : task' = [task EXCEPT ![r] = next]
    BY <1>12 DEF RecordFails, FinishFails
  <2> QED BY <1>0, <1>12, <2>1, <2>2, TaskOnlyKeeps, Vocabulary DEF RecordFails, FinishFails
<1> QED BY <1>1, <1>2, <1>3, <1>4, <1>5, <1>6, <1>7, <1>8, <1>9, <1>10, <1>11, <1>12 DEF TaskStep

\* Abandoned firings are written as failed.
LEMMA AbandonedType ==
    ASSUME TypeOK, NEW ids
    PROVE  Abandoned(ids) \in [Firings -> Envelopes \cup {"none"}]
BY Vocabulary DEF Abandoned, TypeOK

\* A step that changes at most the status or the due mark of recorded requests, the
\* sessions of the answers, envelopes and the state of a stop.
LEMMA AnswerKeeps ==
    ASSUME Inv, UNCHANGED <<run, paused, task, scope>>,
           request' \in [Runs -> [status : RequestStatuses \cup {"none"}, interrupt : Runs \cup {0},
                                 envelope : Firings \cup {0}, resumed : Runs \cup {0},
                                 due : BOOLEAN]],
           \A p \in Runs : /\ request'[p].interrupt = request[p].interrupt
                           /\ request[p].status = "none" => request'[p].status = "none"
                           /\ request[p].status # "none" => request'[p].status # "none",
           session' \in [Channels -> [step : Steps, request : Runs \cup {0},
                                     interrupt : Runs \cup {0}]],
           \A c \in Channels : session'[c].step # "idle" =>
               session'[c].request \in Runs /\ session'[c].interrupt \in Runs,
           envelope' \in [Firings -> Envelopes \cup {"none"}],
           stopped' \in BOOLEAN, retired' \subseteq Runs, faults' \in 0 .. MaxFaults
    PROVE  Inv'
<1>1. TypeOK'
  BY DEF Inv, TypeOK
<1>2. SessionInv'
  BY DEF Inv, SessionInv
<1>3. ChainInv'
  BY DEF Inv, ChainInv
<1> QED BY <1>1, <1>2, <1>3 DEF Inv

\* The type of the sessions, and how one of them is set.
SessionTable == [Channels -> [step : Steps, request : Runs \cup {0}, interrupt : Runs \cup {0}]]
RequestTable == [Runs -> [status : RequestStatuses \cup {"none"}, interrupt : Runs \cup {0},
                          envelope : Firings \cup {0}, resumed : Runs \cup {0}, due : BOOLEAN]]

\* A session that is opened at a step.
LEMMA SetSession ==
    ASSUME Inv, NEW c \in Channels, NEW step \in Steps, NEW p \in Runs, NEW i \in Runs,
           session' = [session EXCEPT ![c] = [step |-> step, request |-> p, interrupt |-> i]]
    PROVE  /\ session' \in SessionTable
           /\ \A d \in Channels : session'[d].step # "idle" =>
                  session'[d].request \in Runs /\ session'[d].interrupt \in Runs
BY DEF Inv, TypeOK, SessionInv, SessionTable

\* A session that goes on to its next step, or ends.
LEMMA AdvanceSession ==
    ASSUME Inv, NEW c \in Channels, NEW step \in Steps, session[c].step # "idle",
           \/ session' = [session EXCEPT ![c].step = step]
           \/ session' = [session EXCEPT ![c] = Idle]
    PROVE  /\ session' \in SessionTable
           /\ \A d \in Channels : session'[d].step # "idle" =>
                  session'[d].request \in Runs /\ session'[d].interrupt \in Runs
<1>1. Idle \in [step : Steps, request : Runs \cup {0}, interrupt : Runs \cup {0}]
      /\ Idle.step = "idle"
  BY DEF Idle, Steps
<1>2. CASE session' = [session EXCEPT ![c].step = step]
  BY <1>2 DEF Inv, TypeOK, SessionInv, SessionTable
<1>3. CASE session' = [session EXCEPT ![c] = Idle]
  BY <1>1, <1>3 DEF Inv, TypeOK, SessionInv, SessionTable
<1> QED BY <1>2, <1>3

\* Closing or expiring a pending request.
LEMMA SetStatus ==
    ASSUME Inv, NEW p \in Runs, NEW status \in RequestStatuses,
           \/ request' = request
           \/ request[p].status = "pending" /\ request' = [request EXCEPT ![p].status = status]
    PROVE  /\ request' \in RequestTable
           /\ \A q \in Runs : /\ request'[q].interrupt = request[q].interrupt
                              /\ request[q].status = "none" => request'[q].status = "none"
                              /\ request[q].status # "none" => request'[q].status # "none"
BY DEF Inv, TypeOK, RequestTable, RequestStatuses

\* The reads and the refusals of the channels keep the invariant.
LEMMA ChannelKeeps ==
    ASSUME Inv, NEW p \in Runs,
           \/ ComesDue(p) \/ ChatRead(p) \/ InboxRead(p) \/ SweepRead(p)
           \/ InboxCheck \/ InboxAbandon \/ ExpireUnresumed
    PROVE  Inv'
<1> USE AnswerKeeps DEF SessionTable, RequestTable
<1>0. /\ session \in SessionTable /\ request \in RequestTable
      /\ \A c \in Channels : session[c].step # "idle" =>
             session[c].request \in Runs /\ session[c].interrupt \in Runs
      /\ envelope \in [Firings -> Envelopes \cup {"none"}]
      /\ stopped \in BOOLEAN /\ retired \subseteq Runs /\ faults \in 0 .. MaxFaults
      /\ {"chat", "inbox", "expiry"} = Channels /\ {"canceled", "expired"} \subseteq RequestStatuses
      /\ {"check", "respond", "unresumed", "abandon"} \subseteq Steps
  BY DEF Inv, TypeOK, SessionInv, Channels, Steps, RequestStatuses
<1>1. CASE ComesDue(p)
  <2>1. /\ request' \in RequestTable
        /\ \A q \in Runs : request'[q].interrupt = request[q].interrupt
                           /\ request'[q].status = request[q].status
    BY <1>0, <1>1 DEF ComesDue
  <2> QED BY <1>0, <1>1, <2>1 DEF ComesDue
<1>2. CASE ChatRead(p)
  BY <1>0, <1>2, SetSession DEF ChatRead
<1>3. CASE InboxRead(p)
  <2>1. request[p].interrupt \in Runs
    BY <1>3 DEF InboxRead, Inv, SessionInv
  <2> QED BY <1>0, <1>3, <2>1, SetSession DEF InboxRead
<1>4. CASE SweepRead(p)
  <2>1. request[p].interrupt \in Runs
    BY <1>4 DEF SweepRead, Inv, SessionInv
  <2> QED BY <1>0, <1>4, <2>1, SetSession DEF SweepRead
<1>5. CASE InboxCheck
  <2>1. session["inbox"].step # "idle" /\ session["inbox"].request \in Runs
    BY <1>0, <1>5 DEF InboxCheck
  <2>2. request' \in RequestTable
        /\ \A q \in Runs : /\ request'[q].interrupt = request[q].interrupt
                           /\ request[q].status = "none" => request'[q].status = "none"
                           /\ request[q].status # "none" => request'[q].status # "none"
    BY <1>0, <1>5, <2>1, SetStatus DEF InboxCheck
  <2>3. session' \in SessionTable
        /\ \A d \in Channels : session'[d].step # "idle" =>
               session'[d].request \in Runs /\ session'[d].interrupt \in Runs
    BY <1>0, <1>5, <2>1, AdvanceSession DEF InboxCheck
  <2> QED BY <1>0, <1>5, <2>2, <2>3 DEF InboxCheck
<1>6. CASE InboxAbandon
  <2>1. session["inbox"].step # "idle"
    BY <1>6 DEF InboxAbandon
  <2>2. envelope' \in [Firings -> Envelopes \cup {"none"}]
    BY <1>6, AbandonedType DEF InboxAbandon, Inv
  <2>3. session' \in SessionTable
        /\ \A d \in Channels : session'[d].step # "idle" =>
               session'[d].request \in Runs /\ session'[d].interrupt \in Runs
    BY <1>0, <1>6, <2>1, AdvanceSession DEF InboxAbandon
  <2> QED BY <1>0, <1>6, <2>2, <2>3 DEF InboxAbandon
<1>7. CASE ExpireUnresumed
  <2>1. session["expiry"].step # "idle" /\ session["expiry"].request \in Runs
    BY <1>0, <1>7 DEF ExpireUnresumed
  <2>2. request' \in RequestTable
        /\ \A q \in Runs : /\ request'[q].interrupt = request[q].interrupt
                           /\ request[q].status = "none" => request'[q].status = "none"
                           /\ request[q].status # "none" => request'[q].status # "none"
    BY <1>0, <1>7, <2>1, SetStatus DEF ExpireUnresumed
  <2>3. session' \in SessionTable
        /\ \A d \in Channels : session'[d].step # "idle" =>
               session'[d].request \in Runs /\ session'[d].interrupt \in Runs
    BY <1>0, <1>7, <2>1, AdvanceSession DEF ExpireUnresumed
  <2> QED BY <1>0, <1>7, <2>2, <2>3 DEF ExpireUnresumed
<1> QED BY <1>1, <1>2, <1>3, <1>4, <1>5, <1>6, <1>7

\* How an answer leaves its session.
LEMMA AnsweredSession ==
    ASSUME Inv, NEW c \in Channels, session[c].step = "respond", Answered(c)
    PROVE  /\ session' \in SessionTable
           /\ \A d \in Channels : session'[d].step # "idle" =>
                  session'[d].request \in Runs /\ session'[d].interrupt \in Runs
<1>1. CASE c = "expiry"
  <2>1. session' = [session EXCEPT ![c].step = "unresumed"]
    BY <1>1 DEF Answered
  <2> QED BY <2>1, AdvanceSession DEF Steps
<1>2. CASE c # "expiry"
  BY <1>2, AdvanceSession DEF Answered, Steps
<1> QED BY <1>1, <1>2

\* What an accepted answer does: a fresh run resumes an interrupted one nobody resumed, and
\* the request of the interrupt, if there is one, was claimable.
LEMMA RespondShape ==
    ASSUME Inv, NEW c \in Channels, Respond(c)
    PROVE  LET i == session[c].interrupt
               n == NewRun
           IN  /\ i \in Runs /\ n \in Runs /\ n # i
               /\ run[n].status = "none" /\ request[n].status = "none"
               /\ run'[n].status = "queued" /\ run'[n].parent = i
               /\ \A s \in Runs : run[s].parent # i
               /\ \A s \in Runs \ {n} : run'[s] = run[s]
               /\ \A s \in Runs \ {i} : request'[s] = request[s]
               /\ request'[i] # request[i] =>
                      /\ Claimable(i, c)
                      /\ request'[i].status = IF c = "expiry" THEN "expired" ELSE "decided"
                      /\ request'[i].interrupt = request[i].interrupt
               /\ request[i].status # "none" => request'[i].status # "none"
               /\ request' \in RequestTable
               /\ run' \in [Runs -> [status : RunStatuses \cup {"none"}, parent : Runs \cup {0},
                                     envelope : Firings \cup {0}]]
<1> DEFINE i == session[c].interrupt
<1>1. i \in Runs /\ i # 0
  BY ApprovalBounds DEF Respond, Inv, SessionInv, Runs
<1>2. Room /\ LatestInterrupted = i
      /\ (request[i].status # "none" /\ request[i].interrupt = i => Claimable(i, c))
  BY DEF Respond, Accepts
<1>3. NewRun \in Runs /\ run[NewRun].status = "none"
  BY <1>2, RoomIsFree
<1>4. run[i].status = "interrupted" /\ \A s \in Runs : run[s].parent # i
  BY <1>1, <1>2, LatestIsOpen
<1>5. /\ run' \in [Runs -> [status : RunStatuses \cup {"none"}, parent : Runs \cup {0},
                            envelope : Firings \cup {0}]]
      /\ \A s \in Runs \ {NewRun} : run'[s] = run[s]
      /\ run'[NewRun].status = "queued" /\ run'[NewRun].parent = i
  BY <1>1, <1>3, InsertRun DEF Respond, Inv
<1>6. request \in RequestTable
  BY DEF Inv, TypeOK, RequestTable
<1>7. CASE request[i].status # "none" /\ request[i].interrupt = i
  <2>1. request' = [request EXCEPT ![i].status = IF c = "expiry" THEN "expired" ELSE "decided",
                                   ![i].resumed = NewRun]
    BY <1>7 DEF Respond
  <2>2. /\ request' \in RequestTable /\ \A s \in Runs \ {i} : request'[s] = request[s]
        /\ request'[i].status = IF c = "expiry" THEN "expired" ELSE "decided"
        /\ request'[i].interrupt = request[i].interrupt
    BY <1>1, <1>3, <1>6, <2>1 DEF RequestTable, RequestStatuses
  <2>3. request[NewRun].status = "none"
    BY <1>3 DEF Inv, ChainInv
  <2> QED BY <1>1, <1>2, <1>3, <1>4, <1>5, <1>7, <2>2, <2>3
<1>8. CASE ~(request[i].status # "none" /\ request[i].interrupt = i)
  <2>1. request' = request
    BY <1>8 DEF Respond
  <2>2. request[NewRun].status = "none"
    BY <1>3 DEF Inv, ChainInv
  <2> QED BY <1>1, <1>3, <1>4, <1>5, <1>6, <2>1, <2>2
<1> QED BY <1>7, <1>8

\* An answer, taken or refused, keeps the invariant.
LEMMA RespondKeeps ==
    ASSUME Inv, NEW c \in Channels, Respond(c) \/ Refused(c)
    PROVE  Inv'
<1>1. CASE Refused(c)
  <2>1. request \in RequestTable /\ TypeOK
    BY DEF Inv, TypeOK, RequestTable
  <2> QED BY <1>1, <2>1, AnsweredSession, AnswerKeeps
          DEF Refused, TypeOK, SessionTable, RequestTable
<1>2. CASE Respond(c)
  <2> DEFINE i == session[c].interrupt
             n == NewRun
  <2>1. session[c].step = "respond" /\ Answered(c)
        /\ UNCHANGED <<envelope, paused, stopped, retired, faults, scope>>
        /\ task' = [task EXCEPT ![n] = "accepted"]
    BY <1>2 DEF Respond
  <2>2. task' \in [Runs -> Tasks] /\ task'[n] = "accepted" /\ \A s \in Runs \ {n} : task'[s] = task[s]
    BY <1>2, <2>1, RespondShape, Vocabulary DEF Inv, TypeOK
  <2>3. TypeOK'
    <3>1. /\ run' \in [Runs -> [status : RunStatuses \cup {"none"}, parent : Runs \cup {0},
                                envelope : Firings \cup {0}]]
          /\ request' \in RequestTable
      BY <1>2, RespondShape
    <3>2. session' \in SessionTable
      BY <2>1, AnsweredSession
    <3>3. TypeOK /\ UNCHANGED <<envelope, paused, stopped, retired, faults, scope>>
      BY <2>1 DEF Inv
    <3> QED BY ONLY <2>2, <3>1, <3>2, <3>3 DEF TypeOK, SessionTable, RequestTable
  <2>4. SessionInv'
    <3>1. \A d \in Channels : session'[d].step # "idle" =>
              session'[d].request \in Runs /\ session'[d].interrupt \in Runs
      BY <2>1, AnsweredSession
    <3>2. ASSUME NEW p \in Runs, request'[p].status # "none"
          PROVE  request'[p].interrupt \in Runs
      <4>1. CASE request'[p] = request[p]
        BY <3>2, <4>1 DEF Inv, SessionInv
      <4>2. CASE request'[p] # request[p]
        <5>1. p = i
          BY <1>2, <4>2, RespondShape
        <5>2. request'[p].interrupt = request[p].interrupt /\ request[p].status = "pending"
          BY <1>2, <4>2, <5>1, RespondShape DEF Claimable
        <5> QED BY <5>2 DEF Inv, SessionInv
      <4> QED BY <4>1, <4>2
    <3> QED BY <3>1, <3>2 DEF SessionInv
  <2>5. ChainInv'
    <3>1. \A r \in Runs : task'[r] # "none" => run'[r].status # "none"
      BY <1>2, <2>2, RespondShape DEF Inv, ChainInv
    <3>2. ASSUME NEW r \in Runs,
                 run'[r].status = "none" \/ task'[r] \in {"accepted", "running", "record"}
          PROVE  request'[r].status = "none"
      <4>1. CASE r = n
        BY <1>2, <4>1, RespondShape
      <4>2. CASE r # n
        <5>1. request[r].status = "none"
          BY <1>2, <2>2, <3>2, <4>2, RespondShape DEF Inv, ChainInv
        <5>2. request'[r] = request[r]
          BY <1>2, <5>1, RespondShape DEF Claimable
        <5> QED BY <5>1, <5>2
      <4> QED BY <4>1, <4>2
    <3> QED BY <3>1, <3>2 DEF ChainInv
  <2> QED BY <2>3, <2>4, <2>5 DEF Inv
<1> QED BY <1>1, <1>2

\* A stop, its end, a lost task and the sweep of stale runs keep the invariant.
LEMMA FaultKeeps ==
    ASSUME Inv, \/ EmergencyStop \/ StopAbandon \/ Release
                \/ \E r \in Runs : Crash(r) \/ MarkStale(r)
    PROVE  Inv'
<1>0. /\ session \in SessionTable /\ request \in RequestTable
      /\ \A c \in Channels : session[c].step # "idle" =>
             session[c].request \in Runs /\ session[c].interrupt \in Runs
      /\ envelope \in [Firings -> Envelopes \cup {"none"}]
      /\ stopped \in BOOLEAN /\ retired \subseteq Runs /\ faults \in 0 .. MaxFaults
      /\ scope \in Scopes /\ paused \in Runs \cup {0}
  BY DEF Inv, TypeOK, SessionInv, SessionTable, RequestTable
<1>1. ASSUME NEW r \in Runs, Crash(r)
      PROVE  Inv'
  <2>1. faults' \in 0 .. MaxFaults
    BY <1>1, FaultCount DEF Crash, Inv
  <2> QED BY <1>0, <1>1, <2>1, TaskOnlyKeeps, Vocabulary DEF Crash
<1>2. ASSUME NEW r \in Runs, MarkStale(r)
      PROVE  Inv'
  <2>1. TypeOK'
    BY <1>2, TransitionKeeps, Vocabulary DEF MarkStale, Inv, TypeOK
  <2>2. (\A s \in Runs \ {r} : run'[s] = run[s]) /\ run'[r].status = "stale"
    BY <1>2, TransitionKeeps, Vocabulary DEF MarkStale, Inv
  <2>3. SessionInv' /\ ChainInv'
    BY <1>2, <2>2 DEF MarkStale, Inv, SessionInv, ChainInv
  <2> QED BY <2>1, <2>3 DEF Inv
<1>3. CASE StopAbandon
  <2>1. envelope' \in [Firings -> Envelopes \cup {"none"}]
    BY <1>3, AbandonedType DEF StopAbandon, Inv
  <2> QED BY <1>0, <1>3, <2>1, AnswerKeeps DEF StopAbandon, SessionTable, RequestTable
<1>4. CASE Release
  BY <1>0, <1>4, AnswerKeeps DEF Release, SessionTable, RequestTable
<1>5. CASE EmergencyStop
  <2>1. faults' \in 0 .. MaxFaults
    BY <1>5, FaultCount DEF EmergencyStop, Inv
  <2>2. /\ run' \in [Runs -> [status : RunStatuses \cup {"none"}, parent : Runs \cup {0},
                              envelope : Firings \cup {0}]]
        /\ \A s \in Runs : run'[s].status = "none" <=> run[s].status = "none"
    <3>1. \A s \in Runs : run'[s] \in {run[s], [run[s] EXCEPT !.status = "canceling"]}
                           /\ (run'[s] # run[s] => run[s].status \in {"queued", "running"})
      BY <1>5 DEF EmergencyStop
    <3>2. run' = [s \in Runs |-> run'[s]]
      BY <1>5 DEF EmergencyStop
    <3>3. "canceling" \in RunStatuses
      BY Vocabulary
    <3> QED BY <3>1, <3>2, <3>3 DEF Inv, TypeOK
  <2>3. /\ request' \in RequestTable
        /\ \A p \in Runs : /\ request'[p].interrupt = request[p].interrupt
                           /\ request'[p].status = "none" <=> request[p].status = "none"
    BY <1>0, <1>5 DEF EmergencyStop, RequestTable, RequestStatuses
  <2>4. envelope' \in [Firings -> Envelopes \cup {"none"}]
    BY <1>0, <1>5, Vocabulary DEF EmergencyStop
  <2>5. stopped' \in BOOLEAN /\ retired' \subseteq Runs /\ UNCHANGED <<paused, task, session, scope>>
    BY <1>5 DEF EmergencyStop
  <2>6. TypeOK'
    BY <2>1, <2>2, <2>3, <2>4, <2>5 DEF Inv, TypeOK, RequestTable
  <2>7. SessionInv' /\ ChainInv'
    BY <2>2, <2>3, <2>5 DEF Inv, SessionInv, ChainInv
  <2> QED BY <2>6, <2>7 DEF Inv
<1> QED BY <1>1, <1>2, <1>3, <1>4, <1>5

\* Every step keeps the invariant.
LEMMA InvStep == Inv /\ [Next]_vars => Inv'
<1> SUFFICES ASSUME Inv, [Next]_vars PROVE Inv'
  OBVIOUS
<1>1. CASE UNCHANGED vars
  BY <1>1 DEF vars, Inv, TypeOK, SessionInv, ChainInv
<1>2. ASSUME NEW f \in Firings, Fire(f) PROVE Inv'
  BY <1>2, FireKeeps
<1>3. ASSUME NEW r \in Runs, TaskStep(r) PROVE Inv'
  BY <1>3, TaskKeeps
<1>4. ASSUME NEW r \in Runs, Crash(r) \/ MarkStale(r) PROVE Inv'
  BY <1>4, FaultKeeps
<1>5. ASSUME NEW r \in Runs, ComesDue(r) \/ ChatRead(r) \/ InboxRead(r) \/ SweepRead(r) PROVE Inv'
  BY <1>5, ChannelKeeps
<1>6. CASE InboxCheck \/ InboxAbandon \/ ExpireUnresumed
  <2>1. 1 \in Runs
    BY ApprovalBounds DEF Runs
  <2> QED BY <1>6, <2>1, ChannelKeeps
<1>7. ASSUME NEW c \in Channels, Respond(c) \/ Refused(c) PROVE Inv'
  BY <1>7, RespondKeeps
<1>8. CASE EmergencyStop \/ StopAbandon \/ Release
  BY <1>8, FaultKeeps
<1> QED BY <1>1, <1>2, <1>3, <1>4, <1>5, <1>6, <1>7, <1>8 DEF Next

\* The inductive invariant: the columns of the three tables are typed (routers, services and
\* approvals write nothing else), a decision knows its request, and a run that has not
\* paused has none.
THEOREM InvHolds == Spec => []Inv
BY InvInit, InvStep, PTL DEF Spec

\* The columns of agent_trigger_runs, conversation_runs and approval_requests keep values
\* their code writes.
THEOREM TypeCorrect == Spec => []TypeOK
<1>1. Inv => TypeOK
  BY DEF Inv
<1> QED BY <1>1, InvHolds, PTL

-----------------------------------------------------------------------------
(* Answers *)

\* Only an accepted answer gives a run a parent.
LEMMA ParentsKept ==
    ASSUME Inv, [Next]_vars, \A c \in Channels : ~Respond(c)
    PROVE  \A r \in Runs : run'[r].parent = run[r].parent \/ run'[r].parent = 0
<1> SUFFICES ASSUME NEW r \in Runs
             PROVE  run'[r].parent = run[r].parent \/ run'[r].parent = 0
  OBVIOUS
<1>1. CASE UNCHANGED vars
  BY <1>1 DEF vars
<1>2. ASSUME NEW f \in Firings, Fire(f) PROVE run'[r].parent = run[r].parent \/ run'[r].parent = 0
  <2>1. CASE run' = run
    BY <2>1
  <2>2. CASE Room /\ run' = [run EXCEPT ![NewRun] = [status |-> "queued", parent |-> 0, envelope |-> f]]
    BY <2>2, RoomIsFree, InsertRun DEF Inv
  <2> QED BY <1>2, <2>1, <2>2 DEF Fire
<1>3. ASSUME NEW s \in Runs, TaskStep(s) PROVE run'[r].parent = run[r].parent
  <2>1. ASSUME NEW status \in RunStatuses, Transition(s, status) PROVE run'[r].parent = run[r].parent
    BY <2>1, TransitionKeeps DEF Inv
  <2>2. CASE Start(s) \/ StartCanceled(s) \/ CancelTask(s) \/ Pause(s)
    <3>1. Terminal(s, "stale") \in RunStatuses
      BY Vocabulary DEF Terminal
    <3> QED BY <2>1, <2>2, <3>1, Vocabulary DEF Start, StartCanceled, CancelTask, Pause
  <2>3. CASE EndRun(s)
    BY <2>1, <2>3, Vocabulary DEF EndRun, Terminal
  <2>4. CASE \/ Consume(s) \/ PollCancelsPause(s) \/ Record(s) \/ Deliver(s) \/ Settle(s)
             \/ EndStale(s) \/ RecordFails(s) \/ FinishFails(s)
    BY <2>4 DEF Consume, PollCancelsPause, Record, Deliver, Settle, EndStale, RecordFails, FinishFails
  <2> QED BY <1>3, <2>2, <2>3, <2>4 DEF TaskStep
<1>4. ASSUME NEW s \in Runs, Crash(s) \/ MarkStale(s) PROVE run'[r].parent = run[r].parent
  <2>1. CASE Crash(s)
    BY <2>1 DEF Crash
  <2>2. CASE MarkStale(s)
    BY <2>2, TransitionKeeps, Vocabulary DEF MarkStale, Inv
  <2> QED BY <1>4, <2>1, <2>2
<1>5. CASE EmergencyStop
  BY <1>5 DEF EmergencyStop, Inv, TypeOK
<1>6. ASSUME NEW s \in Runs,
             \/ ComesDue(s) \/ ChatRead(s) \/ InboxRead(s) \/ SweepRead(s) \/ InboxCheck
             \/ InboxAbandon \/ ExpireUnresumed \/ StopAbandon \/ Release
             \/ \E c \in Channels : Refused(c)
      PROVE  run'[r].parent = run[r].parent
  BY <1>6 DEF ComesDue, ChatRead, InboxRead, SweepRead, InboxCheck, InboxAbandon, ExpireUnresumed,
              StopAbandon, Release, Refused
<1> QED BY <1>1, <1>2, <1>3, <1>4, <1>5, <1>6 DEF Next

\* No step resumes an interrupt that was resumed.
LEMMA OneResumeStep == Inv /\ OneResumePerInterrupt /\ [Next]_vars => OneResumePerInterrupt'
<1> SUFFICES ASSUME Inv, OneResumePerInterrupt, [Next]_vars PROVE OneResumePerInterrupt'
  OBVIOUS
<1>1. CASE \A c \in Channels : ~Respond(c)
  BY <1>1, ParentsKept DEF OneResumePerInterrupt
<1>2. ASSUME NEW c \in Channels, Respond(c) PROVE OneResumePerInterrupt'
  <2>1. PICK i \in Runs, n \in Runs :
            /\ run'[n].parent = i /\ (\A s \in Runs : run[s].parent # i)
            /\ \A s \in Runs \ {n} : run'[s] = run[s]
    BY <1>2, RespondShape
  <2> QED BY <2>1 DEF OneResumePerInterrupt
<1> QED BY <1>1, <1>2

\* However chat, inbox and expiry sweep race, one run resumes an interrupt
\* (create_run_from_locked_proof).
THEOREM OneResume == Spec => []OneResumePerInterrupt
<1>1. Init => OneResumePerInterrupt
  BY DEF Init, OneResumePerInterrupt
<1> QED BY <1>1, OneResumeStep, InvHolds, PTL DEF Spec

\* What may happen to the request of p in a step that changes it: it is recorded; or it was
\* pending, and comes due, is answered in time, expires or is retired.
RequestMove(p) ==
    \/ request[p].status = "none" /\ request'[p].status = "pending"
    \/ /\ request[p].status = "pending"
       /\ request'[p].status = "decided" => ~request[p].due

\* No step changes a request in another way.
LEMMA RequestKinds ==
    ASSUME Inv, [Next]_vars, NEW p \in Runs, request'[p] # request[p]
    PROVE  RequestMove(p)
<1>0. request \in RequestTable
  BY DEF Inv, TypeOK, RequestTable
<1>1. request' # request
  OBVIOUS
<1>2. ASSUME NEW r \in Runs, Record(r) PROVE RequestMove(p)
  <2>1. p = r /\ request[r].status = "none"
    BY <1>0, <1>2 DEF Record, Inv, ChainInv, RequestTable
  <2> QED BY <1>0, <1>2, <2>1 DEF Record, RequestTable, RequestMove
<1>3. ASSUME NEW r \in Runs, ComesDue(r) PROVE RequestMove(p)
  BY <1>0, <1>3 DEF ComesDue, RequestMove, RequestTable
<1>4. CASE InboxCheck
  BY <1>0, <1>4 DEF InboxCheck, RequestMove, RequestTable
<1>5. CASE ExpireUnresumed
  BY <1>0, <1>5 DEF ExpireUnresumed, RequestMove, RequestTable
<1>6. CASE EmergencyStop
  BY <1>0, <1>6 DEF EmergencyStop, RequestMove, RequestTable
<1>7. ASSUME NEW c \in Channels, Respond(c) PROVE RequestMove(p)
  <2>1. p = session[c].interrupt
    BY <1>7, RespondShape
  <2>2. Claimable(p, c) /\ request'[p].status = IF c = "expiry" THEN "expired" ELSE "decided"
    BY <1>7, <2>1, RespondShape
  <2> QED BY <2>2 DEF Claimable, RequestMove
<1>8. ASSUME UNCHANGED request PROVE FALSE
  BY <1>1, <1>8
<1>9. ASSUME NEW r \in Runs, TaskStep(r), ~Record(r) PROVE UNCHANGED request
  BY <1>9 DEF TaskStep, Start, StartCanceled, Consume, EndRun, EndStale, CancelTask, Pause,
              PollCancelsPause, RecordFails, FinishFails, Deliver, Settle
<1>10. ASSUME NEW f \in Firings, Fire(f) PROVE UNCHANGED request
  BY <1>10 DEF Fire
<1>11. ASSUME NEW r \in Runs, Crash(r) \/ MarkStale(r) \/ ChatRead(r) \/ InboxRead(r) \/ SweepRead(r)
       PROVE UNCHANGED request
  BY <1>11 DEF Crash, MarkStale, ChatRead, InboxRead, SweepRead
<1>12. ASSUME \/ InboxAbandon \/ StopAbandon \/ Release \/ UNCHANGED vars
              \/ \E c \in Channels : Refused(c)
       PROVE UNCHANGED request
  BY <1>12 DEF InboxAbandon, StopAbandon, Release, vars, Refused
<1>13. ASSUME NEW r \in Runs, TaskStep(r) PROVE RequestMove(p)
  BY <1>2, <1>8, <1>9, <1>13
<1>14. ASSUME NEW r \in Runs,
              \/ Crash(r) \/ MarkStale(r) \/ ComesDue(r) \/ ChatRead(r) \/ InboxRead(r)
              \/ SweepRead(r)
       PROVE RequestMove(p)
  BY <1>3, <1>8, <1>11, <1>14
<1>15. ASSUME NEW c \in Channels, Respond(c) \/ Refused(c) PROVE RequestMove(p)
  BY <1>7, <1>8, <1>12, <1>15
<1>16. CASE InboxCheck \/ InboxAbandon \/ ExpireUnresumed
  BY <1>4, <1>5, <1>8, <1>12, <1>16
<1>17. CASE EmergencyStop \/ StopAbandon \/ Release
  BY <1>6, <1>8, <1>12, <1>17
<1>18. ASSUME NEW f \in Firings, Fire(f) PROVE RequestMove(p)
  BY <1>8, <1>10, <1>18
<1>19. CASE UNCHANGED vars
  BY <1>8, <1>12, <1>19
<1>20. Next \/ UNCHANGED vars
  OBVIOUS
<1>21. CASE Next
  <2>1. CASE \E r \in Runs : TaskStep(r) \/ Crash(r) \/ MarkStale(r)
    BY <1>13, <1>14, <2>1
  <2>2. CASE \E r \in Runs : ComesDue(r) \/ ChatRead(r) \/ InboxRead(r) \/ SweepRead(r)
    BY <1>14, <2>2
  <2>3. CASE \E f \in Firings : Fire(f)
    BY <1>18, <2>3
  <2>4. CASE \E c \in Channels : Respond(c) \/ Refused(c)
    BY <1>15, <2>4
  <2> QED BY <1>16, <1>17, <1>21, <2>1, <2>2, <2>3, <2>4 DEF Next
<1> QED BY <1>19, <1>20, <1>21

\* A request is decided once: claim, close, expire and stop only take pending ones, and a
\* late recording finds none.
THEOREM DecidedOnce == Spec => DecisionIsFinal
<1>1. ASSUME Inv, [Next]_vars
      PROVE  [\A p \in Runs : request[p].status \in RequestStatuses \ {"pending"}
                  => request'[p] = request[p]]_vars
  BY <1>1, RequestKinds DEF RequestMove, RequestStatuses
<1> QED BY <1>1, InvHolds, PTL DEF Spec, DecisionIsFinal

\* An answer of decide or of the chat card is not taken after expires_at (claim).
THEOREM DecidedInTime == Spec => NoLateDecision
<1>1. ASSUME Inv, [Next]_vars
      PROVE  [\A p \in Runs : request[p].due /\ request'[p].status = "decided"
                  => request[p].status = "decided"]_vars
  <2> SUFFICES ASSUME NEW p \in Runs, request[p].due, request'[p].status = "decided"
               PROVE  request[p].status = "decided"
    BY <1>1
  <2>1. CASE request'[p] = request[p]
    BY <2>1
  <2>2. CASE request'[p] # request[p]
    BY <1>1, <2>2, RequestKinds DEF RequestMove
  <2> QED BY <2>1, <2>2
<1> QED BY <1>1, InvHolds, PTL DEF Spec, NoLateDecision

-----------------------------------------------------------------------------
(* The chain of the requests of a firing *)

\* A firing has at most one first run, which no answer created.
FirstRunInv ==
    /\ \A r \in Runs : run[r].envelope # 0 =>
           /\ run[r].status # "none" /\ run[r].parent = 0
           /\ envelope[run[r].envelope] # "none"
    /\ \A r, s \in Runs : run[r].envelope # 0 /\ run[r].envelope = run[s].envelope => r = s

\* A request, and a task that records one, have an interrupted run; a firing whose success is
\* to be delivered does not.
PauseInv ==
    /\ \A r \in Runs : request[r].status # "none" \/ task[r] = "record"
           => run[r].status = "interrupted"
    /\ \A r \in Runs : task[r] = "success" => run[r].status # "interrupted"

\* The run an answer resumed continues the run of the request, and a firing that has a
\* request has the request of its first run.
LinkInv ==
    /\ \A p \in Runs : request[p].resumed # 0 =>
           /\ request[p].status \in {"decided", "expired"}
           /\ run[request[p].resumed].status # "none"
           /\ run[request[p].resumed].parent = p
    /\ \A p \in Runs : request[p].envelope # 0 =>
           /\ request[p].status # "none"
           /\ \E r \in Runs : /\ run[r].envelope = request[p].envelope
                              /\ request[r].status # "none"

\* The last request of the chain of a firing: no run went on from it to another request.
Last(p) ==
    /\ request[p].envelope # 0
    /\ request[p].resumed = 0 \/ request[request[p].resumed].status = "none"

\* The chain of a firing is one chain.
OneLast ==
    \A p, q \in Runs : Last(p) /\ Last(q) /\ request[p].envelope = request[q].envelope => p = q

\* A firing waits, or its owner raised, while its first run has paused and is not recorded, and
\* while a run that an answer resumed has not ended.
WaitsInv ==
    /\ \A r \in Runs : /\ run[r].envelope # 0 /\ run[r].status = "interrupted"
                       /\ request[r].status = "none"
           => envelope[run[r].envelope] \in {"waiting", "error"}
    /\ \A p \in Runs : /\ request[p].envelope # 0 /\ request[p].resumed # 0
                       /\ task[request[p].resumed] \in {"accepted", "running", "record"}
           => envelope[request[p].envelope] \in {"waiting", "error"}

Chains ==
    /\ FirstRunInv /\ PauseInv /\ LinkInv /\ OneLast /\ WaitsInv
    /\ PendingIsWaiting /\ ExpiredIsNotSuccess

\* The initial state has no chains.
LEMMA ChainsInit == Init => Chains
<1> SUFFICES ASSUME Init PROVE Chains
  OBVIOUS
<1>1. /\ \A r \in Runs : run[r].envelope = 0 /\ run[r].status = "none" /\ task[r] = "none"
      /\ \A p \in Runs : /\ request[p].envelope = 0 /\ request[p].resumed = 0
                         /\ request[p].status = "none"
  BY DEF Init
<1> QED BY <1>1 DEF Chains, FirstRunInv, PauseInv, LinkInv, OneLast, Last, WaitsInv,
                    PendingIsWaiting, ExpiredIsNotSuccess

\* The first run of a firing that has a request is paused, and recorded.
LEMMA FirstRunPaused ==
    ASSUME Chains, NEW p \in Runs, request[p].envelope # 0,
           NEW r \in Runs, run[r].envelope = request[p].envelope
    PROVE  run[r].status = "interrupted" /\ request[r].status # "none"
<1>1. PICK s \in Runs : run[s].envelope = request[p].envelope /\ request[s].status # "none"
  BY DEF Chains, LinkInv
<1>2. s = r
  BY <1>1 DEF Chains, FirstRunInv
<1> QED BY <1>1, <1>2 DEF Chains, PauseInv

\* The request an answered run goes on from is the only one.
LEMMA OneAnswered ==
    ASSUME Chains, NEW p \in Runs, NEW q \in Runs, request[p].resumed # 0,
           request[p].resumed = request[q].resumed
    PROVE  p = q
BY DEF Chains, LinkInv

\* A request that was not answered is the last one of its chain, and so is one whose run
\* has not paused again.
LEMMA IsLast ==
    ASSUME Inv, Chains, NEW p \in Runs, request[p].envelope # 0,
           \/ request[p].status \in {"pending", "canceled"}
           \/ /\ request[p].resumed # 0
              /\ \/ run[request[p].resumed].status # "interrupted"
                 \/ task[request[p].resumed] \in {"accepted", "running", "record"}
    PROVE  Last(p)
<1>1. request[p].resumed \in Runs \cup {0}
  BY DEF Inv, TypeOK
<1>2. CASE request[p].status \in {"pending", "canceled"}
  BY <1>2 DEF Chains, LinkInv, Last
<1>3. CASE /\ request[p].resumed # 0
           /\ \/ run[request[p].resumed].status # "interrupted"
              \/ task[request[p].resumed] \in {"accepted", "running", "record"}
  BY <1>1, <1>3 DEF Inv, ChainInv, Chains, PauseInv, Last
<1> QED BY <1>2, <1>3

\* A step that ends no run and records and answers nothing keeps the chains, if the
\* envelopes it changes are not those the chains speak of.
LEMMA StayKeeps ==
    ASSUME Inv, Chains,
           \A r \in Runs :
               /\ run'[r].envelope = run[r].envelope /\ run'[r].parent = run[r].parent
               /\ \A status \in {"none", "interrupted", "completed"} :
                      run'[r].status = status <=> run[r].status = status,
           \A p \in Runs :
               /\ request'[p].envelope = request[p].envelope
               /\ request'[p].resumed = request[p].resumed
               /\ \/ request'[p].status = request[p].status
                  \/ /\ request[p].status = "pending"
                     /\ request'[p].status \in {"canceled", "expired"},
           \A r \in Runs : \/ task'[r] = task[r] \/ task'[r] \in {"none", "settle", "waiting", "error"}
                           \/ task'[r] = "success" /\ run[r].status # "interrupted",
           \A f \in Firings : envelope[f] # "none" => envelope'[f] # "none",
           \A r \in Runs : /\ run[r].envelope # 0 /\ run[r].status = "interrupted"
                           /\ request[r].status = "none"
               => envelope'[run[r].envelope] \in {"waiting", "error", envelope[run[r].envelope]},
           \A p \in Runs : /\ request[p].envelope # 0 /\ request[p].resumed # 0
                           /\ task'[request[p].resumed] \in {"accepted", "running", "record"}
               => envelope'[request[p].envelope] \in {"waiting", "error", envelope[request[p].envelope]},
           \A p \in Runs : request'[p].status = "pending" /\ request[p].envelope # 0
               => envelope'[request[p].envelope] \in {"waiting", "error", envelope[request[p].envelope]},
           \A p \in Runs : /\ request[p].status = "expired" /\ request[p].resumed # 0
                           /\ request[p].envelope # 0
                           /\ run[request[p].resumed].status = "completed"
                           /\ envelope'[request[p].envelope] = "success"
               => envelope[request[p].envelope] = "success"
    PROVE  Chains'
<1>0. \A p \in Runs : /\ request[p].resumed \in Runs \cup {0}
                      /\ request[p].envelope \in Firings \cup {0}
                      /\ run[p].envelope \in Firings \cup {0}
  BY DEF Inv, TypeOK
<1>1. FirstRunInv'
  BY <1>0 DEF Chains, FirstRunInv
<1>2. PauseInv'
  BY DEF Chains, PauseInv
<1>3. LinkInv'
  <2>1. ASSUME NEW p \in Runs, request'[p].resumed # 0
        PROVE  /\ request'[p].status \in {"decided", "expired"}
               /\ run'[request'[p].resumed].status # "none"
               /\ run'[request'[p].resumed].parent = p
    BY <1>0, <2>1 DEF Chains, LinkInv
  <2>2. ASSUME NEW p \in Runs, request'[p].envelope # 0
        PROVE  /\ request'[p].status # "none"
               /\ \E r \in Runs : /\ run'[r].envelope = request'[p].envelope
                                  /\ request'[r].status # "none"
    <3>1. request'[p].status # "none"
      BY <2>2 DEF Chains, LinkInv
    <3>2. PICK r \in Runs : run[r].envelope = request[p].envelope /\ request[r].status # "none"
      BY <2>2 DEF Chains, LinkInv
    <3>3. run'[r].envelope = request'[p].envelope /\ request'[r].status # "none"
      BY <3>2
    <3> QED BY <3>1, <3>3
  <2> QED BY <2>1, <2>2 DEF LinkInv
<1>4. OneLast'
  <2>1. ASSUME NEW p \in Runs, Last(p)' PROVE Last(p) /\ request'[p].envelope = request[p].envelope
    BY <1>0, <2>1 DEF Last
  <2> QED BY <2>1 DEF Chains, OneLast
<1>5. WaitsInv'
  <2>1. ASSUME NEW r \in Runs, run'[r].envelope # 0, run'[r].status = "interrupted",
               request'[r].status = "none"
        PROVE  envelope'[run'[r].envelope] \in {"waiting", "error"}
    BY <2>1 DEF Chains, WaitsInv
  <2>2. ASSUME NEW p \in Runs, request'[p].envelope # 0, request'[p].resumed # 0,
               task'[request'[p].resumed] \in {"accepted", "running", "record"}
        PROVE  envelope'[request'[p].envelope] \in {"waiting", "error"}
    <3>1. task[request[p].resumed] = task'[request[p].resumed]
      BY <1>0, <2>2
    <3> QED BY <2>2, <3>1 DEF Chains, WaitsInv
  <2> QED BY <2>1, <2>2 DEF WaitsInv
<1>6. PendingIsWaiting'
  BY DEF Chains, PendingIsWaiting
<1>7. ExpiredIsNotSuccess'
  <2> SUFFICES ASSUME NEW p \in Runs, request'[p].status = "expired", request'[p].resumed # 0,
                      request'[p].envelope # 0,
                      run'[request'[p].resumed].status = "completed",
                      envelope'[request'[p].envelope] = "success"
               PROVE  FALSE
    BY DEF ExpiredIsNotSuccess
  <2>1. request[p].status = "expired"
    BY DEF Chains, LinkInv
  <2>2. run[request[p].resumed].status = "completed"
    BY <1>0
  <2> QED BY <2>1, <2>2 DEF Chains, ExpiredIsNotSuccess
<1> QED BY <1>1, <1>2, <1>3, <1>4, <1>5, <1>6, <1>7 DEF Chains

\* A step that moves a run that has not paused, and the envelope it owns with it.
LEMMA MoveKeepsChains ==
    ASSUME Inv, Chains, NEW r \in Runs, NEW status \in RunStatuses, NEW next \in Tasks,
           Transition(r, status), run[r].status \notin {"none", "interrupted"},
           task' = [task EXCEPT ![r] = next], request' = request,
           next = "accepted" => task[r] = "accepted",
           next \in {"running", "record"} => task[r] \in {"accepted", "running"},
           next = "record" => status = "interrupted",
           next = "success" => status # "interrupted",
           status = "completed" => task[r] = "running"
    PROVE  Chains'
<1>0. /\ \A p \in Runs : /\ request[p].resumed \in Runs \cup {0}
                         /\ request[p].envelope \in Firings \cup {0}
                         /\ run[p].envelope \in Firings \cup {0}
      /\ 0 \notin Firings
  BY DEF Inv, TypeOK, Firings
<1>1. request[r].status = "none"
  BY DEF Chains, PauseInv
<1>2. /\ \A s \in Runs \ {r} : run'[s] = run[s]
      /\ \A s \in Runs : run'[s].envelope = run[s].envelope /\ run'[s].parent = run[s].parent
      /\ run'[r].status = status /\ status # "none"
  BY Vocabulary DEF Transition, Inv, TypeOK
<1>3. /\ \A f \in Firings : f # run[r].envelope => envelope'[f] = envelope[f]
      /\ \A f \in Firings : f = run[r].envelope => envelope'[f] = TriggerStatusForRun(status)
  BY DEF Transition
<1>4. task'[r] = next /\ \A s \in Runs \ {r} : task'[s] = task[s]
  BY DEF Inv, TypeOK
<1>5. ASSUME NEW p \in Runs, request[p].envelope # 0
      PROVE  envelope'[request[p].envelope] = envelope[request[p].envelope]
  <2>1. request[p].envelope # run[r].envelope
    BY <1>1, <1>5, FirstRunPaused
  <2> QED BY <1>0, <1>3, <1>5, <2>1
<1>6. FirstRunInv'
  <2>1. ASSUME NEW s \in Runs, run[s].envelope # 0
        PROVE  /\ run'[s].status # "none" /\ run[s].parent = 0
               /\ envelope'[run[s].envelope] # "none"
    <3>1. TriggerStatusForRun(status) # "none"
      BY Vocabulary
    <3> QED BY <1>0, <1>2, <1>3, <2>1, <3>1 DEF Chains, FirstRunInv
  <2> QED BY <1>2, <2>1 DEF Chains, FirstRunInv
<1>7. PauseInv'
  BY <1>1, <1>2, <1>4 DEF Chains, PauseInv
<1>8. LinkInv'
  BY <1>0, <1>2 DEF Chains, LinkInv
<1>9. OneLast'
  BY DEF Chains, OneLast, Last
<1>10. WaitsInv'
  <2>1. ASSUME NEW s \in Runs, run'[s].envelope # 0, run'[s].status = "interrupted",
               request'[s].status = "none"
        PROVE  envelope'[run'[s].envelope] \in {"waiting", "error"}
    <3>1. CASE s = r
      BY <1>0, <1>2, <1>3, <2>1, <3>1 DEF TriggerStatusForRun
    <3>2. CASE s # r
      <4>1. run[s].envelope # run[r].envelope
        BY <1>2, <2>1, <3>2 DEF Chains, FirstRunInv
      <4> QED BY <1>0, <1>2, <1>3, <2>1, <3>2, <4>1 DEF Chains, WaitsInv
    <3> QED BY <3>1, <3>2
  <2>2. ASSUME NEW p \in Runs, request[p].envelope # 0, request[p].resumed # 0,
               task'[request[p].resumed] \in {"accepted", "running", "record"}
        PROVE  envelope'[request[p].envelope] \in {"waiting", "error"}
    <3>1. task[request[p].resumed] \in {"accepted", "running", "record"}
      BY <1>0, <1>4, <2>2
    <3> QED BY <1>5, <2>2, <3>1 DEF Chains, WaitsInv
  <2> QED BY <2>1, <2>2 DEF WaitsInv
<1>11. PendingIsWaiting'
  BY <1>5 DEF Chains, PendingIsWaiting
<1>12. ExpiredIsNotSuccess'
  <2> SUFFICES ASSUME NEW p \in Runs, request[p].status = "expired", request[p].resumed # 0,
                      request[p].envelope # 0,
                      run'[request[p].resumed].status = "completed",
                      envelope'[request[p].envelope] = "success"
               PROVE  FALSE
    BY DEF ExpiredIsNotSuccess
  <2>1. envelope[request[p].envelope] = "success"
    BY <1>5
  <2>2. CASE request[p].resumed = r
    <3>1. task[request[p].resumed] = "running"
      BY <1>2, <2>2
    <3> QED BY <2>1, <3>1 DEF Chains, WaitsInv
  <2>3. CASE request[p].resumed # r
    BY <1>0, <1>2, <2>1, <2>3 DEF Chains, ExpiredIsNotSuccess
  <2> QED BY <2>2, <2>3
<1> QED BY <1>6, <1>7, <1>8, <1>9, <1>10, <1>11, <1>12 DEF Chains

\* What a step of StayKeeps does that leaves runs, requests and envelopes alone.
LEMMA QuietKeeps ==
    ASSUME Inv, Chains, UNCHANGED <<envelope, run, request>>,
           \A r \in Runs : \/ task'[r] = task[r] \/ task'[r] \in {"none", "settle", "waiting", "error"}
                           \/ task'[r] = "success" /\ run[r].status # "interrupted"
    PROVE  Chains'
<1>1. \A p \in Runs : request[p].resumed \in Runs \cup {0}
  BY DEF Inv, TypeOK
<1> QED BY <1>1, StayKeeps

\* A delivery overwrites the envelope of its own firing: with a success only when the first run
\* has not paused.
LEMMA DeliverKeepsChains ==
    ASSUME Inv, Chains, NEW r \in Runs, Deliver(r)
    PROVE  Chains'
<1>0. 0 \notin Firings /\ \A p \in Runs : /\ request[p].envelope \in Firings \cup {0}
                                           /\ run[p].envelope \in Firings \cup {0}
  BY DEF Inv, TypeOK, Firings
<1>1. UNCHANGED <<run, request>> /\ task[r] \in Deliveries
  BY DEF Deliver
<1>2. task' = [task EXCEPT ![r] = "none"] /\ task \in [Runs -> Tasks]
  BY DEF Deliver, Inv, TypeOK
<1>3. /\ \A f \in Firings : f # run[r].envelope => envelope'[f] = envelope[f]
      /\ \A f \in Firings : f = run[r].envelope => envelope'[f] = task[r]
  BY DEF Deliver, Inv, TypeOK
<1>4. \A s \in Runs : task'[s] \in {"none", task[s]}
  BY <1>2
<1>5. \A f \in Firings : envelope[f] # "none" => envelope'[f] # "none"
  BY <1>1, <1>3 DEF Deliveries
<1>6. ASSUME NEW s \in Runs, run[s].envelope # 0, run[s].status = "interrupted"
      PROVE  envelope'[run[s].envelope] \in {"waiting", "error", envelope[run[s].envelope]}
  <2>1. CASE run[s].envelope = run[r].envelope
    <3>1. s = r
      BY <1>6, <2>1 DEF Chains, FirstRunInv
    <3>2. task[r] \in {"waiting", "error"}
      BY <1>1, <1>6, <3>1 DEF Chains, PauseInv, Deliveries
    <3> QED BY <1>0, <1>3, <1>6, <2>1, <3>2
  <2>2. CASE run[s].envelope # run[r].envelope
    BY <1>0, <1>3, <1>6, <2>2
  <2> QED BY <2>1, <2>2
<1>7. ASSUME NEW p \in Runs, request[p].envelope # 0
      PROVE  envelope'[request[p].envelope] \in {"waiting", "error", envelope[request[p].envelope]}
  <2>1. PICK s \in Runs : run[s].envelope = request[p].envelope
    BY <1>7 DEF Chains, LinkInv
  <2>2. run[s].status = "interrupted"
    BY <1>7, <2>1, FirstRunPaused
  <2> QED BY <1>6, <1>7, <2>1, <2>2
<1> QED BY <1>1, <1>4, <1>5, <1>6, <1>7, StayKeeps

\* The end of a firing is written by the run its last request was answered with.
LEMMA SettleKeepsChains ==
    ASSUME Inv, Chains, NEW r \in Runs, Settle(r)
    PROVE  Chains'
<1> DEFINE answered == {p \in Runs : request[p].resumed = r /\ request[p].envelope # 0}
<1>0. /\ 0 \notin Firings /\ r # 0
      /\ \A p \in Runs : /\ request[p].envelope \in Firings \cup {0}
                         /\ request[p].resumed \in Runs \cup {0}
                         /\ run[p].envelope \in Firings \cup {0}
  BY ApprovalBounds DEF Inv, TypeOK, Firings, Runs
<1>1. UNCHANGED <<run, request>> /\ task[r] = "settle"
  BY DEF Settle
<1>2. task'[r] = "none" /\ \A s \in Runs \ {r} : task'[s] = task[s]
  BY DEF Settle, Inv, TypeOK
<1>3. ASSUME NEW f \in Firings, envelope'[f] # envelope[f]
      PROVE  /\ run[r].status # "interrupted" /\ envelope[f] = "waiting"
             /\ \E p \in Runs : /\ request[p].resumed = r /\ request[p].envelope = f
                                /\ Last(p)
                                /\ envelope'[f] = Outcome(run[r].status, request[p].status)
  <2>1. /\ run[r].status # "interrupted" /\ envelope[f] = "waiting"
        /\ \E p \in answered : request[p].envelope = f
        /\ envelope'[f] = Outcome(run[r].status, request[CHOOSE p \in answered : TRUE].status)
    BY <1>3 DEF Settle, Settles
  <2>2. PICK p \in answered : request[p].envelope = f
    BY <2>1
  <2>3. (CHOOSE q \in answered : TRUE) \in answered
    BY <2>2
  <2>4. (CHOOSE q \in answered : TRUE) = p
    BY <1>0, <2>2, <2>3, OneAnswered
  <2>5. Last(p)
    BY <1>0, <2>1, <2>2, IsLast
  <2> QED BY <2>1, <2>2, <2>4, <2>5
<1>4. \A f \in Firings : envelope[f] # "none" => envelope'[f] # "none"
  BY <1>3 DEF Outcome
<1>5. ASSUME NEW s \in Runs, run[s].envelope # 0, run[s].status = "interrupted",
             request[s].status = "none"
      PROVE  envelope'[run[s].envelope] = envelope[run[s].envelope]
  BY <1>0, <1>3, <1>5, FirstRunPaused
<1>6. ASSUME NEW p \in Runs, Last(p), request[p].resumed # r
      PROVE  envelope'[request[p].envelope] = envelope[request[p].envelope]
  <2>1. request[p].envelope \in Firings
    BY <1>0, <1>6 DEF Last
  <2> QED BY <1>3, <1>6, <2>1 DEF Chains, OneLast
<1>7. ASSUME NEW p \in Runs, request[p].envelope # 0, request[p].resumed # 0,
             task'[request[p].resumed] \in {"accepted", "running", "record"}
      PROVE  envelope'[request[p].envelope] = envelope[request[p].envelope]
  <2>1. request[p].resumed # r /\ task[request[p].resumed] = task'[request[p].resumed]
    BY <1>0, <1>2, <1>7
  <2>2. Last(p)
    BY <1>7, <2>1, IsLast
  <2> QED BY <1>6, <2>1, <2>2
<1>8. ASSUME NEW p \in Runs, request[p].status = "pending", request[p].envelope # 0
      PROVE  envelope'[request[p].envelope] = envelope[request[p].envelope]
  <2>1. Last(p) /\ request[p].resumed # r
    BY <1>0, <1>8, IsLast DEF Chains, LinkInv
  <2> QED BY <1>6, <2>1
<1>9. ASSUME NEW p \in Runs, request[p].status = "expired", request[p].resumed # 0,
             request[p].envelope # 0, run[request[p].resumed].status = "completed",
             envelope'[request[p].envelope] = "success"
      PROVE  envelope[request[p].envelope] = "success"
  <2>1. Last(p)
    BY <1>9, IsLast
  <2>2. CASE request[p].resumed = r
    <3>1. request[p].envelope \in Firings
      BY <1>0, <1>9
    <3>2. ASSUME envelope'[request[p].envelope] # envelope[request[p].envelope]
          PROVE  FALSE
      <4>1. envelope'[request[p].envelope] = Outcome(run[r].status, request[p].status)
        BY <1>0, <1>3, <2>2, <3>1, <3>2, OneAnswered
      <4> QED BY <1>9, <4>1 DEF Outcome
    <3> QED BY <1>9, <3>2
  <2>3. CASE request[p].resumed # r
    BY <1>6, <1>9, <2>1, <2>3
  <2> QED BY <2>2, <2>3
<1> QED BY <1>0, <1>1, <1>2, <1>4, <1>5, <1>7, <1>8, <1>9, StayKeeps

\* abandon ends a firing whose last request was canceled.
LEMMA AbandonKeeps ==
    ASSUME Inv, Chains, NEW ids \in SUBSET Runs, envelope' = Abandoned(ids),
           UNCHANGED <<run, request, task>>
    PROVE  Chains'
<1>0. /\ 0 \notin Firings
      /\ \A p \in Runs : /\ request[p].envelope \in Firings \cup {0}
                         /\ request[p].resumed \in Runs \cup {0}
                         /\ run[p].envelope \in Firings \cup {0}
  BY DEF Inv, TypeOK, Firings
<1>1. ASSUME NEW f \in Firings, envelope'[f] # envelope[f]
      PROVE  /\ envelope'[f] = "failed"
             /\ \A p \in Runs : request[p].envelope = f => request[p].status # "pending"
             /\ \E p \in Runs : request[p].envelope = f /\ request[p].status = "canceled"
  BY <1>1 DEF Abandoned
<1>2. \A f \in Firings : envelope[f] # "none" => envelope'[f] # "none"
  BY <1>1
<1>3. ASSUME NEW s \in Runs, run[s].envelope # 0, request[s].status = "none"
      PROVE  envelope'[run[s].envelope] = envelope[run[s].envelope]
  BY <1>0, <1>1, <1>3, FirstRunPaused
<1>4. ASSUME NEW p \in Runs, Last(p), request[p].resumed # 0
      PROVE  envelope'[request[p].envelope] = envelope[request[p].envelope]
  <2>1. request[p].envelope \in Firings
    BY <1>0, <1>4 DEF Last
  <2>2. ASSUME envelope'[request[p].envelope] # envelope[request[p].envelope]
        PROVE  FALSE
    <3>1. PICK q \in Runs : /\ request[q].envelope = request[p].envelope
                            /\ request[q].status = "canceled"
      BY <1>1, <2>1, <2>2
    <3>2. Last(q)
      BY <1>0, <2>1, <3>1, IsLast
    <3>3. q = p
      BY <1>4, <3>1, <3>2 DEF Chains, OneLast
    <3> QED BY <1>4, <3>1, <3>3 DEF Chains, LinkInv
  <2> QED BY <2>2
<1>5. ASSUME NEW p \in Runs, request[p].envelope # 0, request[p].resumed # 0,
             task'[request[p].resumed] \in {"accepted", "running", "record"}
      PROVE  envelope'[request[p].envelope] = envelope[request[p].envelope]
  BY <1>4, <1>5, IsLast
<1>6. ASSUME NEW p \in Runs, request[p].status = "pending", request[p].envelope # 0
      PROVE  envelope'[request[p].envelope] = envelope[request[p].envelope]
  BY <1>0, <1>1, <1>6
<1>7. ASSUME NEW p \in Runs, request[p].envelope # 0,
             envelope'[request[p].envelope] = "success"
      PROVE  envelope[request[p].envelope] = "success"
  BY <1>0, <1>1, <1>7
<1> QED BY <1>0, <1>2, <1>3, <1>5, <1>6, <1>7, StayKeeps

\* A stop cancels every pending request, and changes no envelope of a first run that paused.
LEMMA StopKeepsChains ==
    ASSUME Inv, Chains, EmergencyStop
    PROVE  Chains'
<1>0. /\ 0 \notin Firings
      /\ \A p \in Runs : /\ request[p].envelope \in Firings \cup {0}
                         /\ request[p].resumed \in Runs \cup {0}
                         /\ run[p].envelope \in Firings \cup {0}
  BY DEF Inv, TypeOK, Firings
<1>1. \A r \in Runs :
          /\ run'[r].envelope = run[r].envelope /\ run'[r].parent = run[r].parent
          /\ \A status \in {"none", "interrupted", "completed"} :
                 run'[r].status = status <=> run[r].status = status
  BY DEF EmergencyStop, Inv, TypeOK
<1>2. \A p \in Runs :
          /\ request'[p].envelope = request[p].envelope
          /\ request'[p].resumed = request[p].resumed
          /\ request'[p].status # "pending"
          /\ \/ request'[p].status = request[p].status
             \/ request[p].status = "pending" /\ request'[p].status = "canceled"
  BY DEF EmergencyStop, Inv, TypeOK
<1>3. task' = task
  BY DEF EmergencyStop
<1>4. ASSUME NEW f \in Firings, envelope'[f] # envelope[f]
      PROVE  /\ envelope'[f] = "canceling"
             /\ \E r \in Runs : run[r].envelope = f /\ run[r].status \in {"queued", "running"}
  BY <1>4 DEF EmergencyStop, TriggerStatusForRun
<1>5. \A f \in Firings : envelope[f] # "none" => envelope'[f] # "none"
  BY <1>4
<1>6. ASSUME NEW s \in Runs, run[s].envelope # 0, run[s].status = "interrupted"
      PROVE  envelope'[run[s].envelope] = envelope[run[s].envelope]
  BY <1>0, <1>4, <1>6 DEF Chains, FirstRunInv
<1>7. ASSUME NEW p \in Runs, request[p].envelope # 0
      PROVE  envelope'[request[p].envelope] = envelope[request[p].envelope]
  <2>1. PICK s \in Runs : run[s].envelope = request[p].envelope
    BY <1>7 DEF Chains, LinkInv
  <2> QED BY <1>6, <1>7, <2>1, FirstRunPaused
<1> QED BY <1>1, <1>2, <1>3, <1>5, <1>6, <1>7, StayKeeps

\* Recording a pause puts a request at the end of its chain, whose firing waits.
LEMMA RecordKeepsChains ==
    ASSUME Inv, Chains, NEW r \in Runs, Record(r)
    PROVE  Chains'
<1> DEFINE next == IF Resumed(r) THEN "settle" ELSE "waiting"
           given == IF Resumed(r) THEN Inherited(r) ELSE run[r].envelope
<1>0. /\ 0 \notin Firings /\ r # 0
      /\ \A p \in Runs : /\ request[p].envelope \in Firings \cup {0}
                         /\ request[p].resumed \in Runs \cup {0}
                         /\ run[p].envelope \in Firings \cup {0}
  BY ApprovalBounds DEF Inv, TypeOK, Firings, Runs
<1>1. /\ task[r] = "record" /\ UNCHANGED <<envelope, run>>
      /\ task'[r] \in {"settle", "waiting"} /\ \A s \in Runs \ {r} : task'[s] = task[s]
  BY DEF Record, Inv, TypeOK
<1>2. /\ request[r].status = "none" /\ run[r].status = "interrupted"
      /\ request[r].envelope = 0 /\ request[r].resumed = 0
  BY <1>1 DEF Inv, ChainInv, Chains, PauseInv, LinkInv
<1>3. CASE paused = 0
  BY <1>1, <1>3, QuietKeeps DEF Record
<1>4. CASE paused # 0
  <2>1. /\ \A p \in Runs \ {r} : request'[p] = request[p]
        /\ request'[r].status = "pending" /\ request'[r].resumed = 0
        /\ request'[r].envelope = given
    BY <1>4 DEF Record, Inv, TypeOK
  <2>2. CASE given = 0
    <3>1. \A p \in Runs : /\ request'[p].envelope = request[p].envelope
                          /\ request'[p].resumed = request[p].resumed
      BY <1>2, <2>1, <2>2
    <3>2. FirstRunInv' /\ PauseInv'
      BY <1>1, <1>2, <2>1 DEF Chains, FirstRunInv, PauseInv
    <3>3. LinkInv'
      <4>1. ASSUME NEW p \in Runs, request[p].resumed # 0
            PROVE  request'[p].status \in {"decided", "expired"}
        BY <1>2, <2>1, <4>1 DEF Chains, LinkInv
      <4>2. ASSUME NEW p \in Runs, request[p].envelope # 0
            PROVE  request'[p].status # "none"
        BY <1>2, <2>1, <4>2 DEF Chains, LinkInv
      <4>3. \A p \in Runs : request[p].status # "none" => request'[p].status # "none"
        BY <2>1
      <4> QED BY <1>1, <3>1, <4>1, <4>2, <4>3 DEF Chains, LinkInv
    <3>4. OneLast'
      <4>1. ASSUME NEW p \in Runs, Last(p)' PROVE Last(p)
        BY <1>0, <2>1, <3>1, <4>1 DEF Last
      <4> QED BY <3>1, <4>1 DEF Chains, OneLast
    <3>5. WaitsInv'
      <4>1. ASSUME NEW p \in Runs, request[p].resumed # 0,
                   task'[request[p].resumed] \in {"accepted", "running", "record"}
            PROVE  task[request[p].resumed] \in {"accepted", "running", "record"}
        BY <1>0, <1>1, <4>1
      <4> QED BY <1>1, <2>1, <3>1, <4>1 DEF Chains, WaitsInv
    <3>6. PendingIsWaiting' /\ ExpiredIsNotSuccess'
      BY <1>1, <2>1, <2>2, <3>1 DEF Chains, PendingIsWaiting, ExpiredIsNotSuccess
    <3> QED BY <3>2, <3>3, <3>4, <3>5, <3>6 DEF Chains
  <2>3. CASE given # 0 /\ ~Resumed(r)
    <3>1. given = run[r].envelope
      BY <2>3
    <3>2. \A p \in Runs : request[p].envelope # given
      BY <1>2, <2>3, <3>1, FirstRunPaused
    <3>3. envelope[given] \in {"waiting", "error"}
      BY <1>2, <2>3, <3>1 DEF Chains, WaitsInv
    <3>4. FirstRunInv' /\ PauseInv'
      BY <1>1, <1>2, <2>1 DEF Chains, FirstRunInv, PauseInv
    <3>5. LinkInv'
      <4>1. ASSUME NEW p \in Runs, request'[p].envelope # 0
            PROVE  /\ request'[p].status # "none"
                   /\ \E s \in Runs : /\ run'[s].envelope = request'[p].envelope
                                      /\ request'[s].status # "none"
        <5>1. CASE p = r
          BY <1>1, <2>1, <3>1, <5>1
        <5>2. CASE p # r
          <6>1. PICK s \in Runs : run[s].envelope = request[p].envelope /\ request[s].status # "none"
            BY <2>1, <4>1, <5>2 DEF Chains, LinkInv
          <6>2. s # r
            BY <1>2, <6>1
          <6> QED BY <1>1, <2>1, <4>1, <5>2, <6>1, <6>2 DEF Chains, LinkInv
        <5> QED BY <5>1, <5>2
      <4> QED BY <1>1, <2>1, <4>1 DEF Chains, LinkInv
    <3>6. OneLast'
      <4>1. ASSUME NEW p \in Runs, p # r, Last(p)' PROVE Last(p) /\ request'[p] = request[p]
        BY <1>0, <1>2, <2>1, <4>1 DEF Last
      <4> QED BY <2>1, <3>2, <4>1 DEF Chains, OneLast
    <3>7. WaitsInv'
      <4>1. ASSUME NEW s \in Runs, request'[s].status = "none" PROVE request[s].status = "none"
        BY <2>1, <4>1
      <4>2. ASSUME NEW p \in Runs, request'[p].envelope # 0, request'[p].resumed # 0,
                   task'[request'[p].resumed] \in {"accepted", "running", "record"}
            PROVE  envelope'[request'[p].envelope] \in {"waiting", "error"}
        <5>1. p # r /\ request'[p] = request[p]
          BY <2>1, <4>2
        <5> QED BY <1>0, <1>1, <4>2, <5>1 DEF Chains, WaitsInv
      <4> QED BY <1>1, <4>1, <4>2 DEF Chains, WaitsInv
    <3>8. PendingIsWaiting' /\ ExpiredIsNotSuccess'
      BY <1>1, <2>1, <3>3 DEF Chains, PendingIsWaiting, ExpiredIsNotSuccess
    <3> QED BY <3>4, <3>5, <3>6, <3>7, <3>8 DEF Chains
  <2>4. CASE given # 0 /\ Resumed(r)
    <3>1. PICK p0 \in Runs : request[p0].resumed = r /\ request[p0].envelope = given
      BY <2>4 DEF Inherited
    <3>2. Last(p0) /\ p0 # r
      BY <1>0, <1>2, <2>4, <3>1 DEF Last
    <3>3. envelope[given] \in {"waiting", "error"}
      BY <1>0, <1>1, <2>4, <3>1 DEF Chains, WaitsInv
    <3>4. FirstRunInv' /\ PauseInv'
      BY <1>1, <1>2, <2>1 DEF Chains, FirstRunInv, PauseInv
    <3>5. LinkInv'
      <4>1. ASSUME NEW p \in Runs, request'[p].envelope # 0
            PROVE  /\ request'[p].status # "none"
                   /\ \E s \in Runs : /\ run'[s].envelope = request'[p].envelope
                                      /\ request'[s].status # "none"
        <5>1. PICK q \in Runs : request[q].envelope = request'[p].envelope /\ request[q].envelope # 0
          BY <2>1, <3>1, <4>1
        <5>2. PICK s \in Runs : run[s].envelope = request[q].envelope /\ request[s].status # "none"
          BY <5>1 DEF Chains, LinkInv
        <5>3. s # r
          BY <1>2, <5>2
        <5>4. request'[p].status # "none"
          BY <2>1, <4>1 DEF Chains, LinkInv
        <5> QED BY <1>1, <2>1, <5>1, <5>2, <5>3, <5>4
      <4> QED BY <1>1, <2>1, <4>1 DEF Chains, LinkInv
    <3>6. OneLast'
      <4>1. ASSUME NEW p \in Runs, p # r, Last(p)' PROVE Last(p) /\ request'[p] = request[p]
        BY <1>0, <1>2, <2>1, <4>1 DEF Last
      <4>2. ASSUME NEW p \in Runs, p # r, Last(p)' PROVE request'[p].envelope # given
        <5>1. p # p0
          BY <1>0, <2>1, <3>1, <3>2, <4>2 DEF Last
        <5> QED BY <3>1, <3>2, <4>1, <4>2, <5>1 DEF Chains, OneLast
      <4> QED BY <2>1, <4>1, <4>2 DEF Chains, OneLast
    <3>7. WaitsInv'
      <4>1. ASSUME NEW s \in Runs, request'[s].status = "none" PROVE request[s].status = "none"
        BY <2>1, <4>1
      <4>2. ASSUME NEW p \in Runs, request'[p].envelope # 0, request'[p].resumed # 0,
                   task'[request'[p].resumed] \in {"accepted", "running", "record"}
            PROVE  envelope'[request'[p].envelope] \in {"waiting", "error"}
        <5>1. p # r /\ request'[p] = request[p]
          BY <2>1, <4>2
        <5> QED BY <1>0, <1>1, <4>2, <5>1 DEF Chains, WaitsInv
      <4> QED BY <1>1, <4>1, <4>2 DEF Chains, WaitsInv
    <3>8. PendingIsWaiting' /\ ExpiredIsNotSuccess'
      BY <1>1, <2>1, <3>3 DEF Chains, PendingIsWaiting, ExpiredIsNotSuccess
    <3> QED BY <3>4, <3>5, <3>6, <3>7, <3>8 DEF Chains
  <2> QED BY <2>2, <2>3, <2>4
<1> QED BY <1>3, <1>4

\* An accepted answer links the request to a fresh run; its firing goes on waiting.
LEMMA RespondKeepsChains ==
    ASSUME Inv, Chains, NEW c \in Channels, Respond(c)
    PROVE  Chains'
<1> DEFINE i == session[c].interrupt
           n == NewRun
<1>0. /\ 0 \notin Firings /\ 0 \notin Runs
      /\ \A p \in Runs : /\ request[p].envelope \in Firings \cup {0}
                         /\ request[p].resumed \in Runs \cup {0}
                         /\ run[p].envelope \in Firings \cup {0}
  BY ApprovalBounds DEF Inv, TypeOK, Firings, Runs
<1>1. /\ i \in Runs /\ n \in Runs /\ n # i
      /\ run[n].status = "none" /\ request[n].status = "none" /\ request'[n].status = "none"
      /\ run'[n].status = "queued" /\ run'[n].parent = i
      /\ \A s \in Runs \ {n} : run'[s] = run[s]
      /\ \A s \in Runs \ {i} : request'[s] = request[s]
  BY RespondShape
<1>2. run'[n].envelope = 0
  BY <1>1 DEF Respond, Inv, TypeOK
<1>3. envelope' = envelope /\ task'[n] = "accepted" /\ \A s \in Runs \ {n} : task'[s] = task[s]
  BY <1>1, Vocabulary DEF Respond, Inv, TypeOK
<1>4. /\ request'[i].envelope = request[i].envelope
      /\ \/ request'[i] = request[i]
         \/ /\ request[i].status = "pending" /\ request'[i].resumed = n
            /\ request'[i].status \in {"decided", "expired"}
  <2>1. CASE request[i].status # "none" /\ request[i].interrupt = i
    <3>1. request[i].status = "pending"
      BY <2>1 DEF Respond, Accepts, Claimable
    <3>2. request' = [request EXCEPT ![i].status = IF c = "expiry" THEN "expired" ELSE "decided",
                                     ![i].resumed = n]
      BY <2>1 DEF Respond
    <3> QED BY <1>1, <3>1, <3>2 DEF Inv, TypeOK
  <2>2. CASE ~(request[i].status # "none" /\ request[i].interrupt = i)
    BY <2>2 DEF Respond
  <2> QED BY <2>1, <2>2
<1>5. \A p \in Runs : /\ request'[p].envelope = request[p].envelope
                      /\ request'[p].status = "none" <=> request[p].status = "none"
                      /\ request'[p].status = "pending" => request[p].status = "pending"
  BY <1>1, <1>4
<1>7. \A p \in Runs : request[p].resumed # n
  BY <1>0, <1>1 DEF Chains, LinkInv
<1>8. \A s \in Runs : run'[s].envelope # 0 => s # n /\ run'[s] = run[s]
  BY <1>1, <1>2
<1>9. FirstRunInv'
  BY <1>3, <1>8 DEF Chains, FirstRunInv
<1>10. PauseInv'
  BY <1>1, <1>3, <1>5 DEF Chains, PauseInv
<1>11. LinkInv'
  <2>1. ASSUME NEW p \in Runs, request'[p].resumed # 0
        PROVE  /\ request'[p].status \in {"decided", "expired"}
               /\ run'[request'[p].resumed].status # "none"
               /\ run'[request'[p].resumed].parent = p
    <3>1. CASE request'[p] = request[p]
      BY <1>0, <1>1, <1>7, <2>1, <3>1 DEF Chains, LinkInv
    <3>2. CASE request'[p] # request[p]
      BY <1>1, <1>4, <3>2
    <3> QED BY <3>1, <3>2
  <2>2. ASSUME NEW p \in Runs, request'[p].envelope # 0
        PROVE  /\ request'[p].status # "none"
               /\ \E s \in Runs : /\ run'[s].envelope = request'[p].envelope
                                  /\ request'[s].status # "none"
    <3>1. PICK s \in Runs : run[s].envelope = request[p].envelope /\ request[s].status # "none"
      BY <1>5, <2>2 DEF Chains, LinkInv
    <3>2. s # n
      BY <1>1, <3>1
    <3>3. request'[p].status # "none"
      BY <1>5, <2>2 DEF Chains, LinkInv
    <3> QED BY <1>1, <1>5, <3>1, <3>2, <3>3
  <2> QED BY <2>1, <2>2 DEF LinkInv
<1>12. OneLast'
  <2>1. ASSUME NEW p \in Runs, Last(p)' PROVE Last(p)
    <3>1. CASE request'[p] = request[p]
      BY <1>0, <1>5, <2>1, <3>1 DEF Last
    <3>2. CASE request'[p] # request[p]
      <4>1. request[p].status = "pending" /\ request[p].envelope # 0
        BY <1>1, <1>4, <1>5, <2>1, <3>2 DEF Last
      <4> QED BY <4>1, IsLast
    <3> QED BY <3>1, <3>2
  <2> QED BY <1>5, <2>1 DEF Chains, OneLast
<1>13. WaitsInv'
  <2>1. ASSUME NEW s \in Runs, run'[s].envelope # 0, run'[s].status = "interrupted",
               request'[s].status = "none"
        PROVE  envelope'[run'[s].envelope] \in {"waiting", "error"}
    BY <1>3, <1>5, <1>8, <2>1 DEF Chains, WaitsInv
  <2>2. ASSUME NEW p \in Runs, request'[p].envelope # 0, request'[p].resumed # 0,
               task'[request'[p].resumed] \in {"accepted", "running", "record"}
        PROVE  envelope'[request'[p].envelope] \in {"waiting", "error"}
    <3>1. CASE request'[p] = request[p]
      BY <1>0, <1>3, <1>7, <2>2, <3>1 DEF Chains, WaitsInv
    <3>2. CASE request'[p] # request[p]
      BY <1>1, <1>3, <1>4, <1>5, <2>2, <3>2 DEF Chains, PendingIsWaiting
    <3> QED BY <3>1, <3>2
  <2> QED BY <2>1, <2>2 DEF WaitsInv
<1>14. PendingIsWaiting'
  BY <1>3, <1>5 DEF Chains, PendingIsWaiting
<1>15. ExpiredIsNotSuccess'
  <2>1. ASSUME NEW p \in Runs, request'[p].status = "expired", request'[p].resumed # 0,
               request'[p].envelope # 0, run'[request'[p].resumed].status = "completed"
        PROVE  envelope'[request'[p].envelope] # "success"
    <3>1. CASE request'[p] = request[p]
      BY <1>0, <1>1, <1>3, <1>7, <2>1, <3>1 DEF Chains, ExpiredIsNotSuccess
    <3>2. CASE request'[p] # request[p]
      BY <1>1, <1>4, <2>1, <3>2
    <3> QED BY <3>1, <3>2
  <2> QED BY <2>1 DEF ExpiredIsNotSuccess
<1> QED BY <1>9, <1>10, <1>11, <1>12, <1>13, <1>14, <1>15 DEF Chains

\* A firing starts a chain of its own.
LEMMA FireKeepsChains ==
    ASSUME Inv, Chains, NEW f \in Firings, Fire(f)
    PROVE  Chains'
<1>0. /\ 0 \notin Firings /\ 0 \notin Runs
      /\ \A p \in Runs : /\ request[p].envelope \in Firings \cup {0}
                         /\ request[p].resumed \in Runs \cup {0}
                         /\ run[p].envelope \in Firings \cup {0}
  BY ApprovalBounds DEF Inv, TypeOK, Firings, Runs
<1>1. request' = request /\ envelope[f] = "none"
  BY DEF Fire, NextFiring
<1>2. \A r \in Runs : run[r].envelope # f
  BY <1>0, <1>1 DEF Chains, FirstRunInv
<1>3. \A p \in Runs : request[p].envelope # f
  BY <1>0, <1>2 DEF Chains, LinkInv
<1>4. CASE envelope' = [envelope EXCEPT ![f] = "skipped"] /\ UNCHANGED <<run, task>>
  <2>1. \A g \in Firings \ {f} : envelope'[g] = envelope[g]
    BY <1>4 DEF Inv, TypeOK
  <2>2. envelope'[f] # "none"
    BY <1>4 DEF Inv, TypeOK
  <2> QED BY <1>0, <1>1, <1>2, <1>3, <1>4, <2>1, <2>2, StayKeeps
<1>5. CASE /\ Room
           /\ run' = [run EXCEPT ![NewRun] = [status |-> "queued", parent |-> 0, envelope |-> f]]
           /\ envelope' = [envelope EXCEPT ![f] = TriggerStatusForRun("queued")]
           /\ task' = [task EXCEPT ![NewRun] = "accepted"]
  <2> DEFINE n == NewRun
  <2>1. n \in Runs /\ run[n].status = "none" /\ request[n].status = "none"
    BY <1>5, RoomIsFree DEF Inv, ChainInv
  <2>2. /\ run'[n].status = "queued" /\ run'[n].parent = 0 /\ run'[n].envelope = f
        /\ \A s \in Runs \ {n} : run'[s] = run[s]
        /\ task'[n] = "accepted" /\ \A s \in Runs \ {n} : task'[s] = task[s]
    BY <1>5, <2>1 DEF Inv, TypeOK
  <2>3. /\ envelope'[f] # "none"
        /\ \A g \in Firings \ {f} : envelope'[g] = envelope[g]
    BY <1>5, Vocabulary DEF Inv, TypeOK
  <2>4. \A p \in Runs : request[p].resumed # n
    BY <1>0, <2>1 DEF Chains, LinkInv
  <2>5. FirstRunInv'
    BY <1>0, <1>2, <2>1, <2>2, <2>3 DEF Chains, FirstRunInv
  <2>6. PauseInv'
    BY <1>1, <2>1, <2>2 DEF Chains, PauseInv
  <2>7. LinkInv'
    <3>1. \A s \in Runs : request[s].status # "none" => run'[s] = run[s]
      BY <2>1, <2>2
    <3>2. \A p \in Runs : request[p].resumed # 0 => run'[request[p].resumed] = run[request[p].resumed]
      BY <1>0, <2>2, <2>4
    <3> QED BY <1>1, <3>1, <3>2 DEF Chains, LinkInv
  <2>8. OneLast'
    BY <1>1 DEF Chains, OneLast, Last
  <2>9. WaitsInv'
    <3>1. ASSUME NEW s \in Runs, run'[s].envelope # 0, run'[s].status = "interrupted",
                 request[s].status = "none"
          PROVE  envelope'[run'[s].envelope] \in {"waiting", "error"}
      <4>1. s # n
        BY <2>2, <3>1
      <4> QED BY <1>0, <1>2, <2>2, <2>3, <3>1, <4>1 DEF Chains, WaitsInv
    <3>2. ASSUME NEW p \in Runs, request[p].envelope # 0, request[p].resumed # 0,
                 task'[request[p].resumed] \in {"accepted", "running", "record"}
          PROVE  envelope'[request[p].envelope] \in {"waiting", "error"}
      BY <1>0, <1>3, <2>2, <2>3, <2>4, <3>2 DEF Chains, WaitsInv
    <3> QED BY <1>1, <3>1, <3>2 DEF WaitsInv
  <2>10. PendingIsWaiting'
    BY <1>0, <1>1, <1>3, <2>3 DEF Chains, PendingIsWaiting
  <2>11. ExpiredIsNotSuccess'
    BY <1>0, <1>1, <1>3, <2>2, <2>3, <2>4 DEF Chains, ExpiredIsNotSuccess
  <2> QED BY <2>5, <2>6, <2>7, <2>8, <2>9, <2>10, <2>11 DEF Chains
<1> QED BY <1>4, <1>5 DEF Fire

\* The steps of the owner's task, a lost task and the sweep of stale runs.
LEMMA TaskKeepsChains ==
    ASSUME Inv, Chains, NEW r \in Runs, TaskStep(r) \/ Crash(r) \/ MarkStale(r)
    PROVE  Chains'
<1>0. task \in [Runs -> Tasks]
  BY DEF Inv, TypeOK
<1>1. CASE Start(r) \/ StartCanceled(r) \/ Pause(r)
  BY <1>1, MoveKeepsChains, Vocabulary DEF Start, StartCanceled, Pause
<1>2. CASE EndRun(r)
  <2>1. Terminal(r, "completed") \in {"completed", "canceled"}
        /\ Terminal(r, "failed") \in {"failed", "canceled"}
    BY DEF Terminal
  <2>2. {"completed", "failed", "canceled"} \subseteq RunStatuses \ {"interrupted"}
    BY Vocabulary
  <2> QED BY <1>2, <2>1, <2>2, MoveKeepsChains, Vocabulary DEF EndRun
<1>3. CASE MarkStale(r)
  <2>1. task' = [task EXCEPT ![r] = task[r]]
    BY <1>0, <1>3 DEF MarkStale
  <2>2. task[r] # "record"
    BY <1>3 DEF MarkStale, Chains, PauseInv
  <2>3. task[r] \in Tasks
    BY <1>0
  <2> QED BY <1>3, <2>1, <2>2, <2>3, MoveKeepsChains, Vocabulary DEF MarkStale
<1>4. CASE \/ Consume(r) \/ PollCancelsPause(r) \/ Crash(r) \/ EndStale(r)
           \/ RecordFails(r) \/ FinishFails(r)
  <2>1. UNCHANGED <<envelope, run, request>>
    BY <1>4 DEF Consume, PollCancelsPause, Crash, EndStale, RecordFails, FinishFails
  <2>2. \A s \in Runs \ {r} : task'[s] = task[s]
    BY <1>0, <1>4 DEF Consume, PollCancelsPause, Crash, EndStale, RecordFails, FinishFails
  <2>3. \/ task'[r] = task[r] \/ task'[r] \in {"none", "settle", "error"}
        \/ task'[r] = "success" /\ run[r].status # "interrupted"
    BY <1>0, <1>4 DEF Consume, PollCancelsPause, Crash, EndStale, RecordFails, FinishFails
  <2> QED BY <2>1, <2>2, <2>3, QuietKeeps
<1>5. CASE Record(r)
  BY <1>5, RecordKeepsChains
<1>6. CASE Deliver(r)
  BY <1>6, DeliverKeepsChains
<1>7. CASE Settle(r)
  BY <1>7, SettleKeepsChains
<1>8. CASE CancelTask(r)
  <2>1. \E next \in {"settle", "none", "error"} : task' = [task EXCEPT ![r] = next]
    BY <1>8 DEF CancelTask
  <2>2. \E status \in {"canceled", "stale"} : Transition(r, status)
    BY <1>8 DEF CancelTask, Terminal
  <2>3. run[r].status \in {"running", "canceling"} /\ request' = request
    BY <1>8 DEF CancelTask
  <2> QED BY <2>1, <2>2, <2>3, MoveKeepsChains, Vocabulary
<1> QED BY <1>1, <1>2, <1>3, <1>4, <1>5, <1>6, <1>7, <1>8 DEF TaskStep

\* The channels read, close and expire, a stop is placed, carried through and released.
LEMMA ChannelKeepsChains ==
    ASSUME Inv, Chains, NEW p \in Runs,
           \/ ComesDue(p) \/ ChatRead(p) \/ InboxRead(p) \/ SweepRead(p)
           \/ InboxCheck \/ InboxAbandon \/ ExpireUnresumed
           \/ EmergencyStop \/ StopAbandon \/ Release
           \/ \E c \in Channels : Refused(c)
    PROVE  Chains'
<1>0. \A q \in Runs : request[q].resumed \in Runs \cup {0}
  BY DEF Inv, TypeOK
<1>1. CASE ChatRead(p) \/ InboxRead(p) \/ SweepRead(p) \/ Release \/ \E c \in Channels : Refused(c)
  BY <1>1, QuietKeeps DEF ChatRead, InboxRead, SweepRead, Release, Refused
<1>2. CASE ComesDue(p) \/ InboxCheck \/ ExpireUnresumed
  <2>1. UNCHANGED <<envelope, run, task>>
    BY <1>2 DEF ComesDue, InboxCheck, ExpireUnresumed
  <2>2. \A q \in Runs :
            /\ request'[q].envelope = request[q].envelope
            /\ request'[q].resumed = request[q].resumed
            /\ \/ request'[q].status = request[q].status
               \/ /\ request[q].status = "pending"
                  /\ request'[q].status \in {"canceled", "expired"}
    BY <1>2 DEF ComesDue, InboxCheck, ExpireUnresumed, Inv, TypeOK
  <2> QED BY <1>0, <2>1, <2>2, StayKeeps
<1>3. CASE InboxAbandon
  <2>1. {session["inbox"].request} \in SUBSET Runs
    BY <1>3 DEF InboxAbandon, Inv, SessionInv, Channels
  <2> QED BY <1>3, <2>1, AbandonKeeps DEF InboxAbandon
<1>4. CASE StopAbandon
  <2>1. retired \in SUBSET Runs
    BY DEF Inv, TypeOK
  <2> QED BY <1>4, <2>1, AbandonKeeps DEF StopAbandon
<1>5. CASE EmergencyStop
  BY <1>5, StopKeepsChains
<1> QED BY <1>1, <1>2, <1>3, <1>4, <1>5

\* Every step keeps the chains.
LEMMA ChainsStep == Inv /\ Chains /\ [Next]_vars => Chains'
<1> SUFFICES ASSUME Inv, Chains, [Next]_vars PROVE Chains'
  OBVIOUS
<1>1. CASE UNCHANGED vars
  BY <1>1, QuietKeeps DEF vars
<1>2. ASSUME NEW f \in Firings, Fire(f) PROVE Chains'
  BY <1>2, FireKeepsChains
<1>3. ASSUME NEW r \in Runs, TaskStep(r) \/ Crash(r) \/ MarkStale(r) PROVE Chains'
  BY <1>3, TaskKeepsChains
<1>4. ASSUME NEW p \in Runs, ComesDue(p) \/ ChatRead(p) \/ InboxRead(p) \/ SweepRead(p)
      PROVE  Chains'
  BY <1>4, ChannelKeepsChains
<1>5. CASE \/ InboxCheck \/ InboxAbandon \/ ExpireUnresumed
           \/ EmergencyStop \/ StopAbandon \/ Release
           \/ \E c \in Channels : Refused(c)
  <2>1. 1 \in Runs
    BY ApprovalBounds DEF Runs
  <2> QED BY <1>5, <2>1, ChannelKeepsChains
<1>6. ASSUME NEW c \in Channels, Respond(c) PROVE Chains'
  BY <1>6, RespondKeepsChains
<1> QED BY <1>1, <1>2, <1>3, <1>4, <1>5, <1>6 DEF Next

\* The requests of a firing form one chain, each answered by the run that recorded the next,
\* whatever the order of its transactions (record_interrupted_run, claim, settle, abandon).
THEOREM ChainsHold == Spec => []Chains
BY ChainsInit, ChainsStep, InvHolds, PTL DEF Spec

\* A request that can still be answered has a firing that waits, or one whose owner raised after
\* the pause: neither another delivery, nor the end of an earlier run of the chain, nor a stop or
\* a sweep ended it (trigger_execution, settle, abandon, mark_stale_active_runs).
THEOREM PendingRequestsWait == Spec => []PendingIsWaiting
<1>1. Chains => PendingIsWaiting
  BY DEF Chains
<1> QED BY <1>1, ChainsHold, PTL

\* A firing whose last answer was an expiry is not settled as a success, although the run
\* that was told of the rejection completes (settle).
THEOREM ExpiredFiringsFail == Spec => []ExpiredIsNotSuccess
<1>1. Chains => ExpiredIsNotSuccess
  BY DEF Chains
<1> QED BY <1>1, ChainsHold, PTL

=============================================================================
