------------------------- MODULE MCConversationRuns -------------------------
(***************************************************************************)
(* TLC instances of ConversationRuns: process instances and request ids    *)
(* are interchangeable, and the view leaves out values no later step reads *)
(* (heartbeat and cancel reason of an ended run, a task or a launch that   *)
(* can only find its run ended, the priority of an input that left the     *)
(* queue, the positions but for the order of the pending inputs).          *)
(***************************************************************************)
EXTENDS ConversationRuns, TLC

Symmetry == Permutations(Workers) \cup Permutations(Inputs)

LiveTask(w, r) ==
    CASE task[w][r] = "prep" /\ ~Active(r) -> <<"none">>
      [] task[w][r] = "fin"                -> <<"fin", proposed[w][r]>>
      [] OTHER                             -> <<task[w][r], intent[w][r]>>

\* What later steps read; published is written only.
RunsState(Live(_, _)) ==
    <<status, worker, cancelRequested, acknowledged, parent, queuePaused, process,
      agUiRead, inputStatus, inputRun, unbound,
      [r \in Runs |-> Active(r) /\ r \in beatFresh],
      [r \in Runs |-> IF Active(r) THEN LocalReason(r) ELSE "none"],
      [i \in Inputs |-> IF i \in PendingInputs THEN priority[i] ELSE 0],
      {ij \in PendingInputs \X PendingInputs : position[ij[1]] < position[ij[2]]},
      [w \in Workers |-> [r \in Runs |-> Live(w, r)]],
      {l \in launching : Active(l[2])}>>

LiveState == <<RunsState(LiveTask), published>>

\* With one process, which never shuts down, an executor that was told to stop hears
\* nothing new from a poll.
ToldTask(w, r) ==
    IF task[w][r] \in {"exec", "deaf"} /\ intent[w][r] # "none" THEN <<"told">> ELSE LiveTask(w, r)

QueueState == RunsState(ToldTask)

=============================================================================
