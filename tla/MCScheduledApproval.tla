------------------------ MODULE MCScheduledApproval ------------------------
(***************************************************************************)
(* ScheduledApproval for TLC.                                              *)
(***************************************************************************)
EXTENDS ScheduledApproval

\* A chain of two answers by the chat or by the inbox, that with a second firing or with a
\* fault, and one answer by every channel with a second firing and a fault.
ApprovalScopes ==
    {[firings |-> 1, runs |-> 3, faults |-> 0, channels |-> {"chat", "expiry"}],
     [firings |-> 2, runs |-> 3, faults |-> 0, channels |-> {"inbox", "expiry"}],
     [firings |-> 1, runs |-> 3, faults |-> 1, channels |-> {"inbox", "expiry"}],
     [firings |-> 2, runs |-> 2, faults |-> 1, channels |-> Channels]}

\* One firing and one answer.
OrphanScopes == {[firings |-> 1, runs |-> 2, faults |-> 0, channels |-> Channels]}
=============================================================================
