----------------------------- MODULE MCProcess -----------------------------
(* One request, of any kind: enough to be open, or its read to be running, *)
(* at every point of a shutdown.                                           *)
EXTENDS Process

MCBudget == [s \in Semaphore |-> 1]
=============================================================================
