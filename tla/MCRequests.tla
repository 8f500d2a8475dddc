----------------------------- MODULE MCRequests -----------------------------
(* Two requests for reads and two for the mempool, and a budget of one     *)
(* permit of each kind.                                                    *)
EXTENDS Requests

MCBudget == [s \in Semaphore |-> 1]
=============================================================================
