------------------------------ MODULE Requests ------------------------------
(***************************************************************************)
(* What the API's requests do outside their own handler: blocking reads,   *)
(* requests to the node, and the mempool listing, each of which goes on    *)
(* when TimeoutLayer or the client drops its handler (lib.rs, `router`).   *)
(***************************************************************************)
EXTENDS Reads, Mempool

requestsVars == <<readsVars, mempoolVars>>

RequestsInit == ReadsInit /\ MempoolInit

RequestsNext ==
    \/ ReadsNext /\ UNCHANGED mempoolVars
    \/ MempoolNext /\ UNCHANGED readsVars

RequestsSpec == RequestsInit /\ [][RequestsNext]_requestsVars
=============================================================================
