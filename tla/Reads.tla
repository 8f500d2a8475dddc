------------------------------- MODULE Reads -------------------------------
(***************************************************************************)
(* Admission of the API's blocking store reads: `blocking` and             *)
(* `history_blocking` of crates/xp-api/src/lib.rs and the two reads with a *)
(* node request between them of handlers/evidence.rs.                      *)
(*                                                                         *)
(* A handler is a future: the 5 s TimeoutLayer, or its client going away,  *)
(* drops it at any await.  The read it asked for runs on a thread of its   *)
(* own and is not stopped by that, so permits and the in-flight count must *)
(* stay with the read and not with the handler.                            *)
(***************************************************************************)
EXTENDS Integers, FiniteSets

CONSTANTS
    Request,    \* the requests clients make, each once
    Budget     \* Budget[s]: the size of semaphore s

Semaphore == {"read", "history", "evidence"}

ASSUME ReadsAssumption ==
    /\ IsFiniteSet(Request)
    /\ Budget \in [Semaphore -> Nat]

VARIABLES
    handler,    \* handler[r]: where the handler of r is
    job,        \* job[r]: where the blocking task r spawned last is
    held,       \* held[r]: the permits in the handler of r
    kept,       \* kept[r]: the permits in the task of r
    free,       \* available permits
    inflight    \* Counters.inflight_reads

readsVars == <<handler, job, held, kept, free, inflight>>

ReadsInit ==
    /\ handler = [r \in Request |-> "unborn"]
    /\ job  = [r \in Request |-> "none"]
    /\ held = [r \in Request |-> {}]
    /\ kept = [r \in Request |-> {}]
    /\ free = Budget
    /\ inflight = 0

Give(permits) == [s \in Semaphore |-> IF s \in permits THEN free[s] + 1 ELSE free[s]]
Take(s) == [free EXCEPT ![s] = @ - 1]

(* The handlers that wait for their task. *)
Awaiting == {"reading", "anchoring", "proving"}

(* The handlers there is a future of. *)
Open == {"reserving", "admitting", "anchor", "asked", "asking", "prove"} \cup Awaiting

-----------------------------------------------------------------------------
(* A request reaches its handler: history_blocking, blocking, evidence.    *)
ReadArrives(r) ==
    /\ handler[r] = "unborn"
    /\ \E start \in {"reserving", "admitting", "anchor"} :
          handler' = [handler EXCEPT ![r] = start]
    /\ UNCHANGED <<job, held, kept, free, inflight>>

(* try_acquire_owned fails: the answer is Overloaded, and what the closure *)
(* owned already is dropped with it.                                       *)
Refuse(r) ==
    /\ handler' = [handler EXCEPT ![r] = "gone"]
    /\ free' = Give(held[r])
    /\ held' = [held EXCEPT ![r] = {}]
    /\ UNCHANGED <<job, kept, inflight>>

(* history_blocking: its own permit first. *)
ReserveHistory(r) ==
    /\ handler[r] = "reserving"
    /\ \/ /\ free["history"] = 0 /\ Refuse(r)
       \/ /\ free["history"] > 0
          /\ free' = Take("history")
          /\ held' = [held EXCEPT ![r] = {"history"}]
          /\ handler' = [handler EXCEPT ![r] = "admitting"]
          /\ UNCHANGED <<job, kept, inflight>>

Wait == [admitting |-> "reading", anchor |-> "anchoring", prove |-> "proving"]

(* Mutant: the permits stay in the handler's future. *)
AdmitHolding(r) ==
    /\ handler[r] \in DOMAIN Wait
    /\ \/ /\ free["read"] = 0 /\ Refuse(r)
       \/ /\ free["read"] > 0
          /\ free' = Take("read")
          /\ inflight' = inflight + 1
          /\ held' = [held EXCEPT ![r] = @ \cup {"read"}]
          /\ job'  = [job EXCEPT ![r] = "queued"]
          /\ handler' = [handler EXCEPT ![r] = Wait[handler[r]]]
          /\ UNCHANGED kept

(* blocking: the permits move into the spawned closure. *)
Admit(r) ==
    /\ handler[r] \in DOMAIN Wait
    /\ \/ /\ free["read"] = 0 /\ Refuse(r)
       \/ /\ free["read"] > 0
          /\ free' = Take("read")
          /\ inflight' = inflight + 1
          /\ kept' = [kept EXCEPT ![r] = held[r] \cup {"read"}]
          /\ held' = [held EXCEPT ![r] = {}]
          /\ job'  = [job EXCEPT ![r] = "queued"]
          /\ handler' = [handler EXCEPT ![r] = Wait[handler[r]]]

(* The pool starts the closure, with or without anybody waiting for it.    *)
JobStarts(r) ==
    /\ job[r] = "queued"
    /\ job' = [job EXCEPT ![r] = "running"]
    /\ UNCHANGED <<handler, held, kept, free, inflight>>

(* It returns or panics; either way its permit and guard are dropped.      *)
JobEnds(r) ==
    /\ job[r] = "running"
    /\ \E result \in {"ok", "error"} : job' = [job EXCEPT ![r] = result]
    /\ free' = Give(kept[r])
    /\ kept' = [kept EXCEPT ![r] = {}]
    /\ inflight' = inflight - 1
    /\ UNCHANGED <<handler, held>>

(* The awaiting handler gets the result; evidence goes on to the node.     *)
Resume(r) ==
    /\ handler[r] \in Awaiting
    /\ job[r] \in {"ok", "error"}
    /\ handler' = [handler EXCEPT ![r] =
                      IF @ = "anchoring" /\ job[r] = "ok" THEN "asked" ELSE "gone"]
    /\ free' = Give(held[r])
    /\ held' = [held EXCEPT ![r] = {}]
    /\ UNCHANGED <<job, kept, inflight>>

(* Evidence: a permit for the request to the node ... *)
ReserveEvidence(r) ==
    /\ handler[r] = "asked"
    /\ \/ /\ free["evidence"] = 0 /\ Refuse(r)
       \/ /\ free["evidence"] > 0
          /\ free' = Take("evidence")
          /\ held' = [held EXCEPT ![r] = {"evidence"}]
          /\ handler' = [handler EXCEPT ![r] = "asking"]
          /\ UNCHANGED <<job, kept, inflight>>

(* ... whose answers fit the anchor, or the request ends here. *)
NodeAnswers(r) ==
    /\ handler[r] = "asking"
    /\ \/ /\ handler' = [handler EXCEPT ![r] = "prove"]
          /\ UNCHANGED <<job, held, kept, free, inflight>>
       \/ Refuse(r)

(* The timeout, or the client, drops the handler at an await. *)
Abandon(r) ==
    /\ handler[r] \in Awaiting \cup {"asking"}
    /\ Refuse(r)

HandlerStep(r) ==
    ReserveHistory(r) \/ Admit(r) \/ Resume(r) \/ ReserveEvidence(r) \/ NodeAnswers(r)

JobStep(r) == JobStarts(r) \/ JobEnds(r)

ReadStep(r) == HandlerStep(r) \/ JobStep(r)

ReadsNext == \E r \in Request : ReadArrives(r) \/ ReadStep(r) \/ Abandon(r)

-----------------------------------------------------------------------------
Busy == {r \in Request : job[r] \in {"queued", "running"}}

Users(s) == {r \in Request : s \in held[r] \cup kept[r]}

(* However handlers are dropped, the reads on the blocking pool never      *)
(* exceed their budget, nor those over history theirs; a node request for  *)
(* evidence, or the parsing of its answer, never exceeds its own; no       *)
(* permit is lost or given back twice; and the in-flight count is that of  *)
(* the reads there are.                                                    *)
ReadsBounded ==
    /\ Cardinality(Busy) <= Budget["read"]
    /\ \A s \in Semaphore :
          free[s] >= 0 /\ free[s] + Cardinality(Users(s)) = Budget[s]
    /\ \A r \in Busy : "read" \in kept[r]
    /\ inflight = Cardinality(Busy)
=============================================================================
