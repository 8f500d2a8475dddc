------------------------------ MODULE Process ------------------------------
(***************************************************************************)
(* The whole process: the requests of Reads come over the connections of   *)
(* the server that Supervisor shuts down.  axum has drained when every     *)
(* connection is done: no handler is left on it, and the client has taken  *)
(* the response or gone away.  The 5 s TimeoutLayer ends a handler, not    *)
(* the writing of its response, and nothing puts a deadline to that.  The  *)
(* reads handlers leave behind on the blocking pool hold nothing up, and   *)
(* end with the process.                                                   *)
(***************************************************************************)
EXTENDS Supervisor, Reads

VARIABLE unread     \* the requests whose response is being written

processVars == <<supervisorVars, readsVars, unread>>

ProcessInit == SupervisorInit /\ ReadsInit /\ unread = {}

(* Mutant: what runs on the blocking pool is waited for too. *)
DrainedOfReads == unread = {} /\ \A r \in Request : handler[r] \notin Open /\ r \notin Busy

Drained == unread = {} /\ \A r \in Request : handler[r] \notin Open

(* main calls process::exit with the code: nothing runs after it. *)
Alive == main # "exited"

OfSupervisor(A) == Alive /\ A /\ UNCHANGED <<readsVars, unread>>

(* A handler that is through leaves its response to be written. *)
OfRequest(r, A) ==
    /\ Alive /\ A /\ UNCHANGED supervisorVars
    /\ unread' = IF handler[r] \in Open /\ handler'[r] = "gone" THEN unread \cup {r} ELSE unread

(* The client has all of its response, or is gone: with a request open, or *)
(* with its response.                                                      *)
ClientDone(r) ==
    /\ Alive
    /\ \/ r \in unread /\ UNCHANGED readsVars
       \/ Abandon(r)
    /\ unread' = unread \ {r}
    /\ UNCHANGED supervisorVars

ServerActs == ServerDrains \/ (Drained /\ ServerCloses)

IngestActs == IngestWrites \/ IngestCommits \/ IngestEnds

ProcessNext ==
    \/ OfSupervisor(Signal)
    \/ OfSupervisor(MainStep)
    \/ OfSupervisor(ServerActs)
    \/ OfSupervisor(ServerFails)
    \/ OfSupervisor(IngestActs)
    \/ \E w \in Worker : OfSupervisor(WorkerStep(w))
    \/ \E r \in Request : OfRequest(r, server \in {"serving", "draining"} /\ ReadArrives(r))
    \/ \E r \in Request : OfRequest(r, ReadStep(r))
    \/ \E r \in Request : OfRequest(r, Abandon(r))
    \/ \E r \in Request : ClientDone(r)

(* Every task runs on; a transaction ends, though a read may hang on its   *)
(* disk for ever; the 5 s ceiling ends every handler; ingest looks at the  *)
(* token between its batches (SF: it may always begin another); a writer   *)
(* that waits has its turn although others come and go (SF).  Nothing is   *)
(* assumed of clients.                                                     *)
ProcessSpec ==
    /\ ProcessInit /\ [][ProcessNext]_processVars
    /\ WF_processVars(OfSupervisor(MainStep))
    /\ WF_processVars(OfSupervisor(ServerActs))
    /\ WF_processVars(OfSupervisor(IngestCommits))
    /\ SF_processVars(OfSupervisor(shutdown /\ IngestEnds))
    /\ \A w \in Worker : SF_processVars(OfSupervisor(WorkerStep(w)))
    /\ \A r \in Request : WF_processVars(OfRequest(r, HandlerStep(r) \/ Abandon(r)))

-----------------------------------------------------------------------------
(* Every client takes its responses, or goes away. *)
ClientsRead == \A r \in Request : []<>(r \notin unread)

Stopped == ingest \in Ended /\ \A w \in Worker : worker[w] = "done"

(* A shutdown is asked for, without any signal, when ingest or the server  *)
(* has ended: what is served never goes on getting staler behind a dead    *)
(* loop.  Once it is asked for, ingest and the workers come to rest        *)
(* whatever clients do; and the process exits if its clients take their    *)
(* responses: the joins never wait for one another, and no worker, writer, *)
(* handler or read that hangs can keep it.                                 *)
ShutdownEnds == /\ ingest \in Ended \/ server = "failed" ~> shutdown
                /\ shutdown ~> Stopped
                /\ ClientsRead => (shutdown ~> main = "exited")
=============================================================================
