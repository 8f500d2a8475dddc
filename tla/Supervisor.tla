----------------------------- MODULE Supervisor -----------------------------
(***************************************************************************)
(* The process of bin/explorer/src/main.rs once its listener is bound:     *)
(* `run` races the server against ingest, cancels what is left, joins the  *)
(* two rebuild workers and turns what ended first, or last, into the exit  *)
(* code.  Ingest and the workers write to one store, whose write           *)
(* transactions wait for one another; the store's own effects are in the   *)
(* other modules.                                                          *)
(***************************************************************************)
EXTENDS Integers

Worker == {"names", "history"}      \* backfill_token_names, _history

VARIABLES
    shutdown,   \* the CancellationToken
    signalled,  \* a signal arrived: nobody else asked for the end
    ingest,     \* the task: "running", "writing", or how it ended
    server,     \* "serving", "draining" once shut down, "closed", "failed"
    worker,     \* worker[w]: where the rebuild is
    main,       \* where `run` is
    outcome,    \* what `run` will exit with: ingest's end and server_failed
    exit        \* the exit code

supervisorVars ==
    <<shutdown, signalled, ingest, server, worker, main, outcome, exit>>

Running == "running"
NoCode == -1
EXIT_REINDEX_REQUIRED == 3

Ended == {"ok", "reindex", "error", "panicked"}

SupervisorInit ==
    /\ shutdown = FALSE
    /\ signalled = FALSE
    /\ ingest = Running
    /\ server = "serving"
    /\ worker = [w \in Worker |-> "check"]
    /\ main = "select"
    /\ outcome = [ingest |-> Running, serverFailed |-> FALSE]
    /\ exit = NoCode

(* redb admits one write transaction; begin_write waits for it.            *)
Writing == ingest = "writing" \/ \E w \in Worker : worker[w] = "writing"

-----------------------------------------------------------------------------
(* wait_for_shutdown_signal. *)
Signal ==
    /\ ~ signalled
    /\ signalled' = TRUE
    /\ shutdown' = TRUE
    /\ UNCHANGED <<ingest, server, worker, main, outcome, exit>>

(* xp_ingest::run: it looks at the token between its batches, returns Ok   *)
(* only for it, and an error or a panic aborts the transaction it is in.   *)
IngestWrites ==
    /\ ingest = Running /\ ~ Writing
    /\ ingest' = "writing"
    /\ UNCHANGED <<shutdown, signalled, server, worker, main, outcome, exit>>

IngestCommits ==
    /\ ingest = "writing"
    /\ ingest' = Running
    /\ UNCHANGED <<shutdown, signalled, server, worker, main, outcome, exit>>

IngestEnds ==
    /\ \/ ingest \in {Running, "writing"} /\ ingest' \in {"reindex", "error", "panicked"}
       \/ ingest = Running /\ shutdown /\ ingest' = "ok"
    /\ UNCHANGED <<shutdown, signalled, server, worker, main, outcome, exit>>

-----------------------------------------------------------------------------
(* backfill_token_names and backfill_token_history. *)
MoveWorker(w, to) ==
    /\ worker' = [worker EXCEPT ![w] = to]
    /\ UNCHANGED <<shutdown, signalled, ingest, server, main, outcome, exit>>

WorkerSpawns(w) ==
    /\ worker[w] = "check"
    /\ MoveWorker(w, IF shutdown THEN "done" ELSE "queued")

(* The queued task looks at the token once more before it touches the      *)
(* store, then begin_write waits its turn.                                 *)
WorkerStarts(w) ==
    /\ worker[w] = "queued"
    /\ MoveWorker(w, IF shutdown THEN "done" ELSE "waiting")

WorkerWrites(w) ==
    /\ worker[w] = "waiting" /\ ~ Writing
    /\ MoveWorker(w, "writing")

(* Ready, an error or a panic ends it; unfinished or TokenHistoryNotReady  *)
(* and TokenSearchNotReady pause it.                                       *)
WorkerBatchEnds(w) ==
    /\ worker[w] = "writing"
    /\ \E to \in {"pause", "done"} : MoveWorker(w, to)

(* The biased select: cancelled, or the pause over. *)
WorkerResumes(w) ==
    /\ worker[w] = "pause"
    /\ MoveWorker(w, IF shutdown THEN "done" ELSE "check")

WorkerStep(w) ==
    WorkerSpawns(w) \/ WorkerStarts(w) \/ WorkerWrites(w) \/ WorkerBatchEnds(w)
        \/ WorkerResumes(w)

-----------------------------------------------------------------------------
(* axum: with_graceful_shutdown stops accepting, then waits for what is    *)
(* open; the accept loop may also fail at any time.                        *)
ServerDrains ==
    /\ server = "serving" /\ shutdown
    /\ server' = "draining"
    /\ UNCHANGED <<shutdown, signalled, ingest, worker, main, outcome, exit>>

ServerCloses ==
    /\ server = "draining"
    /\ server' = "closed"
    /\ UNCHANGED <<shutdown, signalled, ingest, worker, main, outcome, exit>>

ServerFails ==
    /\ server \in {"serving", "draining"}
    /\ server' = "failed"
    /\ UNCHANGED <<shutdown, signalled, ingest, worker, main, outcome, exit>>

-----------------------------------------------------------------------------
(* Mutant: the server is left to itself. *)
SelectIngestQuietly ==
    /\ main = "select" /\ ingest \in Ended
    /\ main' = "await_server"
    /\ outcome' = [outcome EXCEPT !.ingest = ingest]
    /\ UNCHANGED <<shutdown, signalled, ingest, server, worker, exit>>

(* run: the biased select sees ingest first ... *)
SelectIngest ==
    /\ main = "select" /\ ingest \in Ended
    /\ main' = "await_server"
    /\ outcome' = [outcome EXCEPT !.ingest = ingest]
    /\ shutdown' = TRUE
    /\ UNCHANGED <<signalled, ingest, server, worker, exit>>

AwaitServer ==
    /\ main = "await_server" /\ server \in {"closed", "failed"}
    /\ main' = "join"
    /\ outcome' = [outcome EXCEPT !.serverFailed = (server = "failed")]
    /\ UNCHANGED <<shutdown, signalled, ingest, server, worker, exit>>

(* ... and the server only while ingest has not ended. *)
SelectServer ==
    /\ main = "select" /\ ingest \notin Ended /\ server \in {"closed", "failed"}
    /\ main' = "await_ingest"
    /\ outcome' = [outcome EXCEPT !.serverFailed = (server = "failed")]
    /\ shutdown' = TRUE
    /\ UNCHANGED <<signalled, ingest, server, worker, exit>>

(* Mutant: how ingest ended is not asked for any more. *)
AwaitIngestOnly ==
    /\ main = "await_ingest" /\ ingest \in Ended
    /\ main' = "join"
    /\ outcome' = [outcome EXCEPT !.ingest = "ok"]
    /\ UNCHANGED <<shutdown, signalled, ingest, server, worker, exit>>

AwaitIngest ==
    /\ main = "await_ingest" /\ ingest \in Ended
    /\ main' = "join"
    /\ outcome' = [outcome EXCEPT !.ingest = ingest]
    /\ UNCHANGED <<shutdown, signalled, ingest, server, worker, exit>>

(* explorer_exit_code. *)
ExitCode ==
    CASE outcome.ingest = "ok"      -> IF outcome.serverFailed THEN 1 ELSE 0
      [] outcome.ingest = "reindex" -> EXIT_REINDEX_REQUIRED
      [] outcome.ingest \in {"error", "panicked"} -> 1

(* Mutant: the history worker is not joined. *)
JoinNamesOnly ==
    /\ main = "join" /\ worker["names"] = "done"
    /\ main' = "exited"
    /\ exit' = ExitCode
    /\ UNCHANGED <<shutdown, signalled, ingest, server, worker, outcome>>

(* Both handles are joined, one after the other, whatever they return.     *)
JoinAndExit ==
    /\ main = "join" /\ \A w \in Worker : worker[w] = "done"
    /\ main' = "exited"
    /\ exit' = ExitCode
    /\ UNCHANGED <<shutdown, signalled, ingest, server, worker, outcome>>

MainStep == SelectIngest \/ AwaitServer \/ SelectServer \/ AwaitIngest \/ JoinAndExit

SupervisorNext ==
    \/ Signal
    \/ IngestWrites \/ IngestCommits \/ IngestEnds
    \/ \E w \in Worker : WorkerStep(w)
    \/ ServerDrains \/ ServerCloses \/ ServerFails
    \/ MainStep

-----------------------------------------------------------------------------
(* When the process exits no write transaction is open and none is about   *)
(* to be, and its code is the truth about how it ended: 3 exactly if       *)
(* ingest needs a reindex, whichever of server, ingest and signal came     *)
(* first; 0 only if a signal ended a service nothing had failed in.        *)
ExitSound ==
    main = "exited" =>
        /\ ~ Writing
        /\ \A w \in Worker : worker[w] = "done"
        /\ ingest \in Ended
        /\ exit = EXIT_REINDEX_REQUIRED <=> ingest = "reindex"
        /\ exit = 0 <=> ingest = "ok" /\ server = "closed"
        /\ exit = 0 => signalled
=============================================================================
