------------------------------- MODULE Ingest -------------------------------
(***************************************************************************)
(* The ingest loop (xp_ingest::run) driving ChainStore from a block        *)
(* source: poll, fork check, rollback, concurrent fetch, apply, and what   *)
(* it publishes.  Every await of the code is a step boundary here, so the  *)
(* source may change its mind, stop answering or come back between any two *)
(* questions, the auxiliary rebuilds may commit, and the process may die.  *)
(*                                                                         *)
(* The source is the code outside run(): only what it answers is modelled. *)
(***************************************************************************)
EXTENDS ChainStore, FiniteSets

CONSTANTS
    Branch,         \* Branch[b]: the chain that ends in b
    Tips,           \* the best blocks the source may report (NoParent: none)
    Siblings,       \* orphans it may name instead of its own block
    Withholdable,   \* blocks whose body it may refuse
    Endpoints,      \* which of "genesis", "info", "header", "body" may fail;
                    \* "decode": what it serves may not be what was asked for
    BulkBatch, BulkConcurrency, DurableEvery, TipLagForBulk, \* IngestConfig
    MismatchLimit,  \* PARENT_MISMATCH_LIMIT
    MaxChanges,     \* bound: changes of the source
    MaxCrashes      \* bound: crashes of the process

ASSUME ConfigAssumption ==
    /\ BulkBatch \in Nat \ {0}
    /\ BulkConcurrency \in Nat \ {0}
    /\ DurableEvery \in Nat    \* 0: every batch
    /\ TipLagForBulk \in Nat
    /\ MismatchLimit \in Nat \ {0}
    /\ MaxChanges \in Nat /\ MaxCrashes \in Nat

ASSUME SourceAssumption ==
    /\ Branch \in [Block -> Seq(Block)]
    /\ \A b \in Block : /\ Linked(Branch[b])
                        /\ Height[b] = Len(Branch[b]) /\ Branch[b][Height[b]] = b
    /\ Tips \subseteq Block \cup {NoParent}
    /\ Siblings \subseteq Block
    /\ NoParent \notin Block

VARIABLES
    src,        \* what the source would answer now
    run,        \* run()'s locals, and where it is (pc)
    status,     \* the last IngestStatus published
    budget      \* changes and crashes left

ingestVars == <<db, disk, outcome, src, run, status, budget>>

NoStall == [height |-> 0, origin |-> "None"]
NoMismatch == [height |-> 0, times |-> 0]

(* Three failed attempts in a row are published as an error.               *)
FailureLimit == 3

-----------------------------------------------------------------------------
(* The source: a branch of the block tree, perhaps with one height it      *)
(* names wrongly, bodies it refuses, endpoints that do not answer.         *)

SourceBranch == IF src.tip = NoParent THEN <<>> ELSE Branch[src.tip]

BestHeight == Len(SourceBranch)

(* header_id_at: nothing at height 0 and above the best block.             *)
HeaderIdAt(h) ==
    IF h \notin 1..BestHeight THEN NoParent
    ELSE IF src.sibling # NoParent /\ Height[src.sibling] = h THEN src.sibling
    ELSE SourceBranch[h]

Answers(endpoint) == endpoint \notin src.down

(* One thing about the source changes. *)
SourceChange ==
    /\ budget.changes > 0
    /\ \/ \E tip \in Tips : src' = [src EXCEPT !.tip = tip]
       \/ \E b \in Siblings \cup {NoParent} : src' = [src EXCEPT !.sibling = b]
       \/ \E b \in Withholdable :
             src' = [src EXCEPT !.withheld = IF b \in @ THEN @ \ {b} ELSE @ \cup {b}]
       \/ \E e \in Endpoints :
             src' = [src EXCEPT !.down = IF e \in @ THEN @ \ {e} ELSE @ \cup {e}]
    /\ src' # src
    /\ budget' = [budget EXCEPT !.changes = @ - 1]
    /\ UNCHANGED <<db, disk, outcome, run, status>>

-----------------------------------------------------------------------------
(* Publishing, and the three ways an iteration of the loop ends.           *)

Published(r, halted) ==
    [indexed |-> r.indexed, best |-> r.best, halted |-> halted,
     stalled |-> r.stall, sourceError |-> r.failures >= FailureLimit]

SourceFailed(r) ==
    [r EXCEPT !.failures = IF @ < FailureLimit THEN @ + 1 ELSE @]

SourceRecovered(r) == [r EXCEPT !.failures = 0]

(* Mutant: an iteration ends without publishing. *)
StartOverSilently(r, pc) == run' = [r EXCEPT !.pc = pc] /\ UNCHANGED status

(* retry! and the idle branch: publish, sleep, start over at pc.           *)
StartOver(r, pc) ==
    /\ run' = [r EXCEPT !.pc = pc]
    /\ status' = Published(r, "None")

Halt(r, reason) ==
    /\ run' = [r EXCEPT !.pc = "halted"]
    /\ status' = Published(r, reason)

Continue(r, pc) == run' = [r EXCEPT !.pc = pc]

UnchangedStore == UNCHANGED <<db, disk, outcome>>

(* Mutant: a stall is only logged. *)
NoteStallQuietly(r, height, origin) == r

(* note_stall: a running stall of the same height and origin goes on.      *)
NoteStall(r, height, origin) ==
    [r EXCEPT !.stall = [height |-> height, origin |-> origin]]

-----------------------------------------------------------------------------
(* The loop before the loop: genesis boxes for a store that has none.      *)
EnsureGenesis ==
    /\ run.pc = "seed"
    /\ UNCHANGED <<src, budget>>
    /\ \/ /\ db.chain # <<>> \/ db.seeded
          /\ Continue(run, "poll")
          /\ UnchangedStore
          /\ UNCHANGED status
       \/ /\ db.chain = <<>> /\ ~ db.seeded
          /\ ~ Answers("genesis")
          /\ StartOver(SourceFailed(run), "seed")
          /\ UnchangedStore
       \/ /\ db.chain = <<>> /\ ~ db.seeded
          /\ Answers("genesis") /\ ~ Answers("decode")
          /\ Halt(SourceRecovered(run), "Undecodable")
          /\ UnchangedStore
       \/ /\ db.chain = <<>> /\ ~ db.seeded
          /\ Answers("genesis") /\ Answers("decode")
          /\ SeedGenesis
          /\ IF outcome' = "Ok"
               THEN /\ Continue(SourceRecovered(run), "poll")
                    /\ status' = [status EXCEPT !.sourceError = FALSE]
               ELSE Halt(SourceRecovered(run), outcome')

(* Its own tip is in doubt after MismatchLimit batches that would not fit. *)
DistrustTip(r) == r.mismatch.times >= MismatchLimit

(* Mutant: an answering /info counts as a recovered source. *)
AnsweredRecovers(r) ==
    [r EXCEPT !.best = BestHeight, !.failures = 0,
              !.h = IF DistrustTip(r) /\ Tip(db) > 1 THEN Tip(db) - 1 ELSE Tip(db)]

Answered(r) ==
    [r EXCEPT !.best = BestHeight,
              !.h = IF DistrustTip(r) /\ Tip(db) > 1 THEN Tip(db) - 1 ELSE Tip(db)]

(* best_height, and where the comparison with the source begins.           *)
Poll ==
    /\ run.pc = "poll"
    /\ UnchangedStore /\ UNCHANGED <<src, budget>>
    /\ LET r == [run EXCEPT !.indexed = Tip(db)]
       IN  IF ~ Answers("info") THEN StartOver(SourceFailed(r), "poll")
           ELSE Continue(Answered(r), "fork") /\ UNCHANGED status

(* Mutant: a fork of exactly Window blocks is given up on. *)
TooDeepEarly(r) == r.h = 0 \/ r.indexed - r.h >= Window - 1

TooDeep(r) == r.h = 0 \/ r.indexed - r.h >= Window

Agrees(r) == r.h \in 1..Tip(db) /\ db.chain[r.h] = HeaderIdAt(r.h)

(* fork_check's answer at height r.h; "Lower" walks on, one height down.   *)
ForkAnswer(r) ==
    IF DistrustTip(r) /\ r.indexed <= 1 THEN "WaitWithoutSource"
    ELSE IF r.indexed = 0                THEN "Agreed"
    ELSE IF ~ Answers("header")          THEN "SourceError"
    ELSE IF HeaderIdAt(r.h) = NoParent   THEN "Wait"
    ELSE IF Agrees(r) THEN (IF r.h = r.indexed THEN "Agreed" ELSE "RollbackTo")
    ELSE IF TooDeep(r) THEN "TooDeep" ELSE "Lower"

ForkCheck ==
    /\ run.pc = "fork"
    /\ UnchangedStore /\ UNCHANGED <<src, budget>>
    /\ \/ /\ ForkAnswer(run) = "WaitWithoutSource"
          /\ StartOver([run EXCEPT !.mismatch = NoMismatch], "poll")
       \/ /\ ForkAnswer(run) = "SourceError"
          /\ StartOver(SourceFailed(run), "poll")
       \/ /\ ForkAnswer(run) = "Wait"
          /\ StartOver(SourceRecovered(run), "poll")
       \/ /\ ForkAnswer(run) = "TooDeep"
          /\ Halt(run, "ReindexRequired")
       \/ /\ ForkAnswer(run) = "Agreed"
          /\ Continue(run, "range") /\ UNCHANGED status
       \/ /\ ForkAnswer(run) = "RollbackTo"
          /\ Continue(run, "rollback") /\ UNCHANGED status
       \/ /\ ForkAnswer(run) = "Lower"
          /\ Continue([run EXCEPT !.h = @ - 1], "fork") /\ UNCHANGED status

(* Mutant: a stall is cleared by an applied batch only. *)
AfterRollbackStalled(r) == [r EXCEPT !.indexed = r.h, !.mismatch = NoMismatch]

(* A missing-body stall is about a height the rollback leaves behind; a    *)
(* parent-mismatch stall outlives it.                                      *)
AfterRollback(r) ==
    [r EXCEPT !.indexed = r.h,
              !.stall = IF @.origin = "ParentMismatch" THEN @ ELSE NoStall,
              !.mismatch = NoMismatch]

RollbackFork ==
    /\ run.pc = "rollback"
    /\ RollbackTo(run.h)
    /\ UNCHANGED <<src, budget>>
    /\ IF outcome' = "Ok"
         THEN /\ Continue(AfterRollback(run), "range")
              /\ status' = Published(AfterRollback(run), "None")
         ELSE Halt(run, outcome')

Bulk(r) == r.best > r.indexed /\ r.best - r.indexed > TipLagForBulk

Smaller(m, n) == IF m < n THEN m ELSE n

BatchEnd(r) == Smaller(r.best, r.indexed + (IF Bulk(r) THEN BulkBatch ELSE 1))

(* Mutant: one block short of the source counts as its tip. *)
UpToDateEarly(r) == r.indexed + 1 >= r.best

UpToDate(r) == r.indexed >= r.best

ChooseRange ==
    /\ run.pc = "range"
    /\ UnchangedStore /\ UNCHANGED <<src, budget>>
    /\ IF UpToDate(run)
         THEN StartOver(SourceRecovered(run), "poll")
         ELSE /\ Continue([run EXCEPT !.fetched =
                    [k \in 1..(BatchEnd(run) - run.indexed) |-> [kind |-> "Idle"]]], "fetch")
              /\ UNCHANGED status

-----------------------------------------------------------------------------
(* fetch_range: at most `concurrency` heights in flight, in any order; a   *)
(* height first learns an id, then asks for that id's body.                *)

InFlight(kind) == kind \in {"Idle", "Named"}

Yielded == Cardinality({k \in DOMAIN run.fetched :
                \A j \in 1..k : ~ InFlight(run.fetched[j].kind)})

Concurrency == IF Bulk(run) THEN BulkConcurrency ELSE 1

FetchHeader(k) ==
    /\ run.fetched[k].kind = "Idle"
    /\ k <= Yielded + Concurrency
    /\ LET id == HeaderIdAt(run.indexed + k)
       IN  run' = [run EXCEPT !.fetched[k] =
              IF ~ Answers("header") THEN [kind |-> "Error"]
              ELSE IF id = NoParent THEN [kind |-> "NoHeader"]
              ELSE [kind |-> "Named", id |-> id]]

FetchBody(k) ==
    /\ run.fetched[k].kind = "Named"
    /\ run' = [run EXCEPT !.fetched[k] =
          IF ~ Answers("body") THEN [kind |-> "Error"]
          ELSE IF @.id \in src.withheld THEN [kind |-> "NoBody"]
          ELSE IF ~ Answers("decode") THEN [kind |-> "Garbled"]
          ELSE [kind |-> "Body", id |-> @.id]]

Fetch ==
    /\ run.pc = "fetch"
    /\ \E k \in DOMAIN run.fetched : FetchHeader(k) \/ FetchBody(k)
    /\ UnchangedStore /\ UNCHANGED <<src, status, budget>>

(* The contiguous run of bodies, and why it stopped.                       *)
IsBody(result) == result.kind \in {"Body", "Garbled"}

Bodies(fetched) ==
    LET unbroken == {k \in DOMAIN fetched : \A j \in 1..k : IsBody(fetched[j])}
    IN  SubSeq(fetched, 1, Cardinality(unbroken))

StoppedBy(fetched) ==
    IF Len(Bodies(fetched)) = Len(fetched) THEN "Body"
    ELSE fetched[Len(Bodies(fetched)) + 1].kind

(* Mutant: an fsync only when a batch ends on a multiple. *)
DurableOnMultiples(r, n) ==
    ~ Bulk(r) \/ DurableEvery = 0 \/ (r.indexed + n) % DurableEvery = 0

(* Fsync in tip mode, and whenever the batch crosses a multiple of         *)
(* durable_every.                                                          *)
Durable(r, n) == \/ ~ Bulk(r)
                 \/ DurableEvery = 0
                 \/ (r.indexed \div DurableEvery) # ((r.indexed + n) \div DurableEvery)

(* The height apply_batch refuses: one above the part that links.          *)
MismatchHeight(bodies) ==
    LET s == db.chain \o bodies
    IN  1 + Cardinality({h \in 1..Len(s) : \A k \in 1..h : LinkedAt(s, k)})

(* The same height failing again counts on; MismatchLimit in a row stall.  *)
NoteMismatch(r, height) ==
    LET times == IF r.mismatch.height = height /\ r.mismatch.times > 0
                   THEN r.mismatch.times + 1 ELSE 1
        noted == [r EXCEPT !.mismatch = [height |-> height, times |-> times]]
    IN  IF times >= MismatchLimit THEN NoteStall(noted, height, "ParentMismatch")
                                  ELSE noted

(* Mutants: the stall outlives the batch that ends it; a batch that does   *)
(* not fit halts ingest.                                                   *)
AfterApplyStalled(r, n) == [r EXCEPT !.indexed = @ + n, !.mismatch = NoMismatch]

AfterApply(r, n) ==
    [r EXCEPT !.indexed = @ + n, !.stall = NoStall, !.mismatch = NoMismatch]

ApplyBodiesHalting(r, bodies) ==
    /\ ApplyBatch(bodies, Durable(r, Len(bodies)))
    /\ IF outcome' = "Ok" THEN StartOver(AfterApply(r, Len(bodies)), "poll")
                          ELSE Halt(r, outcome')

ApplyBodies(r, bodies) ==
    /\ ApplyBatch(bodies, Durable(r, Len(bodies)))
    /\ CASE outcome' = "Ok" ->
              StartOver(AfterApply(r, Len(bodies)), "poll")
         [] outcome' = "ParentMismatch" ->
              StartOver(NoteMismatch(r, MismatchHeight(bodies)), "poll")
         [] outcome' \notin {"Ok", "ParentMismatch"} -> Halt(r, outcome')

ApplyRange ==
    /\ run.pc = "fetch"
    /\ \A k \in DOMAIN run.fetched : ~ InFlight(run.fetched[k].kind)
    /\ UNCHANGED <<src, budget>>
    /\ LET bodies == Bodies(run.fetched)
           why    == StoppedBy(run.fetched)
           r      == [run EXCEPT !.fetched = <<>>]
       IN  \/ /\ why = "Error"
              /\ StartOver(SourceFailed(r), "poll")
              /\ UnchangedStore
           \/ /\ why # "Error" /\ bodies = <<>>
              /\ StartOver(IF why = "NoBody"
                             THEN NoteStall(SourceRecovered(r), r.indexed + 1, "MissingBody")
                             ELSE SourceRecovered(r), "poll")
              /\ UnchangedStore
           \/ /\ why # "Error" /\ \E k \in DOMAIN bodies : bodies[k].kind = "Garbled"
              /\ Halt(SourceRecovered(r), "Undecodable")
              /\ UnchangedStore
           \/ /\ why # "Error" /\ bodies # <<>>
              /\ \A k \in DOMAIN bodies : bodies[k].kind = "Body"
              /\ ApplyBodies(SourceRecovered(r), [k \in DOMAIN bodies |-> bodies[k].id])

-----------------------------------------------------------------------------
(* What happens around the loop. *)

StartRun(height) ==
    [pc |-> "seed", best |-> 0, indexed |-> height, h |-> 0, fetched |-> <<>>,
     stall |-> NoStall, mismatch |-> NoMismatch, failures |-> 0]

(* The process dies anywhere and is started again; the supervisor is told  *)
(* (exit code 3) not to restart one that needs a reindex.                  *)
Crash ==
    /\ budget.crashes > 0
    /\ status.halted # "ReindexRequired"
    /\ CrashAndOpen
    /\ run' = IF outcome' = "Opened" THEN StartRun(Tip(disk))
                                     ELSE [StartRun(Tip(disk)) EXCEPT !.pc = "halted"]
    /\ status' = Published(StartRun(Tip(disk)), "None")
    /\ budget' = [budget EXCEPT !.crashes = @ - 1]
    /\ UNCHANGED src

(* The store cannot be read for its tip or a header id.                    *)
ReadError ==
    /\ run.pc \in {"seed", "poll", "fork"}
    /\ "Redb" \in Faults
    /\ Halt(IF run.pc = "fork" THEN run ELSE [run EXCEPT !.indexed = 0], "Redb")
    /\ UnchangedStore /\ UNCHANGED <<src, budget>>

(* The auxiliary index rebuilds commit between any two steps.              *)
Backfill ==
    /\ run.pc # "halted"
    /\ AuxiliaryCommit
    /\ UNCHANGED <<src, run, status, budget>>

InitIngest ==
    /\ Init
    /\ src = [tip |-> NoParent, sibling |-> NoParent, withheld |-> {}, down |-> {}]
    /\ run = StartRun(0)
    /\ status = Published(StartRun(0), "None")
    /\ budget = [changes |-> MaxChanges, crashes |-> MaxCrashes]

Step == EnsureGenesis \/ Poll \/ ForkCheck \/ RollbackFork \/ ChooseRange \/ Fetch \/ ApplyRange

NextIngest == Step \/ ReadError \/ SourceChange \/ Backfill \/ Crash

SpecIngest == InitIngest /\ [][NextIngest]_ingestVars

(* The task is scheduled, every request has a timeout and every sleep      *)
(* ends: the loop itself never stops taking steps.  Nothing is assumed of  *)
(* the source, the rebuilds or crashes.                                    *)
FairIngest == SpecIngest /\ WF_ingestVars(Step)

-----------------------------------------------------------------------------
Result == [kind: {"Idle", "Error", "NoHeader", "NoBody", "Garbled"}]
            \cup [kind: {"Named", "Body"}, id: Block]

Halts == {"None", "ReindexRequired", "Corrupt", "RegisterCapacity", "Redb", "Undecodable"}

(* The type invariant. *)
IngestTypeOK ==
    /\ TypeOK
    /\ run.pc \in {"seed", "poll", "fork", "rollback", "range", "fetch", "halted"}
    /\ run.best \in Nat /\ run.indexed \in Nat /\ run.h \in Nat
    /\ run.fetched \in Seq(Result)
    /\ run.failures \in 0..FailureLimit
    /\ run.mismatch \in [height: Nat, times: 0..MismatchLimit]
    /\ run.stall \in [height: Nat, origin: {"None", "MissingBody", "ParentMismatch"}]
    /\ status.halted \in Halts

(* lib.rs:29-32: without fsync on every batch, a crash still costs fewer   *)
(* than durable_every blocks, whatever rollbacks and tip-mode commits came *)
(* in between and however batches straddle the multiples.                  *)
CrashLossBound ==
    Tip(db) - Tip(disk) < (IF DurableEvery = 0 THEN 1 ELSE DurableEvery)

(* Between iterations the published height is the store's: every path back *)
(* to the top of the loop publishes after it changed the store.            *)
StatusFresh == run.pc \in {"poll", "seed"} => status.indexed = Tip(db)

(* Heights read before an await are still the store's when used: nothing   *)
(* but this loop moves the tip, so the batch asked for is the one that can *)
(* be applied.                                                             *)
IndexedCurrent == run.pc \in {"fork", "rollback", "range", "fetch"} => run.indexed = Tip(db)

(* A published stall is about a height still to come, and that of a body   *)
(* the source refuses about the very next one: an applied batch ends any   *)
(* stall, and a rollback one that it takes out of reach (lib.rs run).  A   *)
(* block the node withdraws stays noted while the loop idles at the tip.   *)
StallAhead ==
    status.stalled # NoStall =>
        /\ status.stalled.height > Tip(db)
        /\ status.stalled.origin = "MissingBody" => status.stalled.height = Tip(db) + 1

Branches == {Branch[t] : t \in (Tips \cup Siblings) \ {NoParent}}

SharesUpTo(s, t, n) == Len(s) >= n /\ Len(t) >= n /\ \A h \in 1..n : s[h] = t[h]

(* The lowest height rollback_to may still go back to. *)
UndoFloor == IF Tip(db) = db.peak THEN Tip(db) - Window ELSE db.peak - Window - 1

(* Ingest stops for a reindex only when some branch the source can serve   *)
(* leaves ours at or below the lowest height a rollback may still reach,   *)
(* or nothing can be undone at all: mixed answers of a source that moves   *)
(* during the walk, or a misnamed sibling, never make it give up on a      *)
(* shallower fork.                                                         *)
ReindexOnlyBelowFloor ==
    status.halted = "ReindexRequired" =>
        \/ Tip(db) = UndoFloor
        \/ \E b \in Branches : ~ SharesUpTo(b, db.chain, UndoFloor)

-----------------------------------------------------------------------------
SourceGood == /\ src.down = {} /\ src.sibling = NoParent
              /\ src.withheld \cap {SourceBranch[h] : h \in 1..BestHeight} = {}

(* The source is behind us, or leaves us at the very first block.          *)
CannotFollow == \/ BestHeight < Tip(db)
                \/ /\ BestHeight > 0 /\ db.chain # <<>>
                   /\ HeaderIdAt(1) # db.chain[1]

(* At the source's height, on the block it names there. *)
AtTip == /\ Tip(db) = BestHeight
         /\ db.chain # <<>> => db.chain[Tip(db)] = HeaderIdAt(Tip(db))

(* Stopped for good: for a reindex, by a store that fails, or by a body    *)
(* that does not decode.  A batch that does not fit, fetched from a source *)
(* that moved meanwhile, is no reason to.                                  *)
Halted == run.pc = "halted" /\ status.halted # "ParentMismatch"

(* Once the source settles on a branch and serves it, ingest ends up       *)
(* holding exactly that branch, whatever it had indexed, unless it halted  *)
(* or the source is behind.                                                *)
Converges ==
    (<>[]SourceGood) => <>[](Halted \/ CannotFollow \/ db.chain = SourceBranch)

(* When a source that answers keeps ingest from following it, by refusing  *)
(* a body or naming a block its own chain does not continue, a stall is    *)
(* published again and again: the tip never freezes in silence.            *)
NoSilentFreeze ==
    (<>[](src.down = {})) =>
        \/ <>[](Halted \/ CannotFollow \/ AtTip)
        \/ []<>(status.stalled # NoStall)

(* If the source keeps failing headers, or does not even tell its height,  *)
(* the published error appears and stays: an answering /info does not hide *)
(* failures further along.                                                 *)
OutageShown ==
    (<>[](~ Answers("info") \/ (~ Answers("header") /\ db.chain # <<>>))) =>
        <>[](Halted \/ status.sourceError)

(* bin/explorer/README.md:32, lib.rs:5: a fork with no common ancestor at  *)
(* genesis halts ingest.                                                   *)
ForkAtGenesisHalts ==
    (<>[](/\ SourceGood /\ BestHeight >= Tip(db) /\ db.chain # <<>>
          /\ SourceBranch[1] # db.chain[1])) => <>Halted
=============================================================================
