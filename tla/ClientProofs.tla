---------------------------- MODULE ClientProofs ----------------------------
(***************************************************************************)
(* Two modules that call ChainStore, each with ChainStore's own invariant  *)
(* (IInv) carried through its steps.                                       *)
(*                                                                         *)
(* Ingest, for every block tree, configuration and source: the safety of   *)
(* the loop follows from what its locals and the published status owe the  *)
(* store's tip at each pc.                                                 *)
(*                                                                         *)
(* TokenHistory, for every block tree, set of tokens and boxes, batch size *)
(* and rollback window: an index that reports ready is exact, and rebuild  *)
(* progress is never lost between binaries that know the index.            *)
(***************************************************************************)
EXTENDS Ingest, TokenHistory, ChainStoreProofs, FiniteSetTheorems, SequenceTheorems

-----------------------------------------------------------------------------
(* The ingest loop.                                                        *)

Stalls == [height: Nat, origin: {"None", "MissingBody", "ParentMismatch"}]

Pcs == {"seed", "poll", "fork", "rollback", "range", "fetch", "halted"}

Run == [pc: Pcs, best: Nat, indexed: Nat, h: Nat, fetched: Seq(Result),
        stall: Stalls, mismatch: [height: Nat, times: 0..MismatchLimit],
        failures: 0..FailureLimit]

Status == [indexed: Nat, best: Nat, halted: Halts, stalled: Stalls,
           sourceError: BOOLEAN]

Source == [tip: Block \cup {NoParent}, sibling: Block \cup {NoParent},
           withheld: SUBSET Withholdable, down: SUBSET Endpoints]

Budget == [changes: Nat, crashes: Nat]

Ahead(stall, tip) ==
    stall # NoStall => /\ stall.height > tip
                       /\ stall.origin = "MissingBody" => stall.height = tip + 1

GarbledExplained(fetched) ==
    \A k \in DOMAIN fetched : fetched[k].kind = "Garbled" => "decode" \in Endpoints

(* What the locals owe the tip wherever the loop is. *)
LocalsOK(r, tip) == /\ r \in Run
                    /\ Ahead(r.stall, tip)
                    /\ GarbledExplained(r.fetched)

(* And what they owe it at each pc: the tip read before an await is still  *)
(* the tip; the walk starts below a doubted tip; a doubted tip is dropped  *)
(* before anything is fetched for it.                                      *)
PcOK(r, tip) ==
    /\ r.pc \in {"seed", "fork", "rollback", "range", "fetch"} => r.indexed = tip
    /\ r.pc = "fork" => r.h <= tip /\ (DistrustTip(r) /\ tip > 1 => r.h < tip)
    /\ r.pc = "rollback" => r.h \in 1..tip
    /\ r.pc \in {"range", "fetch"} => ~ DistrustTip(r)

RunOK(r, tip) == LocalsOK(r, tip) /\ PcOK(r, tip)

Explained == {"None", "ReindexRequired"} \cup Faults
               \cup (IF "decode" \in Endpoints THEN {"Undecodable"} ELSE {})

StatusOK(s, tip) == /\ s \in Status
                    /\ Ahead(s.stalled, tip)
                    /\ s.halted \in Explained

(* Everything above the last multiple of durable_every may be lost, and    *)
(* nothing below it.                                                       *)
TailDurable ==
    IF DurableEvery = 0 THEN Tip(db) = Tip(disk)
    ELSE Tip(db) \div DurableEvery = Tip(disk) \div DurableEvery

Fresh(r, s, tip) == r.pc \in {"poll", "seed"} => s.indexed = tip

IngestInv ==
    /\ IInv
    /\ TailDurable
    /\ RunOK(run, Tip(db))
    /\ StatusOK(status, Tip(db))
    /\ Fresh(run, status, Tip(db))
    /\ src \in Source
    /\ budget \in Budget

USE ConfigAssumption

-----------------------------------------------------------------------------
(* Publishing: the status says what the locals say. *)
LEMMA PublishedOK ==
    ASSUME NEW tip \in Nat, NEW r, LocalsOK(r, tip), NEW halted \in Halts \cap Explained
    PROVE  StatusOK(Published(r, halted), tip)
BY DEF LocalsOK, Run, StatusOK, Status, Published, Ahead

(* Moving on to another pc does not touch what holds at every pc. *)
LEMMA AtPc ==
    ASSUME NEW tip, NEW r, LocalsOK(r, tip), NEW pc \in Pcs,
           NEW q, q = [r EXCEPT !.pc = pc]
    PROVE  /\ LocalsOK(q, tip) /\ q.pc = pc
           /\ q.indexed = r.indexed /\ q.h = r.h /\ q.stall = r.stall
           /\ q.mismatch = r.mismatch
BY DEF LocalsOK, Run

(* A store of its own height to start over with: the iteration ends well.  *)
LEMMA StartOverOK ==
    ASSUME NEW tip \in Nat, NEW r, LocalsOK(r, tip), r.indexed = tip,
           NEW pc \in {"poll", "seed"}, StartOver(r, pc)
    PROVE  RunOK(run', tip) /\ StatusOK(status', tip) /\ Fresh(run', status', tip)
<1>1. LocalsOK(run', tip) /\ run'.pc = pc
  BY AtPc DEF StartOver, Pcs
<1>2. "None" \in Halts \cap Explained
  BY DEF Halts, Explained
<1>3. status'.indexed = tip
  BY DEF StartOver, Published
<1> QED BY <1>1, <1>2, <1>3, PublishedOK DEF StartOver, RunOK, PcOK, Fresh

(* A halt leaves no obligation but its reason. *)
LEMMA HaltOK ==
    ASSUME NEW tip \in Nat, NEW r, LocalsOK(r, tip),
           NEW reason \in Halts \cap Explained, Halt(r, reason)
    PROVE  RunOK(run', tip) /\ StatusOK(status', tip) /\ Fresh(run', status', tip)
<1>1. LocalsOK(run', tip) /\ run'.pc = "halted"
  BY AtPc DEF Halt, Pcs
<1> QED BY <1>1, PublishedOK DEF Halt, RunOK, PcOK, Fresh

(* What the invariant says before a step. *)
LEMMA Facts ==
    ASSUME IngestInv
    PROVE  /\ IInv /\ Tip(db) \in Nat /\ Tip(disk) \in Nat
           /\ LocalsOK(run, Tip(db)) /\ PcOK(run, Tip(db)) /\ run \in Run
           /\ StatusOK(status, Tip(db)) /\ src \in Source /\ budget \in Budget
BY DEF IngestInv, RunOK, LocalsOK, IInv, Sound, Database, Tip

(* A step that commits nothing. *)
LEMMA StoreKept ==
    ASSUME IngestInv, db' = db, disk' = disk, outcome' \in Outcome \ {"Refused"},
           src' \in Source, budget' \in Budget,
           RunOK(run', Tip(db)), StatusOK(status', Tip(db)), Fresh(run', status', Tip(db))
    PROVE  IngestInv'
<1>1. IInv'
  BY Facts DEF IInv, Sound, CrashOnlyTruncates
<1> QED BY <1>1 DEF IngestInv, TailDurable

(* A step that does not call the store at all. *)
LEMMA StoreIdle ==
    ASSUME IngestInv, UnchangedStore, src' \in Source, budget' \in Budget,
           RunOK(run', Tip(db)), StatusOK(status', Tip(db)), Fresh(run', status', Tip(db))
    PROVE  IngestInv'
<1>1. db' = db /\ disk' = disk /\ outcome' \in Outcome \ {"Refused"}
  BY Facts DEF UnchangedStore, IInv
<1> QED BY <1>1, StoreKept

(* A failed attempt, and a whole one, only count. *)
LEMMA FailuresOK ==
    ASSUME NEW tip, NEW r, LocalsOK(r, tip), NEW q \in {SourceFailed(r), SourceRecovered(r)}
    PROVE  /\ LocalsOK(q, tip) /\ q.pc = r.pc /\ q.indexed = r.indexed /\ q.h = r.h
           /\ q.mismatch = r.mismatch /\ q.stall = r.stall /\ q.fetched = r.fetched
BY DEF LocalsOK, Run, SourceFailed, SourceRecovered, FailureLimit

(* So do the answer of best_height and the walk's next height. *)
LEMMA HeightOK ==
    ASSUME NEW tip, NEW r, LocalsOK(r, tip), NEW h \in Nat, NEW q, q = [r EXCEPT !.h = h]
    PROVE  /\ LocalsOK(q, tip) /\ q.indexed = r.indexed /\ q.h = h
           /\ q.mismatch = r.mismatch
BY DEF LocalsOK, Run

LEMMA MismatchOK ==
    ASSUME NEW r, NEW tip \in Nat, LocalsOK(r, tip)
    PROVE  /\ LocalsOK([r EXCEPT !.mismatch = NoMismatch], tip)
           /\ [r EXCEPT !.mismatch = NoMismatch].indexed = r.indexed
<1> DEFINE none == NoMismatch
           q == [r EXCEPT !.mismatch = none]
<1>1. none \in [height: Nat, times: 0..MismatchLimit]
  BY ConfigAssumption DEF NoMismatch
<1>2. /\ r \in Run /\ q = [r EXCEPT !.mismatch = none]
  BY DEF LocalsOK
<1> HIDE DEF none
<1>3. q \in Run /\ q.stall = r.stall /\ q.fetched = r.fetched /\ q.indexed = r.indexed
  BY <1>1, <1>2 DEF Run
<1> QED BY <1>3 DEF LocalsOK, none

(* Every reason the loop halts for is one the status may carry. *)
LEMMA HaltReasons ==
    /\ {"None", "ReindexRequired"} \subseteq Halts \cap Explained
    /\ Faults \subseteq Halts \cap Explained
    /\ "decode" \in Endpoints => "Undecodable" \in Halts \cap Explained
BY FaultsAssumption DEF Halts, Explained

-----------------------------------------------------------------------------
(* best_height, and where the walk begins. *)
LEMMA PollKeeps == ASSUME IngestInv, Poll PROVE IngestInv'
<1> DEFINE tip == Tip(db)
           r == [run EXCEPT !.indexed = tip]
<1>1. /\ LocalsOK(r, tip) /\ r.indexed = tip /\ tip \in Nat /\ r.pc = "poll"
      /\ r.mismatch = run.mismatch
  BY Facts DEF LocalsOK, Run, Poll
<1>2. CASE StartOver(SourceFailed(r), "poll")
  BY <1>1, <1>2, FailuresOK, StartOverOK, StoreIdle, Facts DEF Poll
<1>3. CASE Continue(Answered(r), "fork") /\ UNCHANGED status
  <2> DEFINE a == Answered(r)
             h == IF DistrustTip(r) /\ tip > 1 THEN tip - 1 ELSE tip
  <2>1. BestHeight \in Nat
    BY SourceAssumption, Facts DEF BestHeight, SourceBranch, Source
  <2>2. h \in Nat /\ a = [r EXCEPT !.best = BestHeight, !.h = h]
    BY <1>1 DEF Answered
  <2>3. LocalsOK(a, tip) /\ a.indexed = tip /\ a.mismatch = r.mismatch /\ a.h = h
    <3> HIDE DEF h, a, r
    <3> QED BY <1>1, <2>1, <2>2 DEF LocalsOK, Run
  <2>4. run' = [a EXCEPT !.pc = "fork"]
    BY <1>3 DEF Continue
  <2> HIDE DEF a
  <2>5. /\ LocalsOK(run', tip) /\ run'.pc = "fork" /\ run'.indexed = tip
        /\ run'.h = a.h /\ run'.mismatch = a.mismatch
    BY <2>3, <2>4, AtPc DEF Pcs
  <2>6. PcOK(run', tip)
    BY <1>1, <2>3, <2>5 DEF PcOK, DistrustTip
  <2> QED BY <1>3, <2>5, <2>6, StoreIdle, Facts DEF Poll, RunOK, Fresh
<1> QED BY <1>2, <1>3 DEF Poll

(* The walk: a doubted tip never comes out of it as agreed.                *)
LEMMA ForkCheckKeeps == ASSUME IngestInv, ForkCheck PROVE IngestInv'
<1> DEFINE tip == Tip(db)
<1>1. /\ LocalsOK(run, tip) /\ run.indexed = tip /\ tip \in Nat /\ run.h \in Nat
      /\ run.h <= tip /\ (DistrustTip(run) /\ tip > 1 => run.h < tip)
      /\ StatusOK(status, tip) /\ src' \in Source /\ budget' \in Budget
      /\ UnchangedStore
  BY Facts DEF ForkCheck, PcOK, Run
<1>2. CASE StartOver([run EXCEPT !.mismatch = NoMismatch], "poll")
  <2>1. /\ LocalsOK([run EXCEPT !.mismatch = NoMismatch], tip)
        /\ [run EXCEPT !.mismatch = NoMismatch].indexed = tip
    <3> HIDE DEF tip
    <3> QED BY <1>1, MismatchOK
  <2> QED BY <1>1, <1>2, <2>1, StartOverOK, StoreIdle
<1>3. CASE StartOver(SourceFailed(run), "poll") \/ StartOver(SourceRecovered(run), "poll")
  BY <1>1, <1>3, FailuresOK, StartOverOK, StoreIdle
<1>4. CASE Halt(run, "ReindexRequired")
  BY <1>1, <1>4, HaltReasons, HaltOK, StoreIdle
<1>5. CASE ForkAnswer(run) = "Agreed" /\ Continue(run, "range") /\ UNCHANGED status
  <2>1. ~ DistrustTip(run)
    BY <1>1, <1>5 DEF ForkAnswer
  <2>2. /\ LocalsOK(run', tip) /\ run'.pc = "range" /\ run'.indexed = tip
        /\ ~ DistrustTip(run')
    BY <1>1, <1>5, <2>1, AtPc DEF Continue, Pcs, DistrustTip
  <2> QED BY <1>1, <1>5, <2>2, StoreIdle DEF RunOK, PcOK, Fresh
<1>6. CASE ForkAnswer(run) = "RollbackTo" /\ Continue(run, "rollback") /\ UNCHANGED status
  <2>1. run.h \in 1..tip
    BY <1>6 DEF ForkAnswer, Agrees
  <2>2. /\ LocalsOK(run', tip) /\ run'.pc = "rollback" /\ run'.indexed = tip
        /\ run'.h = run.h
    BY <1>1, <1>6, AtPc DEF Continue, Pcs
  <2> QED BY <1>1, <1>6, <2>1, <2>2, StoreIdle DEF RunOK, PcOK, Fresh
<1>7. CASE /\ ForkAnswer(run) = "Lower"
           /\ Continue([run EXCEPT !.h = @ - 1], "fork") /\ UNCHANGED status
  <2> DEFINE q == [run EXCEPT !.h = @ - 1]
  <2>1. run.h # 0
    BY <1>7 DEF ForkAnswer, TooDeep
  <2>2. /\ run.h - 1 \in Nat /\ q = [run EXCEPT !.h = run.h - 1]
        /\ run' = [q EXCEPT !.pc = "fork"]
    BY <1>1, <1>7, <2>1 DEF Continue
  <2> HIDE DEF q
  <2>3. /\ LocalsOK(run', tip) /\ run'.pc = "fork" /\ run'.indexed = tip
        /\ run'.h = run.h - 1 /\ run'.mismatch = run.mismatch
    <3>1. /\ LocalsOK(q, tip) /\ q.indexed = tip /\ q.h = run.h - 1
          /\ q.mismatch = run.mismatch
      BY <1>1, <2>2, HeightOK
    <3> QED BY <2>2, <3>1 DEF LocalsOK, Run, Pcs
  <2>4. PcOK(run', tip)
    BY <1>1, <2>3 DEF PcOK, DistrustTip
  <2> QED BY <1>1, <1>7, <2>3, <2>4, StoreIdle DEF RunOK, Fresh
<1> QED BY <1>2, <1>3, <1>4, <1>5, <1>6, <1>7 DEF ForkCheck

(* rollback_to: the tip is then the height the walk ended at, and a stall  *)
(* that outlives it is still above the tip.                                *)
LEMMA RollbackStepKeeps == ASSUME IngestInv, RollbackFork PROVE IngestInv'
<1> DEFINE tip == Tip(db)
           h == run.h
           r == AfterRollback(run)
<1>1. /\ LocalsOK(run, tip) /\ run.indexed = tip /\ tip \in Nat /\ h \in 1..tip
      /\ StatusOK(status, tip) /\ src' \in Source /\ budget' \in Budget
      /\ RollbackTo(h) /\ IInv /\ tip = Len(db.chain)
  BY Facts, IInvFacts DEF RollbackFork, PcOK
<1>2. IInv'
  BY <1>1, RollbackKeeps
<1>3. CASE /\ RollbackOutcome(db, h) = "Ok"
           /\ IF tip <= h THEN Fail("Ok") ELSE CommitImmediate(Truncate(db, h))
  <2>1. Tip(db') = h /\ TailDurable' /\ outcome' = "Ok"
    <3>1. CASE tip <= h
      <4>1. db' = db /\ disk' = disk /\ outcome' = "Ok" /\ h = tip
        BY <1>1, <1>3, <3>1 DEF Fail
      <4> QED BY <4>1 DEF TailDurable, IngestInv
    <3>2. CASE ~ (tip <= h)
      <4>1. Len(Truncate(db, h).chain) = h
        BY <1>1, <1>3, <3>2, IInvFacts, TruncateSound
      <4> QED BY <1>1, <1>3, <3>2, <4>1 DEF CommitImmediate, TailDurable, Tip
    <3> QED BY <3>1, <3>2
  <2>2. LocalsOK(r, h) /\ r.indexed = h /\ r.mismatch = NoMismatch
    <3>1. LocalsOK(run, tip)
      BY <1>1
    <3>2. h \in Nat
      BY <1>1
    <3>0. /\ run \in Run /\ NoMismatch \in [height: Nat, times: 0..MismatchLimit]
          /\ (IF run.stall.origin = "ParentMismatch" THEN run.stall ELSE NoStall) \in Stalls
      BY <3>1 DEF LocalsOK, Run, NoStall, NoMismatch, Stalls
    <3>3. r \in Run /\ r.indexed = h /\ r.mismatch = NoMismatch /\ r.fetched = run.fetched
      <4> HIDE DEF NoMismatch, NoStall, Stalls
      <4> QED BY <3>0, <3>2 DEF Run, AfterRollback
    <3>4. Ahead(r.stall, h)
      <4>1. r.stall = IF run.stall.origin = "ParentMismatch" THEN run.stall ELSE NoStall
        BY <3>1 DEF LocalsOK, Run, AfterRollback
      <4>2. run.stall \in Stalls /\ Ahead(run.stall, tip)
        BY <3>1 DEF LocalsOK, Run
      <4>3. r.stall.origin # "MissingBody"
        BY <4>1 DEF NoStall
      <4> HIDE DEF r
      <4> QED BY <1>1, <4>1, <4>2, <4>3, <3>2 DEF Ahead, Stalls
    <3> QED BY <3>1, <3>3, <3>4 DEF LocalsOK
  <2>3. Continue(r, "range") /\ status' = Published(r, "None")
    BY <2>1 DEF RollbackFork
  <2>4. h \in Nat
    BY <1>1
  <2> HIDE DEF r, h
  <2>5. /\ LocalsOK(run', h) /\ run'.pc = "range" /\ run'.indexed = h
        /\ run'.mismatch = NoMismatch
    BY <2>2, <2>3 DEF Continue, LocalsOK, Run, Pcs
  <2>6. RunOK(run', h)
    BY <2>5 DEF RunOK, PcOK, DistrustTip, NoMismatch
  <2>7. StatusOK(status', h)
    BY <2>2, <2>3, <2>4, PublishedOK, HaltReasons
  <2> QED BY <1>1, <1>2, <2>1, <2>5, <2>6, <2>7 DEF IngestInv, Fresh
<1>4. CASE \E error \in {"ReindexRequired"} \cup Faults : Fail(error)
  <2>1. PICK error \in {"ReindexRequired"} \cup Faults : Fail(error)
    BY <1>4
  <2>2. Halt(run, error) /\ db' = db /\ disk' = disk /\ outcome' \in Outcome \ {"Refused"}
    BY <2>1, FaultsAssumption DEF RollbackFork, Fail, Outcome
  <2> QED BY <1>1, <2>2, HaltReasons, HaltOK, StoreKept
<1>5. RollbackOutcome(db, h) \in {"Ok", "ReindexRequired"}
  <2>1. CASE h = tip
    BY <1>1, <2>1 DEF RollbackOutcome
  <2>2. CASE h < tip /\ tip - h > Window
    BY <1>1, <2>2 DEF RollbackOutcome
  <2>3. CASE h < tip /\ tip - h <= Window
    BY <1>1, <2>3 DEF RollbackOutcome
  <2> QED BY <1>1, <2>1, <2>2, <2>3, WindowAssumption
<1> QED BY <1>1, <1>3, <1>4, <1>5 DEF RollbackTo

(* Choosing a range reads nothing but the locals. *)
LEMMA ChooseRangeKeeps == ASSUME IngestInv, ChooseRange PROVE IngestInv'
<1> DEFINE tip == Tip(db)
           idle == [k \in 1..(BatchEnd(run) - run.indexed) |-> [kind |-> "Idle"]]
<1>1. /\ LocalsOK(run, tip) /\ run.indexed = tip /\ tip \in Nat /\ ~ DistrustTip(run)
      /\ run.best \in Nat
      /\ StatusOK(status, tip) /\ src' \in Source /\ budget' \in Budget /\ UnchangedStore
  BY Facts DEF ChooseRange, PcOK, Run
<1>2. CASE StartOver(SourceRecovered(run), "poll")
  BY <1>1, <1>2, FailuresOK, StartOverOK, StoreIdle
<1>3. CASE /\ run.indexed < run.best
           /\ Continue([run EXCEPT !.fetched = idle], "fetch") /\ UNCHANGED status
  <2>1. BatchEnd(run) - run.indexed \in Nat
    BY <1>1, <1>3 DEF BatchEnd, Smaller
  <2>2. idle \in Seq(Result) /\ GarbledExplained(idle)
    <3>1. [kind |-> "Idle"] \in Result
      BY DEF Result
    <3> HIDE DEF Result
    <3> QED BY <2>1, <3>1 DEF GarbledExplained
  <2> HIDE DEF idle
  <2>3. /\ LocalsOK(run', tip) /\ run'.pc = "fetch" /\ run'.indexed = tip
        /\ run'.mismatch = run.mismatch
    BY <1>1, <1>3, <2>2 DEF Continue, LocalsOK, Run, Pcs
  <2> QED BY <1>1, <1>3, <2>3, StoreIdle DEF RunOK, PcOK, DistrustTip, Fresh
<1> QED BY <1>1, <1>2, <1>3 DEF ChooseRange, UpToDate

(* One answer about one height. *)
LEMMA FetchKeeps == ASSUME IngestInv, Fetch PROVE IngestInv'
<1> DEFINE tip == Tip(db)
<1>1. /\ LocalsOK(run, tip) /\ run.indexed = tip /\ tip \in Nat /\ ~ DistrustTip(run)
      /\ run.pc = "fetch" /\ run.fetched \in Seq(Result) /\ src \in Source
      /\ StatusOK(status, tip) /\ src' \in Source /\ budget' \in Budget /\ UnchangedStore
  BY Facts DEF Fetch, PcOK, Run
<1>2. PICK k \in DOMAIN run.fetched : FetchHeader(k) \/ FetchBody(k)
  BY DEF Fetch
<1>3. \E x \in Result : /\ run' = [run EXCEPT !.fetched[k] = x]
                        /\ x.kind = "Garbled" => "decode" \in Endpoints
  <2>1. CASE FetchHeader(k)
    <3>1. \A h : HeaderIdAt(h) \in Block \cup {NoParent}
      BY <1>1, SourceAssumption DEF HeaderIdAt, Source, BestHeight, SourceBranch
    <3> DEFINE id == HeaderIdAt(run.indexed + k)
               x == IF ~ Answers("header") THEN [kind |-> "Error"]
                    ELSE IF id = NoParent THEN [kind |-> "NoHeader"]
                    ELSE [kind |-> "Named", id |-> id]
    <3>2. x \in Result /\ x.kind # "Garbled"
      BY <3>1 DEF Result
    <3>3. run' = [run EXCEPT !.fetched[k] = x]
      BY <2>1 DEF FetchHeader
    <3> QED BY <3>2, <3>3
  <2>2. CASE FetchBody(k)
    <3>1. run.fetched[k] \in Result /\ run.fetched[k].kind = "Named"
      BY <1>1, <1>2, <2>2 DEF FetchBody
    <3>2. run.fetched[k].id \in Block
      BY <3>1 DEF Result
    <3>3. ~ Answers("decode") => "decode" \in Endpoints
      BY <1>1 DEF Answers, Source
    <3> DEFINE id == run.fetched[k].id
               x == IF ~ Answers("body") THEN [kind |-> "Error"]
                    ELSE IF id \in src.withheld THEN [kind |-> "NoBody"]
                    ELSE IF ~ Answers("decode") THEN [kind |-> "Garbled"]
                    ELSE [kind |-> "Body", id |-> id]
    <3>4. x \in Result /\ (x.kind = "Garbled" => "decode" \in Endpoints)
      BY <3>2, <3>3 DEF Result
    <3>5. run' = [run EXCEPT !.fetched[k] = x]
      BY <1>1, <2>2 DEF FetchBody
    <3> QED BY <3>4, <3>5
  <2> QED BY <1>2, <2>1, <2>2
<1>4. PICK x \in Result : /\ run' = [run EXCEPT !.fetched[k] = x]
                          /\ x.kind = "Garbled" => "decode" \in Endpoints
  BY <1>3
<1> DEFINE f == [run.fetched EXCEPT ![k] = x]
<1>5. f \in Seq(Result) /\ GarbledExplained(f)
  <2> HIDE DEF Result
  <2>1. f \in Seq(Result) /\ DOMAIN f = DOMAIN run.fetched
    BY <1>1
  <2> QED BY <1>1, <1>4, <2>1 DEF GarbledExplained, LocalsOK
<1>6. run' = [run EXCEPT !.fetched = f]
  BY <1>4
<1> HIDE DEF f
<1>7. /\ LocalsOK(run', tip) /\ run'.pc = "fetch" /\ run'.indexed = tip
      /\ run'.mismatch = run.mismatch
  BY <1>1, <1>5, <1>6 DEF LocalsOK, Run
<1> QED BY <1>1, <1>7, StoreIdle DEF Fetch, RunOK, PcOK, DistrustTip, Fresh

(* Bodies takes a prefix of what was fetched. *)
LEMMA BodiesPrefix ==
    ASSUME NEW S, NEW fetched \in Seq(S)
    PROVE  /\ Bodies(fetched) \in Seq(S)
           /\ Len(Bodies(fetched)) \in 0..Len(fetched)
           /\ \A k \in DOMAIN Bodies(fetched) :
                 k \in DOMAIN fetched /\ Bodies(fetched)[k] = fetched[k]
<1> DEFINE unbroken == {k \in DOMAIN fetched : \A j \in 1..k : IsBody(fetched[j])}
           n == Cardinality(unbroken)
<1>1. Len(fetched) \in Nat /\ DOMAIN fetched = 1..Len(fetched)
  OBVIOUS
<1>2. /\ IsFiniteSet(1..Len(fetched))
      /\ Cardinality(1..Len(fetched)) = Len(fetched)
  BY <1>1, FS_Interval
<1>3. unbroken \in SUBSET (1..Len(fetched))
  BY <1>1
<1>4. IsFiniteSet(unbroken) /\ n <= Len(fetched)
  <2> HIDE DEF unbroken
  <2> QED BY <1>2, <1>3, FS_Subset
<1>5. n \in Nat
  <2> HIDE DEF unbroken
  <2> QED BY <1>4, FS_CardinalityType
<1>6. Bodies(fetched) = SubSeq(fetched, 1, n)
  BY DEF Bodies
<1> HIDE DEF n
<1> QED BY <1>1, <1>4, <1>5, <1>6

(* A batch that does not fit fails above the tip: the chain itself links.  *)
LEMMA MismatchAbove ==
    ASSUME IInv, NEW batch \in Seq(Block)
    PROVE  MismatchHeight(batch) \in Nat /\ MismatchHeight(batch) > Tip(db)
<1> DEFINE s == db.chain \o batch
           linked == {h \in 1..Len(s) : \A k \in 1..h : LinkedAt(s, k)}
           tip == Tip(db)
<1>1. /\ db.chain \in Seq(Block) /\ tip = Len(db.chain) /\ tip \in Nat
      /\ Linked(db.chain) /\ Len(s) \in Nat /\ Len(s) >= tip
  BY IInvFacts DEF Sound
<1>2. ASSUME NEW h \in 1..tip PROVE LinkedAt(s, h)
  <2>1. LinkedAt(db.chain, h)
    BY <1>1 DEF Linked
  <2>2. \A i \in 1..tip : s[i] = db.chain[i]
    BY <1>1
  <2>3. h > 1 => h - 1 \in 1..tip
    BY <1>1
  <2> QED BY <2>1, <2>2, <2>3 DEF LinkedAt
<1>3. 1..tip \in SUBSET linked /\ linked \in SUBSET (1..Len(s))
  BY <1>1, <1>2
<1>4. MismatchHeight(batch) = 1 + Cardinality(linked)
  BY DEF MismatchHeight
<1>5. tip \in Int /\ Len(s) \in Int /\ 1 \in Int
  BY <1>1
<1> HIDE DEF linked, s, tip
<1>6. IsFiniteSet(1..Len(s)) /\ Cardinality(1..tip) = IF 1 > tip THEN 0 ELSE tip - 1 + 1
  BY <1>5, FS_Interval
<1>7. IsFiniteSet(linked) /\ Cardinality(linked) \in Nat
  BY <1>3, <1>6, FS_Subset, FS_CardinalityType
<1>8. Cardinality(1..tip) <= Cardinality(linked)
  BY <1>3, <1>7, FS_Subset
<1> QED BY <1>1, <1>4, <1>6, <1>7, <1>8 DEF tip

(* A batch that is not fsynced stays between two multiples.                *)
LEMMA NotDurable ==
    ASSUME NEW r, NEW n \in Nat, ~ Durable(r, n)
    PROVE  /\ DurableEvery # 0
           /\ r.indexed \div DurableEvery = (r.indexed + n) \div DurableEvery
BY DEF Durable

(* A failing height is counted, and stalls above the tip.                  *)
LEMMA NoteMismatchOK ==
    ASSUME NEW tip \in Nat, NEW r, LocalsOK(r, tip), ~ DistrustTip(r),
           NEW height \in Nat, height > tip
    PROVE  LocalsOK(NoteMismatch(r, height), tip) /\ NoteMismatch(r, height).indexed = r.indexed
<1> DEFINE times == IF r.mismatch.height = height /\ r.mismatch.times > 0
                      THEN r.mismatch.times + 1 ELSE 1
           entry == [height |-> height, times |-> times]
           noted == [r EXCEPT !.mismatch = entry]
<1>1. r \in Run /\ r.mismatch \in [height: Nat, times: 0..MismatchLimit]
  BY DEF LocalsOK, Run
<1>2. times \in 0..MismatchLimit
  BY <1>1 DEF DistrustTip
<1>3. entry \in [height: Nat, times: 0..MismatchLimit]
  BY <1>2
<1> HIDE DEF entry
<1>4. LocalsOK(noted, tip) /\ noted.indexed = r.indexed
  BY <1>1, <1>3 DEF LocalsOK, Run
<1>5. NoteMismatch(r, height) = IF times >= MismatchLimit
        THEN NoteStall(noted, height, "ParentMismatch") ELSE noted
  BY DEF NoteMismatch, entry
<1> HIDE DEF noted, times
<1>6. /\ LocalsOK(NoteStall(noted, height, "ParentMismatch"), tip)
      /\ NoteStall(noted, height, "ParentMismatch").indexed = r.indexed
  BY <1>4 DEF LocalsOK, Run, NoteStall, Stalls, Ahead
<1> QED BY <1>4, <1>5, <1>6

(* apply_batch: an applied batch ends any stall and moves the loop with    *)
(* the tip; one that does not fit is counted; other errors halt.           *)
LEMMA ApplyBodiesKeeps ==
    ASSUME IngestInv, NEW r, LocalsOK(r, Tip(db)), r.indexed = Tip(db), ~ DistrustTip(r),
           NEW batch \in Seq(Block), batch # <<>>, ApplyBodies(r, batch),
           src' \in Source, budget' \in Budget
    PROVE  IngestInv'
<1> DEFINE tip == Tip(db)
           n == Len(batch)
           durable == Durable(r, n)
<1>0. durable \in BOOLEAN
  BY Zenon DEF Durable
<1>1. /\ IInv /\ tip \in Nat /\ n \in Nat /\ durable \in BOOLEAN
      /\ ApplyBatch(batch, durable) /\ LocalsOK(r, tip)
  <2> HIDE DEF durable
  <2> QED BY <1>0, Facts DEF ApplyBodies, durable
<1>2. IInv'
  BY <1>1, ApplyKeeps
<1>3. CASE Accepts(db, batch) /\ IF durable THEN CommitImmediate(Extend(db, batch))
                                             ELSE CommitNone(Extend(db, batch))
  <2> DEFINE q == AfterApply(r, n)
  <2>1. Len(Extend(db, batch).chain) = tip + n
    BY <1>1, IInvFacts DEF Extend, Tip, Database
  <2>2. Tip(db') = tip + n /\ outcome' = "Ok" /\ StartOver(q, "poll")
    BY <1>3, <2>1 DEF CommitImmediate, CommitNone, Tip, ApplyBodies
  <2>3. TailDurable'
    <3>1. CASE durable
      BY <1>3, <3>1 DEF TailDurable, CommitImmediate
    <3>2. CASE ~ durable
      <4>1. /\ DurableEvery # 0 /\ disk' = disk
            /\ tip \div DurableEvery = (tip + n) \div DurableEvery
        BY <1>1, <1>3, <3>2, NotDurable DEF CommitNone
      <4>2. tip \div DurableEvery = Tip(disk) \div DurableEvery
        BY <4>1 DEF IngestInv, TailDurable
      <4> QED BY <2>2, <4>1, <4>2 DEF TailDurable
    <3> QED BY <3>1, <3>2
  <2>4. LocalsOK(q, tip + n) /\ q.indexed = tip + n /\ tip + n \in Nat
    <3>1. tip + n \in Nat
      BY <1>1
    <3>2. q = [r EXCEPT !.indexed = tip + n, !.stall = NoStall, !.mismatch = NoMismatch]
      BY DEF AfterApply
    <3>3. NoStall \in Stalls /\ NoMismatch \in [height: Nat, times: 0..MismatchLimit]
      BY DEF NoStall, Stalls, NoMismatch
    <3> HIDE DEF q, tip, n
    <3> QED BY <1>1, <3>1, <3>2, <3>3 DEF LocalsOK, Run, Ahead
  <2> HIDE DEF q, tip, n
  <2> QED BY <1>2, <2>2, <2>3, <2>4, StartOverOK DEF IngestInv
<1>4. CASE Fail("ParentMismatch")
  <2> DEFINE height == MismatchHeight(batch)
  <2>1. StartOver(NoteMismatch(r, height), "poll")
    BY <1>4 DEF Fail, ApplyBodies
  <2>2. height \in Nat /\ height > tip
    BY <1>1, MismatchAbove
  <2> HIDE DEF height
  <2>3. /\ RunOK(run', tip) /\ StatusOK(status', tip) /\ Fresh(run', status', tip)
    BY <1>1, <2>1, <2>2, NoteMismatchOK, StartOverOK
  <2> QED BY <1>4, <2>3, StoreKept DEF Fail, Outcome
<1>5. CASE \E error \in Faults : Fail(error)
  <2>1. PICK error \in Faults : Fail(error)
    BY <1>5
  <2>2. Halt(r, error)
    BY <2>1, FaultsAssumption DEF Fail, ApplyBodies
  <2>3. /\ RunOK(run', tip) /\ StatusOK(status', tip) /\ Fresh(run', status', tip)
    BY <1>1, <2>2, HaltReasons, HaltOK
  <2> QED BY <2>1, <2>3, StoreKept, FaultsAssumption DEF Fail, Outcome
<1> QED BY <1>1, <1>3, <1>4, <1>5 DEF ApplyBatch

(* The bodies of a fetched run are blocks. *)
LEMMA BodiesAreBlocks ==
    ASSUME IngestInv,
           NEW bodies, bodies = Bodies(run.fetched), bodies # <<>>,
           \A k \in DOMAIN bodies : bodies[k].kind = "Body"
    PROVE  /\ [k \in DOMAIN bodies |-> bodies[k].id] \in Seq(Block)
           /\ [k \in DOMAIN bodies |-> bodies[k].id] # <<>>
<1> DEFINE batch == [k \in DOMAIN bodies |-> bodies[k].id]
<1>1. bodies \in Seq(Result)
  <2>1. run.fetched \in Seq(Result)
    BY Facts DEF Run
  <2> HIDE DEF Result
  <2> QED BY <2>1, BodiesPrefix
<1>2. ASSUME NEW k \in DOMAIN bodies PROVE bodies[k].id \in Block
  <2>1. bodies[k] \in Result /\ bodies[k].kind = "Body"
    BY <1>1
  <2> QED BY <2>1 DEF Result
<1>3. DOMAIN bodies = 1..Len(bodies) /\ Len(bodies) \in Nat /\ Len(bodies) # 0
  BY <1>1
<1>4. batch = [k \in 1..Len(bodies) |-> batch[k]] /\ \A k \in 1..Len(bodies) : batch[k] \in Block
  BY <1>2, <1>3
<1>5. batch # <<>>
  <2>1. DOMAIN batch # {}
    BY <1>3
  <2> QED BY <2>1
<1> HIDE DEF batch
<1>6. batch \in Seq(Block)
  BY <1>3, <1>4
<1> QED BY <1>5, <1>6 DEF batch

(* The end of a fetch: an error, nothing, something undecodable, a batch.  *)
LEMMA ApplyStepKeeps == ASSUME IngestInv, ApplyRange PROVE IngestInv'
<1> DEFINE tip == Tip(db)
           bodies == Bodies(run.fetched)
           r == [run EXCEPT !.fetched = <<>>]
           q == SourceRecovered(r)
<1>1. /\ LocalsOK(run, tip) /\ run.indexed = tip /\ tip \in Nat /\ ~ DistrustTip(run)
      /\ run.fetched \in Seq(Result)
      /\ StatusOK(status, tip) /\ src' \in Source /\ budget' \in Budget
  BY Facts DEF ApplyRange, PcOK, Run
<1>2. /\ LocalsOK(r, tip) /\ r.indexed = tip /\ r.mismatch = run.mismatch
  <2>1. <<>> \in Seq(Result) /\ GarbledExplained(<<>>)
    BY DEF GarbledExplained
  <2>2. r \in Run /\ r.fetched = <<>> /\ r.stall = run.stall
    BY <1>1, <2>1 DEF LocalsOK, Run
  <2>3. r.indexed = tip /\ r.mismatch = run.mismatch
    BY <1>1 DEF LocalsOK, Run
  <2> HIDE DEF r
  <2> QED BY <1>1, <2>1, <2>2, <2>3 DEF LocalsOK
<1>3. /\ LocalsOK(q, tip) /\ q.indexed = tip /\ ~ DistrustTip(q)
  <2> HIDE DEF r
  <2>1. /\ LocalsOK(q, tip) /\ q.indexed = r.indexed /\ q.mismatch = r.mismatch
    BY <1>2, FailuresOK
  <2> QED BY <1>1, <1>2, <2>1 DEF DistrustTip
<1>4. /\ bodies \in Seq(Result)
      /\ \A k \in DOMAIN bodies : k \in DOMAIN run.fetched /\ bodies[k] = run.fetched[k]
  <2> HIDE DEF Result
  <2> QED BY <1>1, BodiesPrefix
<1>5. CASE StartOver(SourceFailed(r), "poll") /\ UnchangedStore
  <2> HIDE DEF r
  <2>1. LocalsOK(SourceFailed(r), tip) /\ SourceFailed(r).indexed = tip
    BY <1>2, FailuresOK
  <2> QED BY <1>1, <1>5, <2>1, StartOverOK, StoreIdle
<1>6. CASE /\ StartOver(NoteStall(q, r.indexed + 1, "MissingBody"), "poll") \/ StartOver(q, "poll")
           /\ UnchangedStore
  <2> DEFINE w == NoteStall(q, tip + 1, "MissingBody")
  <2>1. /\ StartOver(w, "poll") \/ StartOver(q, "poll")
    BY <1>2, <1>6
  <2> HIDE DEF q
  <2>2. [height |-> tip + 1, origin |-> "MissingBody"] \in Stalls /\ tip + 1 > tip
    BY <1>1 DEF Stalls
  <2>3. LocalsOK(w, tip) /\ w.indexed = tip
    BY <1>3, <2>2 DEF NoteStall, LocalsOK, Run, Ahead
  <2> HIDE DEF w
  <2> QED BY <1>1, <1>3, <1>6, <2>1, <2>3, StartOverOK, StoreIdle
<1>7. CASE /\ \E k \in DOMAIN bodies : bodies[k].kind = "Garbled"
           /\ Halt(q, "Undecodable") /\ UnchangedStore
  <2>1. "decode" \in Endpoints
    BY <1>1, <1>4, <1>7 DEF LocalsOK, GarbledExplained
  <2> HIDE DEF q
  <2> QED BY <1>1, <1>3, <1>7, <2>1, HaltReasons, HaltOK, StoreIdle
<1>8. CASE /\ bodies # <<>> /\ \A k \in DOMAIN bodies : bodies[k].kind = "Body"
           /\ ApplyBodies(q, [k \in DOMAIN bodies |-> bodies[k].id])
  <2> DEFINE batch == [k \in DOMAIN bodies |-> bodies[k].id]
  <2>3. batch \in Seq(Block) /\ batch # <<>>
    <3> HIDE DEF bodies
    <3> QED BY <1>8, BodiesAreBlocks DEF bodies
  <2> HIDE DEF bodies, q
  <2> HIDE DEF batch
  <2> QED BY <1>1, <1>3, <1>8, <2>3, ApplyBodiesKeeps DEF batch
<1> QED BY <1>5, <1>6, <1>7, <1>8 DEF ApplyRange

(* Genesis boxes move no height. *)
LEMMA EnsureGenesisKeeps == ASSUME IngestInv, EnsureGenesis PROVE IngestInv'
<1> DEFINE tip == Tip(db)
<1>1. /\ LocalsOK(run, tip) /\ run.indexed = tip /\ tip \in Nat /\ run.pc = "seed"
      /\ StatusOK(status, tip) /\ status.indexed = tip
      /\ src \in Source /\ src' \in Source /\ budget' \in Budget
  BY Facts DEF EnsureGenesis, PcOK, IngestInv, Fresh
<1>2. ASSUME NEW r, LocalsOK(r, tip), Continue(r, "poll")
      PROVE  LocalsOK(run', tip) /\ run'.pc = "poll"
  BY <1>2 DEF Continue, LocalsOK, Run, Pcs
<1>3. LocalsOK(SourceRecovered(run), tip) /\ LocalsOK(SourceFailed(run), tip)
      /\ SourceFailed(run).indexed = tip
  BY <1>1, FailuresOK
<1>4. CASE Continue(run, "poll") /\ UnchangedStore /\ UNCHANGED status
  BY <1>1, <1>2, <1>4, StoreIdle DEF RunOK, PcOK, Fresh
<1>5. CASE StartOver(SourceFailed(run), "seed") /\ UnchangedStore
  <2>1. /\ run' = [SourceFailed(run) EXCEPT !.pc = "seed"]
        /\ status' = Published(SourceFailed(run), "None")
    BY <1>5 DEF StartOver
  <2> QED BY <1>1, <1>3, <1>5, StartOverOK, StoreIdle
<1>6. CASE /\ ~ Answers("decode") /\ Halt(SourceRecovered(run), "Undecodable")
           /\ UnchangedStore
  <2>1. "decode" \in Endpoints
    BY <1>1, <1>6 DEF Answers, Source
  <2> QED BY <1>1, <1>3, <1>6, <2>1, HaltReasons, HaltOK, StoreIdle
<1>7. CASE /\ db.chain = <<>> /\ ~ db.seeded /\ SeedGenesis
           /\ IF outcome' = "Ok"
                THEN /\ Continue(SourceRecovered(run), "poll")
                     /\ status' = [status EXCEPT !.sourceError = FALSE]
                ELSE Halt(SourceRecovered(run), outcome')
  <2>1. IInv'
    BY <1>7, Facts, SeedKeeps
  <2>2. CASE CommitImmediate([db EXCEPT !.seeded = TRUE])
    <3>1. db'.chain = db.chain /\ disk' = db' /\ outcome' = "Ok"
      BY <2>2, Facts, IInvFacts DEF CommitImmediate, Database
    <3>2. Tip(db') = tip /\ TailDurable'
      BY <3>1 DEF TailDurable, Tip
    <3>3. StatusOK(status', tip) /\ status'.indexed = tip
      BY <1>1, <1>7, <3>1 DEF StatusOK, Status
    <3> QED BY <1>1, <1>2, <1>3, <1>7, <2>1, <3>1, <3>2, <3>3 DEF IngestInv, RunOK, PcOK, Fresh
  <2>3. CASE \E error \in Faults : Fail(error)
    <3>1. PICK error \in Faults : Fail(error)
      BY <2>3
    <3>2. Halt(SourceRecovered(run), error) /\ db' = db /\ disk' = disk
          /\ outcome' \in Outcome \ {"Refused"}
      BY <1>7, <3>1, FaultsAssumption DEF Fail, Outcome
    <3> QED BY <1>1, <1>3, <3>2, HaltReasons, HaltOK, StoreKept
  <2> QED BY <1>7, <2>2, <2>3 DEF SeedGenesis
<1> QED BY <1>4, <1>5, <1>6, <1>7 DEF EnsureGenesis

(* A fresh start of the loop on a store of this height. *)
LEMMA StartRunOK ==
    ASSUME NEW tip \in Nat
    PROVE  /\ LocalsOK(StartRun(tip), tip) /\ RunOK(StartRun(tip), tip)
           /\ StatusOK(Published(StartRun(tip), "None"), tip)
           /\ Fresh(StartRun(tip), Published(StartRun(tip), "None"), tip)
<1> DEFINE r == StartRun(tip)
<1>1. /\ <<>> \in Seq(Result) /\ GarbledExplained(<<>>)
      /\ NoStall \in Stalls /\ NoMismatch \in [height: Nat, times: 0..MismatchLimit]
      /\ 0 \in 0..FailureLimit /\ "seed" \in Pcs /\ Ahead(NoStall, tip)
  BY DEF GarbledExplained, NoStall, Stalls, NoMismatch, FailureLimit, Pcs, Ahead
<1>2. LocalsOK(r, tip) /\ r.pc = "seed" /\ r.indexed = tip
  BY <1>1 DEF StartRun, LocalsOK, Run
<1> HIDE DEF r
<1>3. RunOK(r, tip)
  BY <1>2 DEF RunOK, PcOK
<1>4. StatusOK(Published(r, "None"), tip)
  BY <1>2, HaltReasons, PublishedOK
<1>5. Fresh(r, Published(r, "None"), tip)
  BY <1>2 DEF Fresh, Published
<1> QED BY <1>2, <1>3, <1>4, <1>5 DEF r

(* The loop starts on an empty store it has published nothing wrong of.    *)
LEMMA InitIngestInv == InitIngest => IngestInv
<1> SUFFICES ASSUME InitIngest PROVE IngestInv
  OBVIOUS
<1>1. IInv /\ Tip(db) = 0 /\ Tip(disk) = 0
  BY InitIInv DEF InitIngest, Init, EmptyDatabase, Tip
<1>2. src \in Source /\ budget \in Budget
  BY DEF InitIngest, Source, Budget
<1> QED BY <1>1, <1>2, StartRunOK DEF InitIngest, IngestInv, TailDurable

(* A crash takes the loop's locals with it; the tip is the disk's.         *)
LEMMA CrashStepKeeps == ASSUME IngestInv, Crash PROVE IngestInv'
<1> DEFINE tip == Tip(disk)
           r == StartRun(tip)
<1>1. /\ IInv' /\ tip \in Nat /\ src' \in Source /\ budget' \in Budget
      /\ db' = disk /\ disk' = disk /\ outcome' = "Opened"
  BY Facts, CrashKeeps DEF Crash, CrashAndOpen, IInv, Sound, Budget
<1>2. run' = r /\ status' = Published(r, "None")
  BY <1>1 DEF Crash
<1> QED BY <1>1, <1>2, StartRunOK DEF IngestInv, TailDurable

(* A read error of the store halts, and says so. *)
LEMMA ReadErrorKeeps == ASSUME IngestInv, ReadError PROVE IngestInv'
<1> DEFINE r == IF run.pc = "fork" THEN run ELSE [run EXCEPT !.indexed = 0]
<1>1. LocalsOK(r, Tip(db)) /\ "Redb" \in Faults
  BY Facts DEF ReadError, LocalsOK, Run
<1>2. Halt(r, "Redb")
  BY DEF ReadError
<1> HIDE DEF r
<1> QED BY <1>1, <1>2, HaltReasons, HaltOK, StoreIdle, Facts DEF ReadError

(* An auxiliary rebuild's commit only makes more durable. *)
LEMMA BackfillKeeps == ASSUME IngestInv, Backfill PROVE IngestInv'
<1>1. IInv' /\ db' = db /\ disk' = db
  BY Facts, AuxiliaryKeeps DEF Backfill, AuxiliaryCommit, CommitImmediate
<1> QED BY <1>1 DEF Backfill, IngestInv, TailDurable

(* Nothing the loop holds depends on what the source says now. *)
LEMMA SourceChangeKeeps == ASSUME IngestInv, SourceChange PROVE IngestInv'
<1>0. src \in Source
  BY Facts
<1>1. src' \in Source
  <2>1. CASE \E tip \in Tips : src' = [src EXCEPT !.tip = tip]
    BY <1>0, <2>1, SourceAssumption DEF Source
  <2>2. CASE \E b \in Siblings \cup {NoParent} : src' = [src EXCEPT !.sibling = b]
    BY <1>0, <2>2, SourceAssumption DEF Source
  <2>3. CASE \E b \in Withholdable :
               src' = [src EXCEPT !.withheld = IF b \in @ THEN @ \ {b} ELSE @ \cup {b}]
    <3>1. PICK b \in Withholdable :
               src' = [src EXCEPT !.withheld = IF b \in @ THEN @ \ {b} ELSE @ \cup {b}]
      BY <2>3
    <3> DEFINE w == IF b \in src.withheld THEN src.withheld \ {b} ELSE src.withheld \cup {b}
    <3>2. w \in SUBSET Withholdable /\ src' = [src EXCEPT !.withheld = w]
      BY <1>0, <3>1 DEF Source
    <3> HIDE DEF w
    <3> QED BY <1>0, <3>2 DEF Source
  <2>4. CASE \E e \in Endpoints :
               src' = [src EXCEPT !.down = IF e \in @ THEN @ \ {e} ELSE @ \cup {e}]
    <3>1. PICK e \in Endpoints :
               src' = [src EXCEPT !.down = IF e \in @ THEN @ \ {e} ELSE @ \cup {e}]
      BY <2>4
    <3> DEFINE w == IF e \in src.down THEN src.down \ {e} ELSE src.down \cup {e}
    <3>2. w \in SUBSET Endpoints /\ src' = [src EXCEPT !.down = w]
      BY <1>0, <3>1 DEF Source
    <3> HIDE DEF w
    <3> QED BY <1>0, <3>2 DEF Source
  <2> QED BY <2>1, <2>2, <2>3, <2>4 DEF SourceChange
<1>2. budget' \in Budget
  BY Facts DEF SourceChange, Budget
<1> QED BY <1>1, <1>2, Facts, StoreKept DEF SourceChange, IngestInv, IInv

(* Every step of the loop, and everything around it. *)
LEMMA NextIngestInv == IngestInv /\ [NextIngest]_ingestVars => IngestInv'
<1> SUFFICES ASSUME IngestInv, [NextIngest]_ingestVars PROVE IngestInv'
  OBVIOUS
<1>1. CASE Step
  BY <1>1, EnsureGenesisKeeps, PollKeeps, ForkCheckKeeps, RollbackStepKeeps,
     ChooseRangeKeeps, FetchKeeps, ApplyStepKeeps DEF Step
<1>2. CASE ReadError \/ SourceChange \/ Backfill \/ Crash
  BY <1>2, ReadErrorKeeps, SourceChangeKeeps, BackfillKeeps, CrashStepKeeps
<1>3. CASE UNCHANGED ingestVars
  BY <1>3, Facts, StoreKept DEF ingestVars, IngestInv, IInv
<1> QED BY <1>1, <1>2, <1>3 DEF NextIngest

(* The inductive invariant of the loop over the store.                     *)
THEOREM IngestInvariant == SpecIngest => []IngestInv
BY InitIngestInv, NextIngestInv, PTL DEF SpecIngest

(* Every local, the status and the store are well typed. *)
THEOREM IngestTypes == SpecIngest => []IngestTypeOK
<1>1. ASSUME IngestInv PROVE IngestTypeOK
  <2>1. TypeOK
    BY <1>1 DEF IngestInv, IInv, Sound, TypeOK, UndoExact
  <2>2. run \in Run /\ status.halted \in Halts
    BY <1>1, Facts DEF StatusOK, Status
  <2> QED BY <2>1, <2>2 DEF IngestTypeOK, Run, Pcs, Stalls
<1>2. IngestInv => IngestTypeOK
  BY <1>1
<1> QED BY <1>2, IngestInvariant, PTL

(* A crash costs fewer than durable_every blocks: memory and disk are      *)
(* always between the same two multiples.                                  *)
THEOREM IngestCrashLoss == SpecIngest => []CrashLossBound
<1>1. IngestInv => CrashLossBound
  <2> SUFFICES ASSUME IngestInv PROVE CrashLossBound
    OBVIOUS
  <2>1. Tip(db) \in Nat /\ Tip(disk) \in Nat /\ TailDurable /\ DurableEvery \in Nat
    BY Facts DEF IngestInv
  <2>2. CASE DurableEvery = 0
    BY <2>1, <2>2 DEF TailDurable, CrashLossBound
  <2>3. CASE DurableEvery # 0
    <3> DEFINE m == Tip(db)
               n == Tip(disk)
    <3>1. m \div DurableEvery = n \div DurableEvery
      BY <2>1, <2>3 DEF TailDurable
    <3> HIDE DEF m, n
    <3>2. m \in Nat /\ n \in Nat
      BY <2>1 DEF m, n
    <3>3. m - n < DurableEvery
      BY <2>1, <2>3, <3>1, <3>2
    <3> QED BY <2>3, <3>3 DEF CrashLossBound, m, n
  <2> QED BY <2>2, <2>3
<1> QED BY <1>1, IngestInvariant, PTL

(* The height and walk read before an await are still right when used.     *)
THEOREM IngestCurrent == SpecIngest => []IndexedCurrent
<1>1. IngestInv => IndexedCurrent
  BY Facts DEF PcOK, IndexedCurrent
<1> QED BY <1>1, IngestInvariant, PTL

(* Between iterations the published height is the store's.                 *)
THEOREM IngestFresh == SpecIngest => []StatusFresh
<1>1. IngestInv => StatusFresh
  BY DEF IngestInv, Fresh, StatusFresh
<1> QED BY <1>1, IngestInvariant, PTL

(* A published stall is about a height above the tip, that of a refused    *)
(* body about the next one (xp-ingest lib.rs, note_stall and its resets).   *)
THEOREM IngestStallAhead == SpecIngest => []StallAhead
<1>1. IngestInv => StallAhead
  BY Facts DEF StatusOK, Ahead, StallAhead
<1> QED BY <1>1, IngestInvariant, PTL

-----------------------------------------------------------------------------
(* The walk of the fork check.  What it has seen stays true of our chain,  *)
(* whatever the source says next: below the tip it only went down past a   *)
(* height some branch of the source disagrees with.                        *)

LeavesBy(n) == \E b \in Branches : ~ SharesUpTo(b, db.chain, n)

WalkOK(r) == /\ Tip(db) - r.h <= Window
             /\ r.h + 1 < Tip(db) => LeavesBy(r.h + 1)

WalkInv == /\ src.tip \in Tips \cup {NoParent}
           /\ src.sibling \in Siblings \cup {NoParent}
           /\ run.pc \in {"fork", "rollback"} => WalkOK(run)
           /\ status.halted = "ReindexRequired" => /\ run.pc = "halted"
                                                   /\ ReindexOnlyBelowFloor

(* A height the source names otherwise than we do is past a fork.          *)
LEMMA Disagreement ==
    ASSUME NEW h \in Nat, IngestInv, WalkInv,
           HeaderIdAt(h) # NoParent, HeaderIdAt(h) # db.chain[h]
    PROVE  \A n \in Nat : n >= h => LeavesBy(n)
<1>1. PICK b \in Branches : b[h] # db.chain[h] /\ h \in 1..Len(b)
  <2>1. CASE src.sibling # NoParent /\ Height[src.sibling] = h
    <3>1. /\ src.sibling \in Siblings /\ src.sibling \in Block
          /\ Branch[src.sibling][h] = src.sibling /\ Len(Branch[src.sibling]) = h
      BY <2>1, SourceAssumption DEF WalkInv
    <3>2. HeaderIdAt(h) = src.sibling
      BY <2>1 DEF HeaderIdAt
    <3>3. Height[src.sibling] \in Nat \ {0}
      BY <3>1, HeightAssumption
    <3> QED BY <2>1, <3>1, <3>2, <3>3 DEF Branches
  <2>2. CASE ~ (src.sibling # NoParent /\ Height[src.sibling] = h)
    <3>1. h \in 1..BestHeight /\ HeaderIdAt(h) = SourceBranch[h]
      BY <2>2 DEF HeaderIdAt
    <3>2. src.tip # NoParent
      BY <3>1 DEF BestHeight, SourceBranch
    <3> QED BY <3>1, <3>2 DEF WalkInv, Branches, SourceBranch, BestHeight
  <2> QED BY <2>1, <2>2
<1>2. ASSUME NEW n \in Nat, n >= h PROVE ~ SharesUpTo(b, db.chain, n)
  BY <1>1, <1>2 DEF SharesUpTo
<1> QED BY <1>2 DEF LeavesBy

(* A step that neither walks nor gives up. *)
LEMMA NotWalking ==
    ASSUME src'.tip \in Tips \cup {NoParent}, src'.sibling \in Siblings \cup {NoParent},
           run'.pc \notin {"fork", "rollback"}, status'.halted # "ReindexRequired"
    PROVE  WalkInv'
BY DEF WalkInv

(* Starting over, and halting for anything else. *)
LEMMA StartsOver ==
    ASSUME WalkInv, UNCHANGED src, NEW r, "pc" \in DOMAIN r, NEW pc \in {"poll", "seed"},
           StartOver(r, pc)
    PROVE  WalkInv'
<1>1. run'.pc = pc /\ status'.halted # "ReindexRequired"
  BY DEF StartOver, Published
<1> QED BY <1>1, NotWalking DEF WalkInv

LEMMA HaltsForAnother ==
    ASSUME WalkInv, UNCHANGED src, NEW r, "pc" \in DOMAIN r, NEW reason,
           reason # "ReindexRequired", Halt(r, reason)
    PROVE  WalkInv'
<1>1. run'.pc = "halted" /\ status'.halted # "ReindexRequired"
  BY DEF Halt, Published
<1> QED BY <1>1, NotWalking DEF WalkInv

(* While the loop runs, it has not given up. *)
LEMMA NotGivenUp ==
    ASSUME WalkInv, run.pc # "halted"
    PROVE  status.halted # "ReindexRequired"
BY DEF WalkInv

(* The lowest height a rollback may reach is never below the window's end. *)
LEMMA FloorFacts ==
    ASSUME IngestInv
    PROVE  /\ UndoFloor \in Int /\ UndoFloor >= Tip(db) - Window
           /\ UndoFloor <= Tip(db) /\ db.peak \in Nat /\ Tip(db) \in Nat
           /\ UndoFloor # db.peak - Window - 1 => UndoFloor = Tip(db) - Window
<1>1. /\ db.peak \in Nat /\ Tip(db) \in Nat /\ Window \in Nat
      /\ Tip(db) \in db.peak - Window - 1 .. db.peak
  BY Facts, IInvFacts, WindowAssumption DEF Sound, UndoExact, Database
<1> QED BY <1>1 DEF UndoFloor

LEMMA PollWalks == ASSUME IngestInv, WalkInv, Poll PROVE WalkInv'
<1> DEFINE tip == Tip(db)
           r == [run EXCEPT !.indexed = tip]
<1>1. r \in Run /\ tip \in Nat /\ r.pc = "poll" /\ run.pc = "poll"
  BY Facts DEF LocalsOK, Run, Poll
<1>2. CASE StartOver(SourceFailed(r), "poll")
  <2>1. "pc" \in DOMAIN SourceFailed(r) /\ src' = src
    BY <1>1 DEF SourceFailed, Run, Poll
  <2> HIDE DEF r
  <2> QED BY <1>2, <2>1, StartsOver
<1>3. CASE Continue(Answered(r), "fork") /\ UNCHANGED status
  <2>1. run'.pc = "fork" /\ (run'.h = tip \/ run'.h = tip - 1)
    BY <1>1, <1>3 DEF Continue, Answered, Run
  <2>2. db' = db /\ src' = src /\ status' = status
    BY <1>3 DEF Poll, UnchangedStore
  <2>3. WalkOK(run)'
    BY <1>1, <2>1, <2>2, WindowAssumption DEF WalkOK, Tip
  <2> QED BY <1>1, <2>1, <2>2, <2>3 DEF WalkInv
<1> QED BY <1>2, <1>3 DEF Poll

(* Lower only past a disagreement, so giving up is below the floor.        *)
LEMMA ForkCheckWalks == ASSUME IngestInv, WalkInv, ForkCheck PROVE WalkInv'
<1> DEFINE tip == Tip(db)
<1>1. /\ run \in Run /\ run.indexed = tip /\ tip \in Nat /\ run.h \in Nat
      /\ run.h <= tip /\ run.pc = "fork" /\ WalkOK(run)
      /\ db' = db /\ src' = src
  BY Facts DEF ForkCheck, PcOK, Run, UnchangedStore, WalkInv
<1>2. CASE StartOver([run EXCEPT !.mismatch = NoMismatch], "poll")
           \/ StartOver(SourceFailed(run), "poll") \/ StartOver(SourceRecovered(run), "poll")
  <2>1. /\ "pc" \in DOMAIN [run EXCEPT !.mismatch = NoMismatch]
        /\ "pc" \in DOMAIN SourceFailed(run) /\ "pc" \in DOMAIN SourceRecovered(run)
    BY <1>1 DEF Run, SourceFailed, SourceRecovered
  <2> QED BY <1>1, <1>2, <2>1, StartsOver
<1>3. CASE Continue(run, "range") /\ UNCHANGED status
  <2>1. run'.pc = "range" /\ status'.halted # "ReindexRequired"
    BY <1>1, <1>3, NotGivenUp DEF Continue, Run
  <2> QED BY <1>1, <2>1, NotWalking DEF WalkInv
<1>4. CASE Continue(run, "rollback") /\ UNCHANGED status
  <2>1. run'.pc = "rollback" /\ run'.h = run.h /\ status' = status
    BY <1>1, <1>4 DEF Continue, Run
  <2>2. WalkOK(run)'
    BY <1>1, <2>1 DEF WalkOK, LeavesBy, Tip
  <2> QED BY <1>1, <2>1, <2>2 DEF WalkInv
<1>5. ASSUME ForkAnswer(run) \in {"Lower", "TooDeep"}
      PROVE  /\ \A n \in Nat : n >= run.h => LeavesBy(n)
             /\ ForkAnswer(run) = "TooDeep" => run.h <= tip - Window
             /\ ForkAnswer(run) = "Lower" => run.h # 0 /\ tip - run.h < Window
  <2>1. HeaderIdAt(run.h) # NoParent /\ ~ Agrees(run)
    BY <1>5 DEF ForkAnswer
  <2>2. run.h # 0
    <3>1. BestHeight \in Nat
      BY SourceAssumption, Facts DEF BestHeight, SourceBranch, Source
    <3> QED BY <2>1, <3>1 DEF HeaderIdAt
  <2>3. HeaderIdAt(run.h) # db.chain[run.h]
    BY <1>1, <2>1, <2>2 DEF Agrees
  <2>4. \A n \in Nat : n >= run.h => LeavesBy(n)
    BY <1>1, <2>1, <2>3, Disagreement
  <2>5. ForkAnswer(run) = "TooDeep" <=> TooDeep(run)
    BY <1>5, <2>1 DEF ForkAnswer
  <2> QED BY <1>1, <1>5, <2>2, <2>4, <2>5, WindowAssumption DEF TooDeep
<1>6. CASE ForkAnswer(run) = "TooDeep" /\ Halt(run, "ReindexRequired")
  <2>1. run.h <= tip - Window /\ UndoFloor \in Nat /\ UndoFloor >= run.h
    BY <1>1, <1>5, <1>6, FloorFacts, WindowAssumption
  <2>2. LeavesBy(UndoFloor)
    BY <1>5, <1>6, <2>1
  <2>3. LeavesBy(UndoFloor)'
    BY <1>1, <2>2 DEF LeavesBy, UndoFloor, Tip
  <2>4. ReindexOnlyBelowFloor'
    BY <2>3 DEF ReindexOnlyBelowFloor, LeavesBy
  <2>5. run'.pc = "halted"
    BY <1>1, <1>6 DEF Halt, Run
  <2> QED BY <1>1, <2>4, <2>5 DEF WalkInv
<1>7. CASE /\ ForkAnswer(run) = "Lower"
           /\ Continue([run EXCEPT !.h = @ - 1], "fork") /\ UNCHANGED status
  <2>1. run'.pc = "fork" /\ run'.h = run.h - 1 /\ status' = status
    BY <1>1, <1>7 DEF Continue, Run
  <2>2. LeavesBy(run.h) /\ tip - run.h < Window /\ Window \in Nat
    BY <1>1, <1>5, <1>7, WindowAssumption
  <2>3. run'.h + 1 = run.h
    BY <1>1, <2>1
  <2>5. WalkOK(run)'
    <3>1. Tip(db)' = tip
      BY <1>1 DEF Tip
    <3>2. LeavesBy(run.h + 1)'
      BY <1>1, <2>2, <2>3 DEF LeavesBy
    <3>3. tip - run'.h <= Window
      BY <1>1, <2>1, <2>2
    <3> QED BY <3>1, <3>2, <3>3 DEF WalkOK
  <2> QED BY <1>1, <2>1, <2>5 DEF WalkInv
<1> QED BY <1>2, <1>3, <1>4, <1>6, <1>7 DEF ForkCheck

(* A rollback refused for its undo rows ends below the lowest height there *)
(* are any for, and the walk came past that height.                        *)
LEMMA RollbackWalks == ASSUME IngestInv, WalkInv, RollbackFork PROVE WalkInv'
<1> DEFINE tip == Tip(db)
<1>1. /\ run \in Run /\ tip \in Nat /\ run.h \in 1..tip /\ run.pc = "rollback"
      /\ WalkOK(run) /\ src' = src /\ RollbackTo(run.h) /\ IInv
      /\ AfterRollback(run).pc = run.pc
  BY Facts DEF RollbackFork, PcOK, WalkInv, AfterRollback, Run
<1>2. CASE outcome' = "Ok"
  <2>1. run'.pc = "range" /\ status'.halted = "None"
    <3>1. "pc" \in DOMAIN AfterRollback(run)
      BY <1>1 DEF AfterRollback, Run
    <3> QED BY <1>2, <3>1 DEF RollbackFork, Continue, Published
  <2> QED BY <1>1, <2>1, NotWalking DEF WalkInv
<1>3. CASE outcome' \in Faults
  <2>1. outcome' # "ReindexRequired" /\ outcome' # "Ok"
    BY <1>3, FaultsAssumption
  <2>2. Halt(run, outcome') /\ "pc" \in DOMAIN run
    BY <1>1, <2>1 DEF RollbackFork, Run
  <2> QED BY <1>1, <2>1, <2>2, HaltsForAnother
<1>4. CASE RollbackOutcome(db, run.h) = "ReindexRequired" /\ Fail("ReindexRequired")
  <2>1. /\ run.h < tip /\ tip - run.h <= Window /\ run.h < db.peak - Window - 1
    <3>1. RollbackExact
      BY <1>1, GrantedExactly
    <3>2. run.h \in 0..tip /\ db.chain # <<>>
      BY <1>1 DEF Tip
    <3>3. ~ (run.h = tip \/ (tip - run.h <= Window /\ run.h >= db.peak - Window - 1))
      BY <1>4, <3>1, <3>2 DEF RollbackExact
    <3> QED BY <1>1, <3>3, FloorFacts, WindowAssumption DEF WalkOK
  <2>2. UndoFloor = db.peak - Window - 1 /\ UndoFloor <= tip /\ UndoFloor \in Nat
    <3>1. /\ tip \in Nat /\ run.h \in Nat /\ db.peak \in Nat /\ Window \in Nat
          /\ UndoFloor \in Int /\ UndoFloor >= tip - Window /\ UndoFloor <= tip
          /\ UndoFloor # db.peak - Window - 1 => UndoFloor = tip - Window
      BY <1>1, FloorFacts, WindowAssumption
    <3>2. UndoFloor = db.peak - Window - 1
      BY <2>1, <3>1 DEF UndoFloor
    <3> HIDE DEF tip
    <3> QED BY <2>1, <3>1, <3>2
  <2>3. tip = UndoFloor \/ LeavesBy(UndoFloor)
    <3> SUFFICES ASSUME tip # UndoFloor PROVE LeavesBy(UndoFloor)
      OBVIOUS
    <3>1. run.h + 1 < tip /\ run.h + 1 <= UndoFloor
      BY <1>1, <2>1, <2>2, FloorFacts, WindowAssumption
    <3>2. PICK b \in Branches : ~ SharesUpTo(b, db.chain, run.h + 1)
      BY <1>1, <3>1 DEF WalkOK, LeavesBy
    <3>3. ~ SharesUpTo(b, db.chain, UndoFloor)
      <4>0. Len(b) \in Nat /\ Len(db.chain) \in Nat
        BY <1>1, IInvFacts, SourceAssumption DEF Branches
      <4> HIDE DEF UndoFloor
      <4> QED BY <1>1, <2>2, <3>1, <3>2, <4>0 DEF SharesUpTo
    <3> QED BY <3>3 DEF LeavesBy
  <2>4. db' = db /\ run'.pc = "halted"
    BY <1>1, <1>4 DEF Fail, RollbackFork, Halt, Run
  <2>5. ReindexOnlyBelowFloor'
    BY <2>3, <2>4 DEF ReindexOnlyBelowFloor, LeavesBy, UndoFloor, Tip
  <2> QED BY <1>1, <2>4, <2>5 DEF WalkInv
<1>5. RollbackOutcome(db, run.h) \in {"Ok", "ReindexRequired"}
  <2>1. db.chain # <<>>
    BY <1>1 DEF Tip
  <2> QED BY <1>1, <2>1, WindowAssumption DEF RollbackOutcome
<1> QED BY <1>1, <1>2, <1>3, <1>4, <1>5 DEF RollbackTo, Fail, CommitImmediate

(* The steps that do not walk. *)
LEMMA OthersWalk ==
    ASSUME IngestInv, WalkInv, EnsureGenesis \/ ChooseRange \/ Fetch \/ ApplyRange
    PROVE  WalkInv'
<1>1. /\ run \in Run /\ src' = src /\ run.pc \in {"seed", "range", "fetch"}
      /\ status \in Status
  BY Facts DEF EnsureGenesis, ChooseRange, Fetch, ApplyRange, StatusOK
<1>2. status.halted # "ReindexRequired"
  BY <1>1, NotGivenUp
<1>3. ASSUME run'.pc \notin {"fork", "rollback"}, status'.halted # "ReindexRequired"
      PROVE  WalkInv'
  BY <1>1, <1>3, NotWalking DEF WalkInv
<1>4. ASSUME NEW r, "pc" \in DOMAIN r, NEW pc \in {"poll", "seed"}, StartOver(r, pc)
      PROVE  WalkInv'
  BY <1>1, <1>4, StartsOver
<1>5. ASSUME NEW r, "pc" \in DOMAIN r, NEW reason, reason # "ReindexRequired", Halt(r, reason)
      PROVE  WalkInv'
  BY <1>1, <1>5, HaltsForAnother
<1>6. /\ \A r : DOMAIN SourceFailed(r) = DOMAIN r
      /\ \A r : DOMAIN SourceRecovered(r) = DOMAIN r
      /\ "pc" \in DOMAIN run
  BY <1>1 DEF Run, SourceFailed, SourceRecovered
<1>7. CASE EnsureGenesis
  <2>1. CASE Continue(run, "poll") /\ UNCHANGED status
    BY <1>1, <1>2, <1>3, <2>1 DEF Continue, Run
  <2>2. CASE StartOver(SourceFailed(run), "seed")
    BY <1>1, <1>4, <1>6, <2>2
  <2>3. CASE Halt(SourceRecovered(run), "Undecodable")
    BY <1>1, <1>5, <1>6, <2>3
  <2>4. CASE /\ db.chain = <<>> /\ SeedGenesis
             /\ IF outcome' = "Ok"
                  THEN /\ Continue(SourceRecovered(run), "poll")
                       /\ status' = [status EXCEPT !.sourceError = FALSE]
                  ELSE Halt(SourceRecovered(run), outcome')
    <3>1. outcome' # "ReindexRequired"
      BY <2>4, FaultsAssumption DEF SeedGenesis, Fail, CommitImmediate
    <3>2. CASE /\ Continue(SourceRecovered(run), "poll")
               /\ status' = [status EXCEPT !.sourceError = FALSE]
      <4>1. run'.pc = "poll" /\ status'.halted = status.halted
        BY <1>1, <1>6, <3>2 DEF Continue, Run, Status
      <4> QED BY <1>2, <1>3, <4>1
    <3>3. CASE Halt(SourceRecovered(run), outcome')
      BY <1>1, <1>5, <1>6, <3>1, <3>3
    <3> QED BY <2>4, <3>2, <3>3
  <2> QED BY <1>7, <2>1, <2>2, <2>3, <2>4 DEF EnsureGenesis
<1>8. CASE ChooseRange
  <2>1. CASE StartOver(SourceRecovered(run), "poll")
    BY <1>1, <1>4, <1>6, <2>1
  <2>2. CASE ~ UpToDate(run)
    BY <1>1, <1>2, <1>3, <1>8, <2>2 DEF ChooseRange, Continue, Run
  <2> QED BY <1>8, <2>1, <2>2 DEF ChooseRange
<1>9. CASE Fetch
  BY <1>1, <1>2, <1>3, <1>9 DEF Fetch, FetchHeader, FetchBody, Run
<1>10. CASE ApplyRange
  <2> DEFINE bodies == Bodies(run.fetched)
             r == [run EXCEPT !.fetched = <<>>]
             q == SourceRecovered(r)
             w == NoteStall(q, r.indexed + 1, "MissingBody")
  <2>1. "pc" \in DOMAIN r /\ "pc" \in DOMAIN q /\ "pc" \in DOMAIN w
    BY <1>6 DEF NoteStall
  <2>2. CASE StartOver(SourceFailed(r), "poll")
    <3> HIDE DEF r
    <3> QED BY <1>4, <1>6, <2>1, <2>2
  <2>3. CASE StartOver(w, "poll") \/ StartOver(q, "poll")
    <3> HIDE DEF w, q
    <3> QED BY <1>4, <2>1, <2>3
  <2>4. CASE Halt(q, "Undecodable")
    <3> HIDE DEF q
    <3> QED BY <1>5, <2>1, <2>4
  <2>5. ASSUME NEW batch, ApplyBodies(q, batch) PROVE WalkInv'
    <3>1. outcome' # "ReindexRequired"
      BY <2>5, FaultsAssumption DEF ApplyBodies, ApplyBatch, Fail, CommitImmediate, CommitNone
    <3>2. \/ StartOver(AfterApply(q, Len(batch)), "poll")
          \/ StartOver(NoteMismatch(q, MismatchHeight(batch)), "poll")
          \/ Halt(q, outcome')
      BY <2>5 DEF ApplyBodies
    <3>3. /\ DOMAIN AfterApply(q, Len(batch)) = DOMAIN q
          /\ DOMAIN NoteMismatch(q, MismatchHeight(batch)) = DOMAIN q
      <4> HIDE DEF q
      <4> QED BY DEF AfterApply, NoteMismatch, NoteStall
    <3> HIDE DEF q
    <3> QED BY <1>4, <1>5, <2>1, <3>1, <3>2, <3>3
  <2> QED BY <1>10, <2>2, <2>3, <2>4, <2>5 DEF ApplyRange
<1> QED BY <1>7, <1>8, <1>9, <1>10

LEMMA InitWalk == InitIngest => WalkInv
BY DEF InitIngest, StartRun, Published, WalkInv

LEMMA NextWalk == IngestInv /\ WalkInv /\ [NextIngest]_ingestVars => WalkInv'
<1> SUFFICES ASSUME IngestInv, WalkInv, [NextIngest]_ingestVars PROVE WalkInv'
  OBVIOUS
<1>0. run \in Run
  BY Facts
<1>1. CASE Poll \/ ForkCheck \/ RollbackFork
  BY <1>1, PollWalks, ForkCheckWalks, RollbackWalks
<1>2. CASE EnsureGenesis \/ ChooseRange \/ Fetch \/ ApplyRange
  BY <1>2, OthersWalk
<1>3. CASE ReadError
  <2> DEFINE r == IF run.pc = "fork" THEN run ELSE [run EXCEPT !.indexed = 0]
  <2>1. Halt(r, "Redb") /\ src' = src /\ "pc" \in DOMAIN r
    BY <1>0, <1>3 DEF ReadError, Run
  <2> HIDE DEF r
  <2> QED BY <2>1, "Redb" # "ReindexRequired", HaltsForAnother
<1>4. CASE SourceChange
  <2>1. db' = db /\ run' = run /\ status' = status /\ src.tip \in Tips \cup {NoParent}
        /\ src.sibling \in Siblings \cup {NoParent} /\ src \in Source
    BY <1>4, Facts DEF SourceChange, WalkInv
  <2>2. src'.tip \in Tips \cup {NoParent} /\ src'.sibling \in Siblings \cup {NoParent}
    BY <1>4, <2>1 DEF SourceChange, Source
  <2> QED BY <2>1, <2>2 DEF WalkInv, WalkOK, LeavesBy, ReindexOnlyBelowFloor, UndoFloor, Tip
<1>5. CASE Backfill \/ UNCHANGED ingestVars
  <2>1. db' = db /\ run' = run /\ status' = status /\ src' = src
    BY <1>5 DEF Backfill, AuxiliaryCommit, CommitImmediate, ingestVars
  <2> QED BY <2>1 DEF WalkInv, WalkOK, LeavesBy, ReindexOnlyBelowFloor, UndoFloor, Tip
<1>6. CASE Crash
  <2>1. run'.pc \in {"seed", "halted"} /\ status'.halted = "None" /\ src' = src
    BY <1>6 DEF Crash, StartRun, Published
  <2> QED BY <2>1, NotWalking DEF WalkInv
<1> QED BY <1>1, <1>2, <1>3, <1>4, <1>5, <1>6 DEF NextIngest, Step

(* Ingest stops for a reindex only when a branch the source can serve      *)
(* leaves ours at or below the lowest height a rollback may still reach,   *)
(* or none can be made at all, for every block tree, window and source.    *)
THEOREM IngestReindexBelowFloor == SpecIngest => []ReindexOnlyBelowFloor
<1>1. SpecIngest => []WalkInv
  BY InitWalk, NextWalk, IngestInvariant, PTL DEF SpecIngest
<1>2. WalkInv => ReindexOnlyBelowFloor
  BY DEF WalkInv, ReindexOnlyBelowFloor
<1> QED BY <1>1, <1>2, PTL

-----------------------------------------------------------------------------
(* What the loop does to the store is a run of the store: every step makes *)
(* at most one of the calls ChainStore specifies, with arguments it allows *)
(* (a rollback never asked for above the tip, a batch of real blocks), so  *)
(* whatever ChainStore promises holds under this caller.                   *)
THEOREM IngestUsesStore ==
    ASSUME Batch = Seq(Block)
    PROVE  SpecIngest => Spec
<1>1. ASSUME IngestInv, [NextIngest]_ingestVars PROVE [Next]_vars
  <2>1. CASE UnchangedStore
    BY <2>1 DEF UnchangedStore, vars
  <2>2. CASE EnsureGenesis \/ Poll \/ ForkCheck \/ ChooseRange \/ Fetch \/ ReadError
    BY <2>1, <2>2 DEF EnsureGenesis, Poll, ForkCheck, ChooseRange, Fetch, ReadError, Next
  <2>3. CASE RollbackFork
    <3>1. run.h \in 0..Tip(db) /\ RollbackTo(run.h)
      BY <1>1, <2>3, Facts DEF RollbackFork, PcOK
    <3> QED BY <3>1 DEF Next
  <2>4. CASE ApplyRange
    <3> DEFINE bodies == Bodies(run.fetched)
               batch == [k \in DOMAIN bodies |-> bodies[k].id]
               r == SourceRecovered([run EXCEPT !.fetched = <<>>])
    <3>1. CASE /\ bodies # <<>> /\ \A k \in DOMAIN bodies : bodies[k].kind = "Body"
               /\ ApplyBodies(r, batch)
      <4>1. batch \in Batch
        <5> HIDE DEF bodies
        <5> QED BY <1>1, <3>1, BodiesAreBlocks DEF bodies
      <4>2. Durable(r, Len(batch)) \in BOOLEAN
        BY Zenon DEF Durable
      <4>3. ApplyBatch(batch, Durable(r, Len(batch)))
        BY <3>1 DEF ApplyBodies
      <4> HIDE DEF batch
      <4> QED BY <4>1, <4>2, <4>3 DEF Next
    <3> QED BY <2>1, <2>4, <3>1 DEF ApplyRange
  <2>5. CASE SourceChange \/ UNCHANGED ingestVars
    BY <2>1, <2>5 DEF SourceChange, ingestVars, UnchangedStore
  <2>6. CASE Backfill \/ Crash
    BY <2>6 DEF Backfill, Crash, Next
  <2> QED BY <1>1, <2>2, <2>3, <2>4, <2>5, <2>6 DEF NextIngest, Step
<1>2. IngestInv /\ [NextIngest]_ingestVars => [Next]_vars
  BY <1>1
<1> QED BY <1>2, IngestInvariant, PTL DEF SpecIngest, InitIngest, Spec

-----------------------------------------------------------------------------
(* The token history index.                                                *)

(* What a chain's memberships are, and how a prefix's relate to them.      *)

Below(c, e) == /\ c \in Seq(Block) /\ e \in Seq(Block)
               /\ Len(c) <= Len(e)
               /\ \A i \in 1..Len(c) : e[i] = c[i]

LEMMA PositionFacts ==
    ASSUME NEW c \in Seq(Block), NEW p
    PROVE  p \in Positions(c) <=> /\ p = <<p[1], p[2]>>
                                 /\ p[1] \in 1..Len(c)
                                 /\ p[2] \in DOMAIN Txs[c[p[1]]]
BY DEF Positions

LEMMA PositionTypes ==
    ASSUME NEW c \in Seq(Block), NEW p \in Positions(c)
    PROVE  /\ p \in Position
           /\ TxAt(c, p) \in [in: SUBSET BoxId, out: SUBSET BoxId]
<1>1. /\ p = <<p[1], p[2]>> /\ p[1] \in 1..Len(c) /\ p[2] \in DOMAIN Txs[c[p[1]]]
  BY PositionFacts
<1>2. c[p[1]] \in Block /\ Len(c) \in Nat
  BY <1>1
<1>3. Txs[c[p[1]]] \in Seq([in: SUBSET BoxId, out: SUBSET BoxId])
  BY <1>2, TxsAssumption
<1>4. p[2] \in Nat \ {0} /\ Txs[c[p[1]]][p[2]] \in [in: SUBSET BoxId, out: SUBSET BoxId]
  <2> DEFINE S == [in: SUBSET BoxId, out: SUBSET BoxId]
  <2>1. \A t \in Seq(S) : \A i \in DOMAIN t : i \in Nat \ {0} /\ t[i] \in S
    <3> HIDE DEF S
    <3> QED OBVIOUS
  <2> HIDE DEF S
  <2>2. Txs[c[p[1]]] \in Seq(S)
    BY <1>3 DEF S
  <2> QED BY <2>1, <2>2, <1>1 DEF S
<1> QED BY <1>1, <1>2, <1>4 DEF Position, TxAt

LEMMA BelowPositions ==
    ASSUME NEW c, NEW e, Below(c, e), NEW p
    PROVE  /\ p \in Positions(c) <=> p \in Positions(e) /\ p[1] <= Len(c)
           /\ p \in Positions(c) => TxAt(e, p) = TxAt(c, p)
<1>1. c \in Seq(Block) /\ e \in Seq(Block) /\ Len(c) \in Nat /\ Len(e) \in Nat
  BY DEF Below
<1>2. p[1] \in 1..Len(c) => e[p[1]] = c[p[1]]
  BY DEF Below
<1>3. p[1] \in 1..Len(c) <=> p[1] \in 1..Len(e) /\ p[1] <= Len(c)
  BY <1>1 DEF Below
<1> QED BY <1>1, <1>2, <1>3, PositionFacts DEF TxAt

LEMMA TouchedFacts ==
    ASSUME NEW c \in Seq(Block), NEW r
    PROVE  /\ r \in Touched(c) <=>
                /\ r \in Token \X Positions(c)
                /\ \E x \in BoxId : Touches(TxAt(c, r[2]), x) /\ r[1] \in TokensOf[x]
           /\ \A x \in BoxId : r \in BoxRows(c, x) <=>
                /\ r \in Token \X Positions(c)
                /\ Touches(TxAt(c, r[2]), x) /\ r[1] \in TokensOf[x]
           /\ r \in Touched(c) => r \in Row /\ r[2][1] \in 1..Len(c)
<1>1. \A p \in Positions(c) : p[1] \in 1..Len(c) /\ p \in Position
  BY PositionFacts, PositionTypes
<1>2. \A x \in BoxId : TokensOf[x] \subseteq Token
  BY TokensOfAssumption DEF BoxId
<1>3. r \in Token \X Positions(c) => r[2] \in Positions(c) /\ r[1] \in Token /\ r = <<r[1], r[2]>>
  OBVIOUS
<1>4. \A x \in BoxId : r \in TokensOf[x] \X Positions(c) <=>
                         r \in Token \X Positions(c) /\ r[1] \in TokensOf[x]
  BY <1>2
<1>5. \A x \in BoxId : r \in BoxRows(c, x) <=>
                /\ r \in Token \X Positions(c)
                /\ Touches(TxAt(c, r[2]), x) /\ r[1] \in TokensOf[x]
  BY <1>4 DEF BoxRows
<1>6. r \in Touched(c) <=>
                /\ r \in Token \X Positions(c)
                /\ \E x \in BoxId : Touches(TxAt(c, r[2]), x) /\ r[1] \in TokensOf[x]
  BY <1>1, <1>3 DEF Touched, Memberships
<1>7. r \in Touched(c) => r \in Row /\ r[2][1] \in 1..Len(c)
  BY <1>6, <1>1, <1>3 DEF Row
<1> QED BY <1>5, <1>6, <1>7

LEMMA BelowTouched ==
    ASSUME NEW c, NEW e, Below(c, e)
    PROVE  /\ Touched(c) = {r \in Touched(e) : r[2][1] <= Len(c)}
           /\ Memberships(e, Len(c) + 1 .. Len(e)) = {r \in Touched(e) : ~ (r[2][1] <= Len(c))}
           /\ \A x \in BoxId : /\ BoxRows(c, x) = {r \in BoxRows(e, x) : r[2][1] <= Len(c)}
                               /\ BoxRows(e, x) \subseteq Touched(e)
<1>1. c \in Seq(Block) /\ e \in Seq(Block) /\ Len(c) \in Nat /\ Len(e) \in Nat
  BY DEF Below
<1>2. \A r : r \in Token \X Positions(c) <=>
              r \in Token \X Positions(e) /\ r[2][1] <= Len(c)
  BY BelowPositions
<1>3. \A r \in Token \X Positions(c) : TxAt(e, r[2]) = TxAt(c, r[2])
  BY BelowPositions
<1>4. \A r : r \in Touched(c) <=> r \in Touched(e) /\ r[2][1] <= Len(c)
  BY <1>1, <1>2, <1>3, TouchedFacts
<1>5. \A x \in BoxId : \A r : r \in BoxRows(c, x) <=> r \in BoxRows(e, x) /\ r[2][1] <= Len(c)
  BY <1>1, <1>2, <1>3, TouchedFacts
<1>6. \A x \in BoxId : BoxRows(e, x) \subseteq Touched(e)
  BY <1>1, TouchedFacts
<1>7. \A r : r \in Memberships(e, Len(c) + 1 .. Len(e)) <=>
              r \in Touched(e) /\ ~ (r[2][1] <= Len(c))
  <2> SUFFICES ASSUME NEW r
               PROVE  r \in Memberships(e, Len(c) + 1 .. Len(e)) <=>
                      r \in Touched(e) /\ ~ (r[2][1] <= Len(c))
    OBVIOUS
  <2>1. CASE r \in Token \X Positions(e)
    <3>1. r[2] \in Positions(e)
      BY <2>1
    <3>2. r[2][1] \in 1..Len(e)
      BY <3>1, <1>1, PositionFacts
    <3>3. r[2][1] \in Len(c) + 1 .. Len(e) <=> ~ (r[2][1] <= Len(c))
      BY <3>2, <1>1
    <3> QED BY <2>1, <3>2, <3>3 DEF Touched, Memberships
  <2>2. CASE r \notin Token \X Positions(e)
    BY <2>2 DEF Touched, Memberships
  <2> QED BY <2>1, <2>2
<1> QED BY <1>4, <1>5, <1>6, <1>7

LEMMA BelowGood ==
    ASSUME NEW c, NEW e, Below(c, e), InputsGood(e)
    PROVE  InputsGood(c)
<1>1. c \in Seq(Block) /\ e \in Seq(Block) /\ Len(c) \in Nat
  BY DEF Below
<1> SUFFICES ASSUME NEW p \in Positions(c), NEW x \in TxAt(c, p).in
             PROVE  /\ \/ x \in GenesisBoxes
                       \/ \E q \in Positions(c) : Before(q, p) /\ x \in TxAt(c, q).out
                    /\ \A q \in Positions(c) : Before(q, p) => x \notin TxAt(c, q).in
  BY DEF InputsGood
<1>2. p \in Positions(e) /\ x \in TxAt(e, p).in /\ p[1] <= Len(c)
  BY BelowPositions
<1>3. \A q \in Positions(e) : Before(q, p) => q \in Positions(c) /\ TxAt(e, q) = TxAt(c, q)
  <2> SUFFICES ASSUME NEW q \in Positions(e), Before(q, p)
               PROVE  q \in Positions(c) /\ TxAt(e, q) = TxAt(c, q)
    OBVIOUS
  <2>1. q[1] \in Nat /\ p[1] \in Nat
    BY <1>1, <1>2, PositionTypes DEF Position
  <2>2. q[1] <= Len(c)
    BY <2>1, <1>1, <1>2 DEF Before
  <2> QED BY <2>2, BelowPositions
<1>4. \A q \in Positions(c) : q \in Positions(e) /\ TxAt(e, q) = TxAt(c, q)
  BY BelowPositions
<1> QED BY <1>2, <1>3, <1>4 DEF InputsGood

(* Whatever a transaction touches has a row in BOXES.                      *)
Canonical(d) == /\ d.chain \in Seq(Block)
                /\ Linked(d.chain)
                /\ InputsGood(d.chain)
                /\ d.chain # <<>> => d.seeded

LEMMA TouchedBoxes ==
    ASSUME NEW d, Canonical(d)
    PROVE  /\ \A x \in BoxId : BoxRows(d.chain, x) # {} => x \in Boxes(d)
           /\ \A r \in Touched(d.chain) : \E x \in Boxes(d) : r \in BoxRows(d.chain, x)
<1>0. d.chain \in Seq(Block)
  BY DEF Canonical
<1>1. ASSUME NEW x \in BoxId, NEW r \in BoxRows(d.chain, x) PROVE x \in Boxes(d)
  <2>1. r[2] \in Positions(d.chain) /\ Touches(TxAt(d.chain, r[2]), x)
    BY <1>0, <1>1, TouchedFacts
  <2>2. d.chain # <<>>
    BY <2>1, <1>0, PositionFacts
  <2>3. CASE x \in TxAt(d.chain, r[2]).out
    BY <2>1, <2>3 DEF Boxes
  <2>4. CASE x \in TxAt(d.chain, r[2]).in
    BY <2>1, <2>2, <2>4 DEF Boxes, InputsGood, Canonical
  <2> QED BY <2>1, <2>3, <2>4 DEF Touches
<1>2. ASSUME NEW r \in Touched(d.chain)
      PROVE \E x \in Boxes(d) : r \in BoxRows(d.chain, x)
  <2>1. PICK x \in BoxId : r \in BoxRows(d.chain, x)
    BY <1>0, TouchedFacts
  <2> QED BY <2>1, <1>1
<1> QED BY <1>1, <1>2

-----------------------------------------------------------------------------
(* What the rows of an index owe to the chain its anchor names.            *)

IndexSound(a, c) ==
    /\ a.state.phase \in {"CLEARING", "BUILDING", "READY"}
    /\ a.state.phase = "CLEARING" => a.state.cursor = NoCursor
    /\ a.state.phase # "CLEARING" => a.byToken = a.byTx /\ a.byToken \subseteq Touched(c)
    /\ a.state.phase = "BUILDING" =>
          \A x \in BoxId : x <= a.state.cursor => BoxRows(c, x) \subseteq a.byToken
    /\ a.state.phase = "READY" => Touched(c) \subseteq a.byToken

AnchorNames(a, c) == /\ a.state.anchor.height = Len(c)
                     /\ a.state.anchor.id = IF c = <<>> THEN NoParent ELSE c[Len(c)]

(* Holds of any index, whoever wrote the chain beside it.                  *)
Valid(a) ==
    /\ a \in Auxiliary
    /\ a.state.phase # "ABSENT" =>
          \E c \in Seq(Block) : Linked(c) /\ AnchorNames(a, c) /\ IndexSound(a, c)

LEMMA AnchorFacts ==
    ASSUME NEW d, d.chain \in Seq(Block)
    PROVE  /\ Anchor(d) \in [height: Nat, id: Block \cup {NoParent}, txs: Nat, boxes: Nat]
           /\ Anchor(d).height = Len(d.chain)
           /\ Anchor(d).id = IF d.chain = <<>> THEN NoParent ELSE d.chain[Len(d.chain)]
<1> DEFINE c == d.chain
<1>1. IsFiniteSet(Boxes(d))
  <2>1. Boxes(d) \subseteq BoxId
    BY DEF Boxes
  <2> QED BY <2>1, TokensOfAssumption, FS_Subset DEF BoxId
<1>2. IsFiniteSet(Positions(c))
  <2> DEFINE Part(h) == {h} \X DOMAIN Txs[c[h]]
             Parts == {Part(h) : h \in 1..Len(c)}
  <2>1. Len(c) \in Nat
    OBVIOUS
  <2>2. IsFiniteSet(1..Len(c))
    BY <2>1, FS_Interval
  <2>3. IsFiniteSet(Parts)
    <3> DEFINE f == [h \in 1..Len(c) |-> Part(h)]
    <3>1. f \in Surjection(1..Len(c), Parts)
      BY DEF Surjection
    <3> HIDE DEF f, Parts
    <3> QED BY <2>2, <3>1, FS_Surjection
  <2>4. ASSUME NEW h \in 1..Len(c) PROVE IsFiniteSet(Part(h))
    <3> DEFINE S == [in: SUBSET BoxId, out: SUBSET BoxId]
    <3>1. \A t \in Seq(S) : DOMAIN t = 1..Len(t) /\ Len(t) \in Nat
      <4> HIDE DEF S
      <4> QED OBVIOUS
    <3>2. Txs[c[h]] \in Seq(S)
      <4>1. c[h] \in Block
        OBVIOUS
      <4> QED BY <4>1, TxsAssumption
    <3>3. DOMAIN Txs[c[h]] = 1..Len(Txs[c[h]]) /\ Len(Txs[c[h]]) \in Nat
      <4> HIDE DEF S
      <4> QED BY <3>1, <3>2
    <3>4. IsFiniteSet(DOMAIN Txs[c[h]])
      BY <3>3, FS_Interval
    <3>5. IsFiniteSet({h})
      BY FS_Singleton
    <3> QED BY <3>4, <3>5, FS_Product
  <2>5. \A P \in Parts : IsFiniteSet(P)
    BY <2>4
  <2>6. IsFiniteSet(UNION Parts)
    <3> HIDE DEF Parts
    <3> QED BY <2>3, <2>5, FS_UNION
  <2> QED BY <2>6 DEF Positions
<1>3. Cardinality(Boxes(d)) \in Nat /\ Cardinality(Positions(c)) \in Nat
  BY <1>1, <1>2, FS_CardinalityType
<1>4. Len(c) \in Nat /\ (c # <<>> => c[Len(c)] \in Block)
  OBVIOUS
<1> QED BY <1>3, <1>4 DEF Anchor, Tip

(* prepare_write: afterwards the index is sound for the chain at hand.     *)
LEMMA PrepareSound ==
    ASSUME NEW a, Valid(a), NEW d, Canonical(d)
    PROVE  /\ Prepare(a, d) \in Auxiliary
           /\ Prepare(a, d).state.anchor = Anchor(d)
           /\ IndexSound(Prepare(a, d), d.chain)
<1>0. d.chain \in Seq(Block) /\ a \in Auxiliary /\ a.state \in AuxState
  BY DEF Canonical, Valid, Auxiliary
<1>1. CASE Current(a, d)
  <2>1. Prepare(a, d) = a /\ a.state.anchor = Anchor(d) /\ a.state.phase # "ABSENT"
    BY <1>1 DEF Prepare, Current
  <2>2. PICK c \in Seq(Block) : Linked(c) /\ AnchorNames(a, c) /\ IndexSound(a, c)
    BY <2>1 DEF Valid
  <2>3. /\ Len(c) = Len(d.chain)
        /\ (IF c = <<>> THEN NoParent ELSE c[Len(c)]) =
           (IF d.chain = <<>> THEN NoParent ELSE d.chain[Len(d.chain)])
    BY <2>1, <2>2, <1>0, AnchorFacts DEF AnchorNames
  <2>4. CASE Len(c) = 0
    <3>1. c = <<>> /\ d.chain = <<>>
      <4>1. \A s \in Seq(Block) : Len(s) = 0 => s = <<>>
        OBVIOUS
      <4> QED BY <4>1, <2>3, <2>4, <1>0
    <3> QED BY <3>1, <2>1, <2>2, <1>0
  <2>5. CASE Len(c) > 0
    <3>1. c # <<>> /\ d.chain # <<>>
      BY <2>3, <2>5, <1>0
    <3>2. c = d.chain
      BY <2>2, <2>3, <2>5, <3>1, <1>0, TipDetermines DEF Canonical
    <3> QED BY <3>2, <2>1, <2>2, <1>0
  <2>6. Len(c) \in Nat
    OBVIOUS
  <2> QED BY <2>4, <2>5, <2>6
<1>2. CASE ~ Current(a, d)
  <2> DEFINE ph == IF a.byToken \cup a.byTx # {} THEN "CLEARING"
                   ELSE IF Boxes(d) # {} THEN "BUILDING" ELSE "READY"
             st == [phase |-> ph, cursor |-> NoCursor, anchor |-> Anchor(d)]
             b  == Prepare(a, d)
  <2>1. b = [a EXCEPT !.state = st]
    BY <1>2 DEF Prepare
  <2>2. st \in AuxState
    BY <1>0, AnchorFacts DEF AuxState
  <2>3. b \in Auxiliary /\ b.state = st /\ b.byToken = a.byToken /\ b.byTx = a.byTx
    BY <2>1, <2>2, <1>0 DEF Auxiliary
  <2>4. \A x \in BoxId : ~ (x <= NoCursor)
    BY TokensOfAssumption DEF BoxId, NoCursor
  <2>5. Boxes(d) = {} => Touched(d.chain) = {}
    BY TouchedBoxes
  <2>6. ph # "CLEARING" => a.byToken = {} /\ a.byTx = {}
    OBVIOUS
  <2>7. IndexSound(b, d.chain)
    BY <2>3, <2>4, <2>5, <2>6 DEF IndexSound
  <2> QED BY <2>3, <2>7
<1> QED BY <1>1, <1>2

(* The hook of apply_block: sound for a chain, then for a longer one.      *)
LEMMA InsertSound ==
    ASSUME NEW a \in Auxiliary, NEW c, NEW e, Below(c, e), IndexSound(a, c)
    PROVE  LET b == InsertTxs(a, e, Len(c) + 1 .. Len(e))
           IN  b \in Auxiliary /\ b.state = a.state /\ IndexSound(b, e)
<1> DEFINE new == Memberships(e, Len(c) + 1 .. Len(e))
           b   == InsertTxs(a, e, Len(c) + 1 .. Len(e))
<1>0. e \in Seq(Block)
  BY DEF Below
<1>1. /\ b.state = a.state
      /\ b.byToken = a.byToken \cup new /\ b.byTx = a.byTx \cup new
      /\ b = [byToken |-> a.byToken \cup new, byTx |-> a.byTx \cup new, state |-> a.state]
  <2>1. b = [a EXCEPT !.byToken = @ \cup new, !.byTx = @ \cup new]
    BY DEF InsertTxs
  <2> HIDE DEF new, b
  <2> QED BY <2>1 DEF Auxiliary
<1>2. /\ new = {r \in Touched(e) : ~ (r[2][1] <= Len(c))}
      /\ Touched(c) = {r \in Touched(e) : r[2][1] <= Len(c)}
  BY BelowTouched
<1>3. \A x \in BoxId : BoxRows(e, x) \subseteq BoxRows(c, x) \cup new
  BY <1>2, BelowTouched
<1>4. Touched(e) = Touched(c) \cup new /\ new \subseteq Touched(e)
  BY <1>2
<1>5. Touched(e) \subseteq Row
  BY <1>0, TouchedFacts
<1>6. b \in Auxiliary
  BY <1>1, <1>4, <1>5 DEF Auxiliary
<1> HIDE DEF new, b
<1>7. a.state.phase # "CLEARING" => b.byToken = b.byTx /\ b.byToken \subseteq Touched(e)
  BY <1>1, <1>4 DEF IndexSound
<1>8. a.state.phase = "BUILDING" =>
          \A x \in BoxId : x <= a.state.cursor => BoxRows(e, x) \subseteq b.byToken
  BY <1>1, <1>3 DEF IndexSound
<1>9. a.state.phase = "READY" => Touched(e) \subseteq b.byToken
  BY <1>1, <1>4 DEF IndexSound
<1>10. IndexSound(b, e)
  BY <1>1, <1>7, <1>8, <1>9 DEF IndexSound
<1> QED BY <1>1, <1>6, <1>10 DEF b

(* remove_tx over the undone blocks: sound for a chain, then for a shorter *)
(* one.  It looks only at the reverse rows, which is enough unless CLEARING.*)
LEMMA RemoveSound ==
    ASSUME NEW a \in Auxiliary, NEW c, NEW e, Below(c, e), IndexSound(a, e)
    PROVE  LET b == RemoveTxs(a, Len(c) + 1 .. Len(e))
           IN  b \in Auxiliary /\ b.state = a.state /\ IndexSound(b, c)
<1> DEFINE gone == {r \in a.byTx : r[2][1] \in Len(c) + 1 .. Len(e)}
           b    == RemoveTxs(a, Len(c) + 1 .. Len(e))
<1>0. e \in Seq(Block) /\ Len(c) \in Nat /\ Len(e) \in Nat
  BY DEF Below
<1>1. /\ b.state = a.state
      /\ b.byToken = a.byToken \ gone /\ b.byTx = a.byTx \ gone
      /\ b = [byToken |-> a.byToken \ gone, byTx |-> a.byTx \ gone, state |-> a.state]
  <2>1. b = [a EXCEPT !.byToken = @ \ gone, !.byTx = @ \ gone]
    BY DEF RemoveTxs
  <2> HIDE DEF gone, b
  <2> QED BY <2>1 DEF Auxiliary
<1>2. Touched(c) = {r \in Touched(e) : r[2][1] <= Len(c)}
  BY BelowTouched
<1>3. \A x \in BoxId : BoxRows(c, x) = {r \in BoxRows(e, x) : r[2][1] <= Len(c)}
  BY BelowTouched
<1>4. \A r \in Touched(e) : r[2][1] \in 1..Len(e)
  BY <1>0, TouchedFacts
<1>5. ASSUME a.state.phase # "CLEARING"
      PROVE  gone = {r \in a.byToken : ~ (r[2][1] <= Len(c))}
  <2>1. a.byToken = a.byTx /\ a.byToken \subseteq Touched(e)
    BY <1>5 DEF IndexSound
  <2>2. \A r \in Touched(e) : r[2][1] \in Len(c) + 1 .. Len(e) <=> ~ (r[2][1] <= Len(c))
    BY <1>4, <1>0
  <2> QED BY <2>1, <2>2
<1>6. b \in Auxiliary
  BY <1>1 DEF Auxiliary
<1> HIDE DEF gone, b
<1>7. a.state.phase # "CLEARING" => b.byToken = b.byTx /\ b.byToken \subseteq Touched(c)
  BY <1>1, <1>2, <1>5 DEF IndexSound
<1>8. a.state.phase = "BUILDING" =>
          \A x \in BoxId : x <= a.state.cursor => BoxRows(c, x) \subseteq b.byToken
  BY <1>1, <1>3, <1>5 DEF IndexSound
<1>9. a.state.phase = "READY" => Touched(c) \subseteq b.byToken
  BY <1>1, <1>2, <1>5 DEF IndexSound
<1>10. IndexSound(b, c)
  BY <1>1, <1>7, <1>8, <1>9 DEF IndexSound
<1> QED BY <1>1, <1>6, <1>10 DEF b

(* A batch of the rebuild only moves forward, and READY is earned.         *)
LEMMA BatchSound ==
    ASSUME NEW a \in Auxiliary, NEW d, Canonical(d), IndexSound(a, d.chain),
           NEW b \in BatchResults(a, d)
    PROVE  /\ b \in Auxiliary /\ IndexSound(b, d.chain)
           /\ b.state.anchor = a.state.anchor
           /\ a.state.cursor <= b.state.cursor
           /\ PhaseRank(a) <= PhaseRank(b)
           /\ a.state.phase = "READY" => b = a
<1>0. /\ d.chain \in Seq(Block) /\ a.state \in AuxState
      /\ a.byToken \in SUBSET Row /\ a.byTx \in SUBSET Row
      /\ a.state.cursor \in Int
      /\ \A x \in BoxId : x \in Nat
  BY TokensOfAssumption DEF Canonical, Auxiliary, AuxState, BoxId, NoCursor
<1>1. CASE a.state.phase = "CLEARING"
  <2> DEFINE f == WithoutFirst(a.byToken, MaxRows, ByToken)
             r == WithoutFirst(a.byTx, MaxRows - Cardinality(a.byToken \ f), ByTx)
             ph == IF f = {} /\ r = {} THEN "BUILDING" ELSE a.state.phase
  <2>1. f \subseteq a.byToken /\ r \subseteq a.byTx
    BY DEF WithoutFirst
  <2>2. b = Cleared(a)
    BY <1>1 DEF BatchResults
  <2>3. b = [byToken |-> f, byTx |-> r, state |-> [a.state EXCEPT !.phase = ph]]
    BY <2>2 DEF Cleared, Auxiliary
  <2> HIDE DEF f, r
  <2>4. /\ b.byToken = f /\ b.byTx = r
        /\ b.state = [phase |-> ph, cursor |-> a.state.cursor, anchor |-> a.state.anchor]
    BY <2>3, <1>0 DEF AuxState
  <2>5. b \in Auxiliary
    BY <2>1, <2>3, <2>4, <1>0, <1>1 DEF Auxiliary, AuxState
  <2>6. a.state.cursor = NoCursor
    BY <1>1 DEF IndexSound
  <2>7. \A x \in BoxId : ~ (x <= NoCursor)
    BY <1>0 DEF NoCursor
  <2>8. IndexSound(b, d.chain)
    BY <2>4, <2>6, <2>7, <1>1 DEF IndexSound
  <2> QED BY <2>4, <2>5, <2>8, <1>0, <1>1 DEF PhaseRank
<1>2. CASE a.state.phase = "BUILDING" /\ \E x \in Boxes(d) : a.state.cursor < x
  <2>1. PICK last \in Stops(a, d) : b = Scanned(a, d, last)
    BY <1>2 DEF BatchResults
  <2>2. last \in Boxes(d) /\ last \in BoxId /\ last \in Nat /\ a.state.cursor < last
    BY <2>1, <1>0 DEF Stops, Boxes
  <2> DEFINE rows == UNION {BoxRows(d.chain, x) : x \in Scan(a, d, last)}
             ph   == IF \E x \in Boxes(d) : last < x THEN a.state.phase ELSE "READY"
  <2>3. b = [byToken |-> a.byToken \cup rows, byTx |-> a.byTx \cup rows,
             state |-> [a.state EXCEPT !.cursor = last, !.phase = ph]]
    BY <2>1 DEF Scanned, Auxiliary
  <2>4. rows \subseteq Touched(d.chain) /\ Touched(d.chain) \subseteq Row
    <3>1. \A x \in Scan(a, d, last) : x \in BoxId
      BY DEF Scan, Boxes
    <3> QED BY <3>1, <1>0, TouchedFacts
  <2>5. \A x \in Boxes(d) : a.state.cursor < x /\ x <= last => BoxRows(d.chain, x) \subseteq rows
    BY DEF Scan
  <2> HIDE DEF rows
  <2>6. /\ b.byToken = a.byToken \cup rows /\ b.byTx = a.byTx \cup rows
        /\ b.state = [phase |-> ph, cursor |-> last, anchor |-> a.state.anchor]
    BY <2>3, <1>0 DEF AuxState
  <2>7. b \in Auxiliary
    BY <2>2, <2>3, <2>4, <2>6, <1>0, <1>2 DEF Auxiliary, AuxState
  <2>8. \A x \in BoxId : x <= last => BoxRows(d.chain, x) \subseteq b.byToken
    <3> SUFFICES ASSUME NEW x \in BoxId, x <= last, BoxRows(d.chain, x) # {}
                 PROVE  BoxRows(d.chain, x) \subseteq b.byToken
      OBVIOUS
    <3>1. x \in Boxes(d)
      BY TouchedBoxes
    <3>2. CASE x <= a.state.cursor
      BY <3>2, <2>6, <1>2 DEF IndexSound
    <3>3. CASE a.state.cursor < x
      BY <3>1, <3>3, <2>5, <2>6
    <3> QED BY <3>2, <3>3, <1>0
  <2>9. ph = "READY" => Touched(d.chain) \subseteq b.byToken
    <3> SUFFICES ASSUME ph = "READY", NEW r \in Touched(d.chain) PROVE r \in b.byToken
      OBVIOUS
    <3>1. PICK x \in Boxes(d) : r \in BoxRows(d.chain, x)
      BY TouchedBoxes
    <3>2. x \in BoxId /\ x \in Nat
      BY <1>0 DEF Boxes
    <3>3. ~ (last < x)
      BY <1>2
    <3> QED BY <3>1, <3>2, <3>3, <2>2, <2>8
  <2>10. b.byToken = b.byTx /\ b.byToken \subseteq Touched(d.chain)
    BY <2>4, <2>6, <1>2 DEF IndexSound
  <2>11. IndexSound(b, d.chain)
    BY <2>6, <2>8, <2>9, <2>10, <1>2 DEF IndexSound
  <2> QED BY <2>2, <2>6, <2>7, <2>11, <1>0, <1>2 DEF PhaseRank
<1>3. CASE a.state.phase = "BUILDING" /\ ~ \E x \in Boxes(d) : a.state.cursor < x
  <2>1. b = [a EXCEPT !.state.phase = "READY"]
    BY <1>3 DEF BatchResults
  <2>2. /\ b = [byToken |-> a.byToken, byTx |-> a.byTx,
                state |-> [a.state EXCEPT !.phase = "READY"]]
        /\ b.byToken = a.byToken /\ b.byTx = a.byTx
        /\ b.state = [phase |-> "READY", cursor |-> a.state.cursor, anchor |-> a.state.anchor]
    BY <2>1, <1>0 DEF Auxiliary, AuxState
  <2>3. b \in Auxiliary
    BY <2>2, <1>0 DEF Auxiliary, AuxState
  <2>4. Touched(d.chain) \subseteq a.byToken
    <3> SUFFICES ASSUME NEW r \in Touched(d.chain) PROVE r \in a.byToken
      OBVIOUS
    <3>1. PICK x \in Boxes(d) : r \in BoxRows(d.chain, x)
      BY TouchedBoxes
    <3>2. x \in BoxId /\ x <= a.state.cursor
      BY <1>0, <1>3 DEF Boxes
    <3> QED BY <3>1, <3>2, <1>3 DEF IndexSound
  <2>5. IndexSound(b, d.chain)
    BY <2>2, <2>4, <1>3 DEF IndexSound
  <2> QED BY <2>2, <2>3, <2>5, <1>0, <1>3 DEF PhaseRank
<1>4. CASE a.state.phase = "READY"
  <2>1. b = a
    BY <1>4 DEF BatchResults
  <2> QED BY <2>1, <1>0, <1>4 DEF PhaseRank
<1> QED BY <1>1, <1>2, <1>3, <1>4 DEF IndexSound

(* finish_write, after the hooks: the anchor names the new chain.          *)
LEMMA FinishSound ==
    ASSUME NEW a \in Auxiliary, NEW d, Canonical(d), IndexSound(a, d.chain)
    PROVE  /\ Valid(Finish(a, d)) /\ Current(Finish(a, d), d)
           /\ Finish(a, d).state.phase = a.state.phase
           /\ Finish(a, d).state.cursor = a.state.cursor
<1> DEFINE b == Finish(a, d)
<1>0. d.chain \in Seq(Block) /\ Linked(d.chain) /\ a.state \in AuxState
  BY DEF Canonical, Auxiliary
<1>1. /\ b = [byToken |-> a.byToken, byTx |-> a.byTx,
              state |-> [a.state EXCEPT !.anchor = Anchor(d)]]
      /\ b.byToken = a.byToken /\ b.byTx = a.byTx
      /\ b.state = [phase |-> a.state.phase, cursor |-> a.state.cursor, anchor |-> Anchor(d)]
  BY <1>0 DEF Finish, Auxiliary, AuxState
<1>2. b \in Auxiliary
  BY <1>1, <1>0, AnchorFacts DEF Auxiliary, AuxState
<1>3. IndexSound(b, d.chain) /\ AnchorNames(b, d.chain)
  BY <1>0, <1>1, AnchorFacts DEF IndexSound, AnchorNames
<1>4. b.state.phase # "ABSENT"
  BY <1>1 DEF IndexSound
<1> QED BY <1>0, <1>1, <1>2, <1>3, <1>4 DEF Valid, Current

LEMMA CurrentSound ==
    ASSUME NEW a, Valid(a), NEW d, Canonical(d), Current(a, d)
    PROVE  IndexSound(a, d.chain) /\ Prepare(a, d) = a /\ a \in Auxiliary
<1>1. Prepare(a, d) = a
  BY DEF Prepare
<1> QED BY <1>1, PrepareSound DEF Valid

-----------------------------------------------------------------------------
(* The inductive invariant.  An older binary leaves an index that is sound *)
(* for some other chain; one that knows the index keeps it current.        *)
HInv == /\ IInv
        /\ InputsGood(db.chain) /\ InputsGood(disk.chain)
        /\ Valid(aux) /\ Valid(auxDisk)
        /\ hooks \in BOOLEAN
        /\ worker \in {"batch", "status", "done", "stopped"}
        /\ hooks => /\ Current(aux, db) /\ Current(auxDisk, disk)
                    /\ auxDisk.state.phase = aux.state.phase
                    /\ auxDisk.state.cursor = aux.state.cursor
        /\ worker # "stopped" => hooks
        /\ worker = "done" => aux.state.phase = "READY"

Progress == hooks /\ hooks' => /\ PhaseRank(aux) <= PhaseRank(aux')
                              /\ aux.state.cursor <= aux'.state.cursor

LEMMA SoundCanonical ==
    ASSUME NEW d, Sound(d), InputsGood(d.chain)
    PROVE  Canonical(d)
BY DEF Sound, Canonical, Database, Openable

LEMMA HInvFacts ==
    ASSUME HInv
    PROVE  /\ Canonical(db) /\ Canonical(disk)
           /\ aux \in Auxiliary /\ auxDisk \in Auxiliary
           /\ aux.state.cursor \in Int /\ PhaseRank(aux) \in Int
           /\ hooks => IndexSound(aux, db.chain) /\ Prepare(aux, db) = aux
<1>1. Canonical(db) /\ Canonical(disk)
  BY SoundCanonical DEF HInv, IInv
<1>2. aux \in Auxiliary /\ auxDisk \in Auxiliary /\ aux.state.cursor \in Int
  BY TokensOfAssumption DEF HInv, Valid, Auxiliary, AuxState, BoxId, NoCursor
<1>3. hooks => IndexSound(aux, db.chain) /\ Prepare(aux, db) = aux
  BY <1>1, CurrentSound DEF HInv
<1>4. PhaseRank(aux) \in Int
  BY <1>2 DEF PhaseRank, Auxiliary, AuxState
<1> QED BY <1>1, <1>2, <1>3, <1>4

(* Every step is a call of the chain store, or none. *)
LEMMA StepImplements ==
    ASSUME [HistoryNext]_historyVars
    PROVE  [Next]_vars
BY DEF HistoryNext, historyVars, Next, Seed, Apply, Rollback, BackfillBatch, BackfillStops,
       BackfillStatus, OtherIndexCommit, Restart, vars

(* A core call that fails, or changes nothing. *)
LEMMA IdleKeeps ==
    ASSUME HInv, IInv', db' = db, disk' = disk, UNCHANGED <<aux, auxDisk, hooks>>,
           worker' \in {"batch", "stopped", worker},
           worker' # "stopped" => worker # "stopped"
    PROVE  HInv' /\ Progress
<1>1. HInv'
  BY DEF HInv
<1> QED BY <1>1, HInvFacts DEF Progress

(* A core call that commits: the index goes with it. *)
LEMMA CommitHInv ==
    ASSUME HInv, IInv', db' # db, NEW durable \in BOOLEAN,
           disk' = (IF durable THEN db' ELSE disk),
           InputsGood(db'.chain), NEW a, CommitAux(a, durable),
           hooks => a \in Auxiliary /\ a.state = aux.state /\ IndexSound(a, db'.chain)
    PROVE  HInv' /\ Progress
<1>1. hooks' = hooks /\ worker' = worker /\ auxDisk' = (IF durable THEN aux' ELSE auxDisk)
      /\ aux' = (IF hooks THEN Finish(a, db') ELSE aux)
  BY DEF CommitAux, HInv
<1>2. InputsGood(disk'.chain)
  BY DEF HInv
<1>3. CASE ~ hooks
  BY <1>1, <1>2, <1>3 DEF HInv, Progress
<1>4. CASE hooks
  <2>1. Canonical(db')
    BY SoundCanonical DEF IInv
  <2>2. /\ Valid(aux') /\ Current(aux', db')
        /\ aux'.state.phase = aux.state.phase /\ aux'.state.cursor = aux.state.cursor
    BY <1>1, <1>4, <2>1, FinishSound
  <2>3. Progress
    <3>1. PhaseRank(aux') = PhaseRank(aux)
      BY <2>2 DEF PhaseRank
    <3> QED BY <2>2, <3>1, HInvFacts DEF Progress
  <2>4. HInv'
    <3>1. CASE durable
      BY <1>1, <1>2, <1>4, <2>2, <3>1 DEF HInv
    <3>2. CASE ~ durable
      BY <1>1, <1>2, <1>4, <2>2, <3>2 DEF HInv, Current
    <3> QED BY <3>1, <3>2
  <2> QED BY <2>3, <2>4
<1> QED BY <1>3, <1>4 DEF HInv

LEMMA SeedHInv == ASSUME HInv, IInv', Seed PROVE HInv' /\ Progress
<1>1. CASE db' = db /\ disk' = disk
  BY <1>1, IdleKeeps DEF Seed, CommitAux
<1>2. CASE ~ db.seeded /\ db.chain = <<>> /\ CommitImmediate([db EXCEPT !.seeded = TRUE])
  <2>1. db \in Database
    BY DEF HInv, IInv, Sound
  <2>2. db'.seeded = TRUE /\ db'.chain = db.chain /\ disk' = db'
    BY <1>2, <2>1 DEF CommitImmediate, Database
  <2>3. hooks => /\ Prepare(aux, db) \in Auxiliary /\ Prepare(aux, db).state = aux.state
                 /\ IndexSound(Prepare(aux, db), db'.chain)
    BY <2>2, HInvFacts
  <2> QED BY <1>2, <2>2, <2>3, CommitHInv DEF Seed, HInv
<1>3. \/ db' = db /\ disk' = disk
      \/ ~ db.seeded /\ db.chain = <<>> /\ CommitImmediate([db EXCEPT !.seeded = TRUE])
  BY DEF Seed, SeedGenesis, Fail
<1> QED BY <1>1, <1>2, <1>3

LEMMA ApplyHInv ==
    ASSUME HInv, IInv', NEW batch \in Batch, NEW durable \in BOOLEAN, Apply(batch, durable)
    PROVE  HInv' /\ Progress
<1>1. CASE db' = db /\ disk' = disk
  BY <1>1, IdleKeeps DEF Apply, CommitAux
<1>2. CASE /\ batch # <<>>
           /\ db' = Extend(db, batch) /\ disk' = (IF durable THEN db' ELSE disk)
  <2>1. db \in Database /\ db.chain \in Seq(Block) /\ batch \in Seq(Block)
    BY BatchAssumption DEF HInv, IInv, Sound, Database
  <2>2. db'.chain = db.chain \o batch
    BY <1>2, <2>1 DEF Extend, Database
  <2>3. /\ Len(batch) \in Nat \ {0} /\ Len(db.chain) \in Nat
        /\ Len(db'.chain) = Len(db.chain) + Len(batch)
        /\ db'.chain \in Seq(Block)
        /\ \A i \in 1..Len(db.chain) : db'.chain[i] = db.chain[i]
    BY <1>2, <2>1, <2>2
  <2>4. Below(db.chain, db'.chain) /\ db' # db
    BY <2>1, <2>3 DEF Below
  <2>5. InputsGood(db'.chain)
    BY <2>4 DEF Apply
  <2> DEFINE a == InsertTxs(Prepare(aux, db), db'.chain, Len(db.chain) + 1 .. Len(db'.chain))
  <2>6. hooks => a \in Auxiliary /\ a.state = aux.state /\ IndexSound(a, db'.chain)
    BY <2>4, HInvFacts, InsertSound
  <2>7. CommitAux(a, durable)
    BY DEF Apply, Tip
  <2> HIDE DEF a
  <2> QED BY <1>2, <2>4, <2>5, <2>6, <2>7, CommitHInv
<1>3. \/ db' = db /\ disk' = disk
      \/ /\ batch # <<>>
         /\ db' = Extend(db, batch) /\ disk' = (IF durable THEN db' ELSE disk)
  BY DEF Apply, ApplyBatch, Fail, CommitImmediate, CommitNone
<1> QED BY <1>1, <1>2, <1>3

LEMMA RollbackHInv ==
    ASSUME HInv, IInv', NEW target \in 0..Tip(db), Rollback(target)
    PROVE  HInv' /\ Progress
<1>1. CASE db' = db /\ disk' = disk
  BY <1>1, IdleKeeps DEF Rollback, CommitAux
<1>2. CASE ~ (Tip(db) <= target) /\ db' = Truncate(db, target) /\ disk' = db'
  <2>1. db \in Database /\ db.chain \in Seq(Block) /\ Len(db.chain) \in Nat
    BY DEF HInv, IInv, Sound, Database
  <2>2. db'.chain = SubSeq(db.chain, 1, target)
    BY <1>2, <2>1 DEF Truncate, Database
  <2>3. /\ target \in Nat /\ target < Len(db.chain)
        /\ Len(db'.chain) = target /\ db'.chain \in Seq(Block)
        /\ \A i \in 1..target : db'.chain[i] = db.chain[i]
    BY <1>2, <2>1, <2>2 DEF Tip
  <2>4. Below(db'.chain, db.chain) /\ db' # db
    BY <2>1, <2>3 DEF Below
  <2>5. InputsGood(db'.chain)
    BY <2>4, BelowGood DEF HInv
  <2> DEFINE a == RemoveTxs(Prepare(aux, db), Len(db'.chain) + 1 .. Len(db.chain))
  <2>6. hooks => a \in Auxiliary /\ a.state = aux.state /\ IndexSound(a, db'.chain)
    BY <2>4, HInvFacts, RemoveSound
  <2>7. CommitAux(a, TRUE)
    BY <2>3 DEF Rollback, Tip
  <2> HIDE DEF a
  <2> QED BY <1>2, <2>4, <2>5, <2>6, <2>7, CommitHInv
<1>3. \/ db' = db /\ disk' = disk
      \/ ~ (Tip(db) <= target) /\ db' = Truncate(db, target) /\ disk' = db'
  BY DEF Rollback, RollbackTo, Fail, CommitImmediate
<1> QED BY <1>1, <1>2, <1>3

LEMMA BatchHInv == ASSUME HInv, IInv', BackfillBatch PROVE HInv' /\ Progress
<1>1. /\ hooks /\ db' = db /\ disk' = db /\ hooks' = hooks
      /\ worker' = "status" /\ auxDisk' = aux' /\ aux' \in BatchResults(aux, db)
  BY HInvFacts DEF BackfillBatch, AuxiliaryCommit, CommitImmediate, HInv
<1>2. /\ aux' \in Auxiliary /\ IndexSound(aux', db.chain)
      /\ aux'.state.anchor = aux.state.anchor
      /\ aux.state.cursor <= aux'.state.cursor /\ PhaseRank(aux) <= PhaseRank(aux')
  BY <1>1, HInvFacts, BatchSound
<1>3. Current(aux, db) /\ db.chain \in Seq(Block) /\ Linked(db.chain)
  BY <1>1, HInvFacts DEF HInv, Canonical
<1>4. Current(aux', db)
  BY <1>2, <1>3 DEF Current, IndexSound
<1>5. Valid(aux')
  <2>1. AnchorNames(aux', db.chain)
    BY <1>3, <1>4, AnchorFacts DEF AnchorNames, Current
  <2> QED BY <1>2, <1>3, <2>1 DEF Valid
<1> QED BY <1>1, <1>2, <1>4, <1>5 DEF HInv, Progress, Current

LEMMA RestartHInv ==
    ASSUME HInv, IInv', NEW binary \in BOOLEAN, Restart(binary)
    PROVE  HInv' /\ Progress
<1>1. /\ db' = disk /\ disk' = disk /\ hooks' = binary /\ auxDisk' = aux'
      /\ aux' = (IF binary THEN Prepare(auxDisk, disk) ELSE auxDisk)
      /\ worker' = (IF binary THEN "batch" ELSE "stopped")
  <2>1. Openable(disk)
    BY DEF HInv, IInv, Sound
  <2> QED BY <2>1 DEF Restart, CrashAndOpen
<1>2. CASE ~ binary
  BY <1>1, <1>2 DEF HInv, Progress
<1>3. CASE binary
  <2> DEFINE b == Prepare(auxDisk, disk)
  <2>1. /\ b \in Auxiliary /\ b.state.anchor = Anchor(disk) /\ IndexSound(b, disk.chain)
    BY HInvFacts, PrepareSound DEF HInv
  <2>2. disk.chain \in Seq(Block) /\ Linked(disk.chain)
    BY HInvFacts DEF Canonical
  <2> HIDE DEF b
  <2>3. Current(b, disk) /\ AnchorNames(b, disk.chain)
    BY <2>1, <2>2, AnchorFacts DEF Current, AnchorNames, IndexSound
  <2>4. Valid(b)
    BY <2>1, <2>2, <2>3 DEF Valid
  <2>5. aux' = b
    BY <1>1, <1>3 DEF b
  <2>6. HInv'
    BY <1>1, <1>3, <2>3, <2>4, <2>5 DEF HInv
  <2>7. Progress
    <3> SUFFICES ASSUME hooks
                 PROVE  PhaseRank(aux) <= PhaseRank(b) /\ aux.state.cursor <= b.state.cursor
      BY <2>5 DEF Progress
    <3>1. b = auxDisk
      BY DEF b, HInv, Prepare
    <3>2. PhaseRank(b) = PhaseRank(aux) /\ b.state.cursor = aux.state.cursor
      BY <3>1 DEF HInv, PhaseRank
    <3> QED BY <3>2, HInvFacts
  <2> QED BY <2>6, <2>7
<1> QED BY <1>2, <1>3

LEMMA WorkerHInv ==
    ASSUME HInv, IInv', BackfillStops \/ BackfillStatus \/ OtherIndexCommit
    PROVE  HInv' /\ Progress
<1>1. CASE BackfillStops
  BY <1>1, IdleKeeps DEF BackfillStops, vars
<1>2. CASE BackfillStatus
  <2>1. /\ db' = db /\ disk' = disk /\ UNCHANGED <<aux, auxDisk, hooks>>
        /\ worker' = (IF Ready(aux, db) THEN "done" ELSE "batch")
        /\ worker = "status"
    BY <1>2 DEF BackfillStatus, vars
  <2>2. HInv'
    BY <2>1 DEF HInv, Ready
  <2> QED BY <2>1, <2>2, HInvFacts DEF Progress
<1>3. CASE OtherIndexCommit
  <2>1. /\ db' = db /\ disk' = db /\ auxDisk' = aux /\ aux' = aux /\ hooks /\ hooks' = hooks
        /\ worker' = worker
    BY <1>3 DEF OtherIndexCommit, AuxiliaryCommit, CommitImmediate
  <2>2. HInv'
    BY <2>1 DEF HInv
  <2> QED BY <2>1, <2>2, HInvFacts DEF Progress
<1> QED BY <1>1, <1>2, <1>3

LEMMA InitHInv == HistoryInit => HInv
<1> SUFFICES ASSUME HistoryInit PROVE HInv
  OBVIOUS
<1>1. IInv /\ db = EmptyDatabase /\ disk = EmptyDatabase
  BY InitIInv DEF HistoryInit, Init
<1>2. EmptyDatabase.chain = <<>> /\ Len(<<>>) = 0
  BY DEF EmptyDatabase
<1>3. Positions(<<>>) = {}
  BY DEF Positions
<1>4. InputsGood(EmptyDatabase.chain)
  BY <1>2, <1>3 DEF InputsGood
<1>5. Canonical(EmptyDatabase)
  BY <1>1, <1>4, SoundCanonical DEF IInv
<1>6. NoAux \in Auxiliary
  <2>1. EmptyDatabase.chain \in Seq(Block)
    BY <1>2, EmptySeq
  <2>2. Anchor(EmptyDatabase) \in [height: Nat, id: Block \cup {NoParent}, txs: Nat, boxes: Nat]
    BY <2>1, AnchorFacts
  <2> QED BY <2>2 DEF NoAux, Auxiliary, AuxState
<1>7. Valid(NoAux)
  BY <1>6 DEF Valid, NoAux
<1> DEFINE b == Prepare(NoAux, EmptyDatabase)
<1>8. /\ b \in Auxiliary /\ b.state.anchor = Anchor(EmptyDatabase)
      /\ IndexSound(b, EmptyDatabase.chain)
  BY <1>5, <1>7, PrepareSound
<1>9. EmptyDatabase.chain \in Seq(Block) /\ Linked(EmptyDatabase.chain)
  BY <1>5 DEF Canonical
<1> HIDE DEF b
<1>10. Current(b, EmptyDatabase) /\ AnchorNames(b, EmptyDatabase.chain)
  BY <1>8, <1>9, AnchorFacts DEF Current, AnchorNames, IndexSound
<1>11. Valid(b)
  BY <1>8, <1>9, <1>10 DEF Valid
<1>12. /\ hooks \in BOOLEAN /\ auxDisk = aux
       /\ aux = (IF hooks THEN b ELSE NoAux)
       /\ worker = (IF hooks THEN "batch" ELSE "stopped")
  BY DEF HistoryInit, b
<1> QED BY <1>1, <1>4, <1>7, <1>10, <1>11, <1>12 DEF HInv

LEMMA NextHInv == HInv /\ [HistoryNext]_historyVars => HInv' /\ (Progress \/ UNCHANGED historyVars)
<1> SUFFICES ASSUME HInv, [HistoryNext]_historyVars
             PROVE  HInv' /\ (Progress \/ UNCHANGED historyVars)
  OBVIOUS
<1>1. IInv'
  BY StepImplements, NextIInv DEF HInv
<1>2. CASE Seed
  BY <1>1, <1>2, SeedHInv
<1>3. CASE \E batch \in Batch, durable \in BOOLEAN : Apply(batch, durable)
  BY <1>1, <1>3, ApplyHInv
<1>4. CASE \E target \in 0..Tip(db) : Rollback(target)
  BY <1>1, <1>4, RollbackHInv
<1>5. CASE BackfillBatch
  BY <1>1, <1>5, BatchHInv
<1>6. CASE BackfillStops \/ BackfillStatus \/ OtherIndexCommit
  BY <1>1, <1>6, WorkerHInv
<1>7. CASE \E binary \in BOOLEAN : Restart(binary)
  BY <1>1, <1>7, RestartHInv
<1>8. CASE UNCHANGED historyVars
  BY <1>1, <1>8, IdleKeeps DEF historyVars, auxVars, vars
<1> QED BY <1>2, <1>3, <1>4, <1>5, <1>6, <1>7, <1>8 DEF HistoryNext

(* What the index is, whoever wrote it, for every instance. *)
THEOREM HistoryInvariant == HistorySpec => []HInv
BY InitHInv, NextHInv, PTL DEF HistorySpec

(* The indexed store is a chain store: the index changes none of its calls.*)
THEOREM HistoryImplementsStore == HistorySpec => Spec
<1>1. HistoryInit => Init
  BY DEF HistoryInit
<1> QED BY <1>1, StepImplements, PTL DEF HistorySpec, Spec

(* The type invariant. *)
THEOREM HistoryTypes == HistorySpec => []HistoryTypeOK
<1>1. HInv => HistoryTypeOK
  BY DEF HInv, HistoryTypeOK, Valid
<1> QED BY <1>1, HistoryInvariant, PTL

(* A ready index holds exactly the memberships of the chain it is read     *)
(* with, now and after a crash.                                            *)
THEOREM HistoryReadyExact == HistorySpec => []ReadyExact
<1>1. ASSUME HInv PROVE ReadyExact
  <2>1. ASSUME NEW a, Valid(a), NEW d, Canonical(d) PROVE Exact(a, d)
    BY <2>1, CurrentSound DEF Exact, Ready, IndexSound
  <2> QED BY <1>1, <2>1, HInvFacts DEF ReadyExact, HInv
<1> QED BY <1>1, HistoryInvariant, PTL

(* The rebuild's cursor: nothing behind it is missing, nothing is foreign. *)
THEOREM HistoryBuildingSound == HistorySpec => []BuildingSound
<1>1. ASSUME HInv PROVE BuildingSound
  <2>1. Current(aux, db) => IndexSound(aux, db.chain)
    BY <1>1, HInvFacts, CurrentSound DEF HInv
  <2>2. Boxes(db) \subseteq BoxId
    BY DEF Boxes
  <2> QED BY <2>1, <2>2 DEF BuildingSound, IndexSound
<1> QED BY <1>1, HistoryInvariant, PTL

(* A worker that left did not leave too early. *)
THEOREM HistoryDoneStaysReady == HistorySpec => []DoneStaysReady
<1>1. HInv => DoneStaysReady
  BY DEF HInv, DoneStaysReady, Ready
<1> QED BY <1>1, HistoryInvariant, PTL

(* All a rebuild promises, finished or not: ready is exact, behind the     *)
(* cursor nothing is missing, and a worker that left is not needed.        *)
THEOREM HistoryRebuildSound == HistorySpec => []RebuildSound
<1>1. ReadyExact /\ BuildingSound /\ DoneStaysReady => RebuildSound
  BY DEF RebuildSound
<1> QED BY <1>1, HistoryReadyExact, HistoryBuildingSound, HistoryDoneStaysReady, PTL

(* No apply, rollback or crash costs rebuild progress. *)
THEOREM HistoryProgressKept == HistorySpec => ProgressKept
<1>1. HInv /\ [HistoryNext]_historyVars =>
        [hooks /\ hooks' => /\ PhaseRank(aux) <= PhaseRank(aux')
                            /\ aux.state.cursor <= aux'.state.cursor]_historyVars
  BY NextHInv DEF Progress
<1> QED BY <1>1, HistoryInvariant, PTL DEF HistorySpec, ProgressKept
=============================================================================
