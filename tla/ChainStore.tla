----------------------------- MODULE ChainStore -----------------------------
(***************************************************************************)
(* What the explorer's store (crates/xp-store) promises about the chain it *)
(* indexes, with every derived table abstracted away: which blocks are     *)
(* indexed, which of them can still be undone, and what survives a crash.  *)
(*                                                                         *)
(* `db` is what a reader of the open database sees (the last commit of any *)
(* durability), `disk` what a process finds after a crash (the last commit *)
(* with Durability::Immediate).  Module Store gives the tables themselves  *)
(* and is checked to implement this specification; module Ingest drives    *)
(* this store from a block source.                                         *)
(***************************************************************************)
EXTENDS Integers, Sequences

CONSTANTS
    Block,      \* header ids
    Height,     \* Height[b]: the height in b's header
    Parent,     \* Parent[b]: the parent id in b's header (NoParent at height 1)
    NoParent,
    Window,     \* ROLLBACK_WINDOW
    Batch,      \* the slices of decoded blocks apply_batch may be handed
    Faults      \* the errors a call may meet besides those modelled here

ASSUME HeightAssumption == Height \in [Block -> Nat \ {0}]
ASSUME ParentAssumption == Parent \in [Block -> Block \cup {NoParent}]
ASSUME WindowAssumption == Window \in Nat \ {0}
ASSUME BatchAssumption  == Batch \subseteq Seq(Block)
ASSUME FaultsAssumption == Faults \subseteq {"Corrupt", "RegisterCapacity", "Redb"}

VARIABLES
    db,         \* the committed database
    disk,       \* the last commit made with Durability::Immediate
    outcome     \* what the last call returned

vars == <<db, disk, outcome>>

(* chain: HEADERS in height order; undo: the keys of UNDO; seeded:         *)
(* META_GENESIS_SEEDED.  peak is a history component: the greatest height  *)
(* this database ever held, which no row records.                          *)
Database == [chain: Seq(Block), undo: SUBSET Nat, seeded: BOOLEAN, peak: Nat]

EmptyDatabase == [chain |-> <<>>, undo |-> {}, seeded |-> FALSE, peak |-> 0]

(* StoreError's variants, plus the two results of Store::open.             *)
Outcome == {"Ok", "ParentMismatch", "Corrupt", "RegisterCapacity",
            "ReindexRequired", "Redb", "Opened", "Refused"}

Tip(d) == Len(d.chain)

(* The per-block test of apply_batch: the height follows the previous one, *)
(* and the parent id is compared only when there is a previous block.      *)
LinkedAt(s, i) == /\ Height[s[i]] = i
                  /\ i > 1 => Parent[s[i]] = s[i - 1]

Linked(s) == \A i \in 1..Len(s) : LinkedAt(s, i)

(* Mutant: one row more than it may drop. *)
PrunedByEarly(heights) == {h - Window : h \in {k \in heights : k > Window}}

(* Applying a block at height h writes UNDO[h] and drops UNDO[h-Window-1]. *)
PrunedBy(heights) == {h - Window - 1 : h \in {k \in heights : k > Window}}

Extend(d, batch) ==
    LET new == Tip(d) + 1 .. Tip(d) + Len(batch)
    IN  [d EXCEPT !.chain = @ \o batch,
                  !.undo  = (@ \cup new) \ PrunedBy(new),
                  !.peak  = IF Tip(d) + Len(batch) > @
                              THEN Tip(d) + Len(batch) ELSE @]

Truncate(d, target) ==
    [d EXCEPT !.chain = SubSeq(@, 1, target),
              !.undo  = @ \ (target + 1 .. Tip(d))]

(***************************************************************************)
(* Store::open refuses an indexed database that never had its genesis      *)
(* boxes seeded.                                                           *)
(***************************************************************************)
Openable(d) == d.chain # <<>> => d.seeded

Init == /\ db = EmptyDatabase
        /\ disk = EmptyDatabase
        /\ outcome = "Opened"

Fail(error) == /\ outcome' = error
               /\ UNCHANGED <<db, disk>>

CommitImmediate(d) == /\ db' = d
                      /\ disk' = d
                      /\ outcome' = "Ok"

CommitNone(d) == /\ db' = d
                 /\ outcome' = "Ok"
                 /\ UNCHANGED disk

(* seed_genesis: refused on an indexed store, a no-op on a seeded one.     *)
SeedGenesis ==
    \/ /\ db.chain # <<>>
       /\ Fail("Corrupt")
    \/ /\ db.chain = <<>>
       /\ IF db.seeded THEN Fail("Ok")
                       ELSE CommitImmediate([db EXCEPT !.seeded = TRUE])
    \/ \E error \in Faults \ {"Corrupt"} : Fail(error)

(* Mutant: only the first block of a batch is compared with the one below. *)
AcceptsFirstOnly(d, batch) ==
    d.seeded /\ LinkedAt(d.chain \o batch, Tip(d) + 1)

(* The block at height 1 spends the genesis boxes, so nothing is indexed   *)
(* before they are seeded.                                                 *)
Accepts(d, batch) == d.seeded /\ Linked(d.chain \o batch)

(***************************************************************************)
(* apply_batch: the whole batch, or nothing.  What else the content of a   *)
(* block may be refused for is left open here.                             *)
(***************************************************************************)
ApplyBatch(batch, durable) ==
    \/ /\ batch = <<>>
       /\ Fail("Ok")
    \/ /\ batch # <<>>
       /\ Accepts(db, batch)
       /\ IF durable THEN CommitImmediate(Extend(db, batch))
                     ELSE CommitNone(Extend(db, batch))
    \/ /\ batch # <<>>
       /\ ~ Linked(db.chain \o batch)
       /\ Fail("ParentMismatch")
    \/ /\ batch # <<>>
       /\ \E error \in Faults : Fail(error)

(* Mutant: the window is checked, the undo rows are not. *)
RollbackOutcomeUnchecked(d, target) ==
    IF d.chain = <<>> THEN "Corrupt"
    ELSE IF Tip(d) - target <= Window THEN "Ok" ELSE "ReindexRequired"

(* rollback_to, in the order of its early returns.                         *)
RollbackOutcome(d, target) ==
    CASE d.chain = <<>>              -> "Corrupt"
      [] d.chain # <<>> /\ Tip(d) <= target -> "Ok"
      [] Tip(d) > target /\ Tip(d) - target > Window -> "ReindexRequired"
      [] Tip(d) > target /\ Tip(d) - target <= Window ->
           IF target + 1 .. Tip(d) \subseteq d.undo THEN "Ok"
                                                   ELSE "ReindexRequired"

(* Mutant: the rollback is committed without an fsync. *)
RollbackToLazily(target) ==
    /\ RollbackOutcome(db, target) = "Ok"
    /\ IF Tip(db) <= target THEN Fail("Ok") ELSE CommitNone(Truncate(db, target))

RollbackTo(target) ==
    \/ /\ RollbackOutcome(db, target) = "Ok"
       /\ IF Tip(db) <= target THEN Fail("Ok")
                               ELSE CommitImmediate(Truncate(db, target))
    \/ /\ RollbackOutcome(db, target) # "Ok"
       /\ Fail(RollbackOutcome(db, target))
    \/ \E error \in Faults \cap {"Redb"} : Fail(error)

(* A batch of an auxiliary index rebuild commits on the same database with *)
(* redb's default durability, and takes earlier commits to disk with it.   *)
AuxiliaryCommit == CommitImmediate(db)

(* The process dies, and the next one opens what was durable.              *)
CrashAndOpen ==
    /\ db' = disk
    /\ outcome' = IF Openable(disk) THEN "Opened" ELSE "Refused"
    /\ UNCHANGED disk

Next ==
    \/ SeedGenesis
    \/ \E batch \in Batch, durable \in BOOLEAN : ApplyBatch(batch, durable)
    \/ \E target \in 0..Tip(db) : RollbackTo(target)
    \/ AuxiliaryCommit
    \/ CrashAndOpen

Spec == Init /\ [][Next]_vars

-----------------------------------------------------------------------------
(* The type invariant: undo rows are of indexed heights. *)
TypeOK == /\ db \in Database /\ db.undo \subseteq 1..Tip(db)
          /\ disk \in Database /\ disk.undo \subseteq 1..Tip(disk)
          /\ outcome \in Outcome

(* Whatever batches, rollbacks and crashes came before, the indexed blocks *)
(* are one chain: consecutive heights from 1, each naming the one below.   *)
ChainLinked == Linked(db.chain) /\ Linked(disk.chain)

(* The undo table has no hole and no stale row: it holds exactly the       *)
(* indexed heights within Window of the highest height ever indexed, even  *)
(* after a rollback made the tip lower than that and new blocks replaced   *)
(* the undone ones.                                                        *)
UndoExact(d) == /\ d.undo = {h \in 1..Tip(d) : h >= d.peak - Window}
                /\ Tip(d) \in d.peak - Window - 1 .. d.peak
UndoRetention == UndoExact(db) /\ UndoExact(disk)

(* A rollback of at most Window blocks is granted exactly when it ends at  *)
(* or above the lowest height undo rows were ever kept for: several short  *)
(* rollbacks in a row cannot reach further down than one long one.         *)
RollbackExact ==
    \A t \in 0..Tip(db) :
        db.chain # <<>> =>
            ((RollbackOutcome(db, t) = "Ok") <=>
                (t = Tip(db) \/ (Tip(db) - t <= Window /\ t >= db.peak - Window - 1)))

(* A crash can only shorten the chain: what is on disk is a prefix of what *)
(* readers were served, never a branch that was rolled back.               *)
CrashOnlyTruncates ==
    /\ Len(disk.chain) <= Len(db.chain)
    /\ \A h \in 1..Len(disk.chain) : disk.chain[h] = db.chain[h]

(* The next process can always open what the last one left.                *)
NeverRefused == Openable(disk) /\ outcome # "Refused"

(* A block more than Window below the highest height is settled: no call   *)
(* replaces or drops it; a crash keeps those that were settled on disk.    *)
SettledKept ==
    [][LET floor == (IF outcome' \in {"Opened", "Refused"}
                       THEN disk.peak ELSE db.peak) - Window - 1
       IN  \A h \in 1..floor : /\ h <= Len(db'.chain)
                               /\ db'.chain[h] = db.chain[h]]_vars
=============================================================================
