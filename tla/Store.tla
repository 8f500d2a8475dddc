------------------------------- MODULE Store -------------------------------
(***************************************************************************)
(* The store with all its tables: every call is one transaction over       *)
(* Indexes' operators, committed as a whole or not at all.  It implements  *)
(* ChainStore (Abs), and its tables say exactly what the chain it holds    *)
(* says.                                                                   *)
(***************************************************************************)
EXTENDS Indexes

CONSTANTS
    Window, Batch,
    Ceiling     \* register_index_ceiling; NoRow when the operator set none

ASSUME CeilingAssumption == Ceiling \in Nat \cup {NoRow}

VARIABLES
    db,         \* [tables, peak]: the committed tables; peak is history
    disk,       \* the last Immediate commit
    outcome     \* what the last call returned

vars == <<db, disk, outcome>>

Chain(tables) == [h \in 1..Cardinality(DOMAIN tables.headers) |-> tables.headers[h].id]

IndexedHeight(tables) == Cardinality(DOMAIN tables.headers)

Abstraction(d) == [chain  |-> Chain(d.tables),
                   undo   |-> DOMAIN d.tables.undo,
                   seeded |-> d.tables.genesisSeeded,
                   peak   |-> d.peak]

Abs == INSTANCE ChainStore WITH
          db <- Abstraction(db), disk <- Abstraction(disk),
          Faults <- {"Corrupt", "RegisterCapacity", "Redb"}

-----------------------------------------------------------------------------
(* What the chain itself guarantees of its blocks.                         *)

BoxIds(boxes) == {o.id : o \in Range(boxes)}
OutIds(b) == UNION {BoxIds(Txs[b][i].outputs) : i \in DOMAIN Txs[b]}
TxIds(b)  == {Txs[b][i].id : i \in DOMAIN Txs[b]}

ASSUME BlockAssumption ==
    /\ Height \in [Block -> Nat \ {0}]
    /\ Window \in Nat \ {0}
    /\ Batch \subseteq Seq(Block)

(* Blocks, transactions and boxes are finite.                              *)
FiniteBoxes(boxes) ==
    /\ boxes \in Seq(Range(boxes))
    /\ \A o \in Range(boxes) : /\ IsFiniteSet(o.registers)
                              /\ IsABag(o.tokens) /\ IsFiniteSet(BagToSet(o.tokens))

ASSUME ContentAssumption ==
    /\ FiniteBoxes(Genesis)
    /\ \A b \in Block :
          /\ Txs[b] \in Seq(Range(Txs[b]))
          /\ \A i \in DOMAIN Txs[b] : /\ Txs[b][i].inputs \in Seq(Range(Txs[b][i].inputs))
                                      /\ FiniteBoxes(Txs[b][i].outputs)

(* An id is a hash of its content and what it spends: no chain has the     *)
(* same box or transaction twice, and none makes a genesis box again.      *)
ASSUME IdAssumption ==
    \A n \in {Height[b] : b \in Block} : \A s \in [1..n -> Block] :
        Abs!Linked(s) =>
            \A j \in 1..n :
                /\ OutIds(s[j]) \cap BoxIds(Genesis) = {}
                /\ \A i \in 1..(j - 1) : /\ OutIds(s[i]) \cap OutIds(s[j]) = {}
                                         /\ TxIds(s[i]) \cap TxIds(s[j]) = {}

Distinct(boxes) == \A i, j \in DOMAIN boxes : boxes[i].id = boxes[j].id => i = j

ASSUME DistinctAssumption ==
    /\ Distinct(Genesis)
    /\ \A b \in Block : \A i, j \in DOMAIN Txs[b] :
          /\ Distinct(Txs[b][i].outputs)
          /\ i # j => /\ Txs[b][i].id # Txs[b][j].id
                      /\ BoxIds(Txs[b][i].outputs) \cap BoxIds(Txs[b][j].outputs) = {}

(* The first block's emission transaction spends a genesis box.            *)
ASSUME EmissionAssumption ==
    \A b \in Block : Height[b] = 1 => Txs[b] # <<>> /\ Txs[b][1].inputs # <<>>

-----------------------------------------------------------------------------
Init == /\ db = [tables |-> NoTables, peak |-> 0]
        /\ disk = db
        /\ outcome = "Opened"

Abort(error) == outcome' = error /\ UNCHANGED <<db, disk>>

Commit(tables, immediate) ==
    LET height == IndexedHeight(tables)
    IN  /\ db' = [tables |-> tables, peak |-> IF height > db.peak THEN height ELSE db.peak]
        /\ disk' = IF immediate THEN db' ELSE disk
        /\ outcome' = "Ok"

Finish(progress, immediate) ==
    IF progress.result = "Ok" THEN Commit(progress.tables, immediate)
                              ELSE Abort(progress.result)

-----------------------------------------------------------------------------
(* capacity.rs: entries and the batch's own must stay below the ceiling.   *)

RegisterCount(boxes) == FoldLeft(LAMBDA n, o : n + Cardinality(o.registers), 0, boxes)

RegistersOfBlock(b) ==
    FoldLeft(LAMBDA n, tx : n + RegisterCount(tx.outputs), 0, Txs[b])

RegistersOfBatch(batch) == FoldLeft(LAMBDA n, b : n + RegistersOfBlock(b), 0, batch)

(* Mutant: the last entry the ceiling leaves room for is taken. *)
OverCapacityLate(tables, additional) ==
    /\ Ceiling # NoRow
    /\ Cardinality(tables.registerIdx) + additional > Ceiling

OverCapacity(tables, additional) ==
    /\ Ceiling # NoRow
    /\ Cardinality(tables.registerIdx) + additional >= Ceiling

SeedGenesis ==
    IF db.tables.headers # <<>> THEN Abort("Corrupt")
    ELSE IF db.tables.genesisSeeded THEN Abort("Ok")
    ELSE IF OverCapacity(db.tables, RegisterCount(Genesis)) THEN Abort("RegisterCapacity")
    ELSE Commit(SeedTables(db.tables), TRUE)

(* One iteration of apply_batch's loop.                                    *)
ParentMismatch(tables, b) ==
    LET tip == IndexedHeight(tables)
    IN  \/ Height[b] # tip + 1
        \/ tip > 0 /\ tables.headers[tip].id # Parent[b]

(* Mutant: one undo row too few is kept. *)
PruneUndoEarly(tables, h) ==
    IF h > Window THEN [tables EXCEPT !.undo = Drop(@, {h - Window})] ELSE tables

PruneUndo(tables, h) ==
    IF h > Window THEN [tables EXCEPT !.undo = Drop(@, {h - Window - 1})] ELSE tables

Advance(progress, c) ==
    IF c.corrupt THEN [progress EXCEPT !.result = "Corrupt"]
                 ELSE [progress EXCEPT !.tables = PruneUndo(c.d, c.h)]

ApplyNext(progress, b) ==
    IF progress.result # "Ok" THEN progress
    ELSE IF ParentMismatch(progress.tables, b)
      THEN [progress EXCEPT !.result = "ParentMismatch"]
    ELSE Advance(progress, ApplyBlock(progress.tables, b))

Applied(tables, batch) ==
    FoldLeft(LAMBDA p, b : ApplyNext(p, b), [tables |-> tables, result |-> "Ok"], batch)

ApplyBatch(batch, durable) ==
    IF batch = <<>> THEN Abort("Ok")
    ELSE IF OverCapacity(db.tables, RegistersOfBatch(batch)) THEN Abort("RegisterCapacity")
    ELSE Finish(Applied(db.tables, batch), durable)

-----------------------------------------------------------------------------
(* rollback_to: heights from the tip down to target + 1, each from its own *)
(* undo row; the first missing row aborts the whole rollback.              *)
UndoNext(progress, h) ==
    IF progress.result # "Ok" THEN progress
    ELSE IF h \notin DOMAIN progress.tables.undo
      THEN [progress EXCEPT !.result = "ReindexRequired"]
    ELSE IF UndoCorrupt(progress.tables, progress.tables.undo[h])
      THEN [progress EXCEPT !.result = "Corrupt"]
    ELSE [progress EXCEPT !.tables = UndoBlock(@, h)]

RolledBack(tables, target) ==
    LET tip == IndexedHeight(tables)
    IN  FoldLeft(LAMBDA p, k : UndoNext(p, tip + 1 - k), [tables |-> tables, result |-> "Ok"],
                 [k \in 1..(tip - target) |-> k])

RollbackTo(target) ==
    LET tip == IndexedHeight(db.tables)
    IN  IF tip = 0 THEN Abort("Corrupt")
        ELSE IF tip <= target THEN Abort("Ok")
        ELSE IF tip - target > Window THEN Abort("ReindexRequired")
        ELSE Finish(RolledBack(db.tables, target), TRUE)

AuxiliaryCommit == Commit(db.tables, TRUE)

(* Store::open: no indexed block without genesis, no more entries than the *)
(* ceiling.                                                                *)
OpenRefused(tables) ==
    \/ tables.headers # <<>> /\ ~ tables.genesisSeeded
    \/ Ceiling # NoRow /\ Cardinality(tables.registerIdx) > Ceiling

CrashAndOpen ==
    /\ db' = disk
    /\ outcome' = IF OpenRefused(disk.tables) THEN "Refused" ELSE "Opened"
    /\ UNCHANGED disk

(* Any redb error ends the transaction without committing it.             *)
RedbError == Abort("Redb")

Next ==
    \/ SeedGenesis
    \/ RedbError
    \/ \E batch \in Batch, durable \in BOOLEAN : ApplyBatch(batch, durable)
    \/ \E target \in 0..IndexedHeight(db.tables) : RollbackTo(target)
    \/ AuxiliaryCommit
    \/ CrashAndOpen

Spec == Init /\ [][Next]_vars
=============================================================================
