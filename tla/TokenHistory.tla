---------------------------- MODULE TokenHistory ----------------------------
(***************************************************************************)
(* The token/transaction index of crates/xp-store/src/token_history.rs:    *)
(* rows <<token, position of a transaction that moved it>> in two tables,  *)
(* kept up to date by the hooks in apply, rollback and genesis seeding,    *)
(* and rebuilt a batch at a time by a worker (bin/explorer/src/main.rs)    *)
(* when what is stored was not written for the chain that is stored.       *)
(*                                                                         *)
(* The core tables are those of ChainStore; every action here is a         *)
(* ChainStore call together with what its transaction does to the index.   *)
(* `hooks` tells a binary that maintains the index from an older one, that *)
(* opens the same file and leaves the auxiliary tables alone.              *)
(*                                                                         *)
(* A transaction is named by its position <<height, index in block>>; the  *)
(* code's global index is that position counted from the first block, so   *)
(* two branches reuse the same positions for different transactions.       *)
(* Partial stores (seed_for_tests) are left out, and so is the `scanned`   *)
(* counter, which is only reported.                                        *)
(***************************************************************************)
EXTENDS ChainStore, FiniteSets

CONSTANTS
    Token,          \* numbers, in key order
    Txs,            \* Txs[b]: the block's transactions, a sequence of [in, out]
    TokensOf,       \* TokensOf[x]: the tokens box x holds
    GenesisBoxes,
    Oversized,      \* boxes above MAX_HISTORY_ROW_BYTES or MAX_HISTORY_BATCH_WORK
    MaxRows         \* the max_rows the worker passes

BoxId == DOMAIN TokensOf    \* a number: its place in the key order of BOXES

ASSUME TokensOfAssumption ==
    /\ Token \subseteq Nat
    /\ DOMAIN TokensOf \subseteq Nat /\ IsFiniteSet(DOMAIN TokensOf)
    /\ \A x \in DOMAIN TokensOf : TokensOf[x] \subseteq Token
ASSUME TxsAssumption ==
    Txs \in [Block -> Seq([in: SUBSET BoxId, out: SUBSET BoxId])]
ASSUME GenesisAssumption == GenesisBoxes \subseteq BoxId
ASSUME OversizedAssumption == Oversized \subseteq BoxId
ASSUME MaxRowsAssumption == MaxRows \in Nat \ {0}

VARIABLES
    aux,        \* TOKEN_TXS, TX_TOKENS and the row of TOKEN_HISTORY_META
    auxDisk,    \* the same, as of the last durable commit
    hooks,      \* whether the running binary knows the index
    worker      \* where the rebuild worker is

auxVars == <<aux, auxDisk, hooks, worker>>
historyVars == <<vars, auxVars>>

Position == (Nat \ {0}) \X (Nat \ {0})
Row == Token \X Position

NoCursor == -1

-----------------------------------------------------------------------------
(* What the canonical tables say. *)

TxAt(chain, p) == Txs[chain[p[1]]][p[2]]
Positions(chain) == UNION {{h} \X DOMAIN Txs[chain[h]] : h \in 1..Len(chain)}

Touches(tx, x) == x \in tx.in \cup tx.out

(* BOXES: spent rows are kept, so this only grows along a chain.           *)
Boxes(d) ==
    {x \in BoxId : \/ d.seeded /\ x \in GenesisBoxes
                   \/ \E p \in Positions(d.chain) : x \in TxAt(d.chain, p).out}

Before(p, q) == p[1] < q[1] \/ (p[1] = q[1] /\ p[2] < q[2])

(* apply_block refuses an input that no row describes, or that is spent.   *)
InputsGood(chain) ==
    \A p \in Positions(chain) : \A x \in TxAt(chain, p).in :
        /\ \/ x \in GenesisBoxes
           \/ \E q \in Positions(chain) : Before(q, p) /\ x \in TxAt(chain, q).out
        /\ \A q \in Positions(chain) : Before(q, p) => x \notin TxAt(chain, q).in

(* The memberships that a box row proves: its origin and its spender.      *)
BoxRows(chain, x) ==
    {r \in TokensOf[x] \X Positions(chain) : Touches(TxAt(chain, r[2]), x)}

(* The memberships apply_block inserts for the transactions at heights.    *)
Memberships(chain, heights) ==
    {r \in Token \X Positions(chain) :
        /\ r[2][1] \in heights
        /\ \E x \in BoxId : Touches(TxAt(chain, r[2]), x) /\ r[1] \in TokensOf[x]}

Touched(chain) == Memberships(chain, 1..Len(chain))

-----------------------------------------------------------------------------
(* The row of TOKEN_HISTORY_META. *)

Anchor(d) == [height |-> Tip(d),
              id     |-> IF d.chain = <<>> THEN NoParent ELSE d.chain[Tip(d)],
              txs    |-> Cardinality(Positions(d.chain)),
              boxes  |-> Cardinality(Boxes(d))]

(* A file no binary with the index has opened: no state row.               *)
NoAux == [byToken |-> {}, byTx |-> {},
          state |-> [phase |-> "ABSENT", cursor |-> NoCursor,
                     anchor |-> Anchor(EmptyDatabase)]]

(* Mutant: a state found in the file is taken for current. *)
CurrentAnyAnchor(a, d) == a.state.phase # "ABSENT"
Current(a, d) == a.state.phase # "ABSENT" /\ a.state.anchor = Anchor(d)

(* Mutant: every open starts an unfinished rebuild over. *)
PrepareUnlessReady(a, d) ==
    IF Current(a, d) /\ a.state.phase = "READY" THEN a
    ELSE [a EXCEPT !.state =
            [phase  |-> IF a.byToken \cup a.byTx # {} THEN "CLEARING"
                        ELSE IF Boxes(d) # {} THEN "BUILDING" ELSE "READY",
             cursor |-> NoCursor,
             anchor |-> Anchor(d)]]

(* prepare_write: start over unless the state is for this very chain.      *)
Prepare(a, d) ==
    IF Current(a, d) THEN a
    ELSE [a EXCEPT !.state =
            [phase  |-> IF a.byToken \cup a.byTx # {} THEN "CLEARING"
                        ELSE IF Boxes(d) # {} THEN "BUILDING" ELSE "READY",
             cursor |-> NoCursor,
             anchor |-> Anchor(d)]]

(* Mutant: the anchor stays where the rebuild began. *)
FinishForgets(a, d) == a

(* finish_write: the hooks kept the index in step, so the anchor moves on. *)
Finish(a, d) == [a EXCEPT !.state.anchor = Anchor(d)]

(* insert_tx, for every transaction of the blocks at these heights.        *)
InsertTxs(a, chain, heights) ==
    [a EXCEPT !.byToken = @ \cup Memberships(chain, heights),
              !.byTx    = @ \cup Memberships(chain, heights)]

(* Mutant: only finished indexes are kept in step. *)
RemoveTxsIfReady(a, heights) ==
    LET gone == {r \in a.byTx : r[2][1] \in heights}
    IN  IF a.state.phase # "READY" THEN a
        ELSE [a EXCEPT !.byToken = @ \ gone, !.byTx = @ \ gone]

(* remove_tx, for every transaction undone: found by its reverse keys.     *)
RemoveTxs(a, heights) ==
    LET gone == {r \in a.byTx : r[2][1] \in heights}
    IN  [a EXCEPT !.byToken = @ \ gone, !.byTx = @ \ gone]

-----------------------------------------------------------------------------
(* One batch of the rebuild. *)

(* The key orders of the two tables, and pop_first, n times.               *)
ByToken(q, r) == q[1] < r[1] \/ (q[1] = r[1] /\ Before(q[2], r[2]))
ByTx(q, r)    == Before(q[2], r[2]) \/ (q[2] = r[2] /\ q[1] < r[1])

WithoutFirst(rows, n, Less(_, _)) ==
    {r \in rows : Cardinality({q \in rows : Less(q, r)}) >= n}

(* At most MaxRows rows of both tables together go.                        *)
Cleared(a) ==
    LET f == WithoutFirst(a.byToken, MaxRows, ByToken)
        r == WithoutFirst(a.byTx, MaxRows - Cardinality(a.byToken \ f), ByTx)
    IN  [a EXCEPT !.byToken = f, !.byTx = r,
                  !.state.phase = IF f = {} /\ r = {} THEN "BUILDING" ELSE @]

(* The boxes between the cursor and `last`, in key order.                  *)
Scan(a, d, last) == {x \in Boxes(d) : a.state.cursor < x /\ x <= last}

(* Mutant: the next batch starts where this one did. *)
ScannedFromStart(a, d, last) ==
    LET rows == UNION {BoxRows(d.chain, x) : x \in Scan(a, d, last)}
    IN  [a EXCEPT !.byToken = @ \cup rows,
                  !.byTx    = @ \cup rows,
                  !.state.phase  = IF \E x \in Boxes(d) : last < x THEN @ ELSE "READY"]

(* Every membership of the boxes visited; READY when none is left.         *)
Scanned(a, d, last) ==
    LET rows == UNION {BoxRows(d.chain, x) : x \in Scan(a, d, last)}
    IN  [a EXCEPT !.byToken = @ \cup rows,
                  !.byTx    = @ \cup rows,
                  !.state.cursor = last,
                  !.state.phase  = IF \E x \in Boxes(d) : last < x THEN @ ELSE "READY"]

(* Rows, bytes, work or the clock end a batch, but never before one box.   *)
Stops(a, d) ==
    {last \in Boxes(d) : /\ a.state.cursor < last
                         /\ Cardinality(Scan(a, d, last)) <= MaxRows}

BatchResults(a, d) ==
    CASE a.state.phase = "CLEARING" -> {Cleared(a)}
      [] a.state.phase = "BUILDING" ->
           IF \E x \in Boxes(d) : a.state.cursor < x
             THEN {Scanned(a, d, last) :
                      last \in {l \in Stops(a, d) : Scan(a, d, l) \cap Oversized = {}}}
             ELSE {[a EXCEPT !.state.phase = "READY"]}
      [] a.state.phase = "READY" -> {a}

(* The batch meets a row it will not read, and none of it is committed.    *)
BatchRefused(a, d) ==
    /\ a.state.phase = "BUILDING"
    /\ \E last \in Stops(a, d) : Scan(a, d, last) \cap Oversized # {}

(* token_history_status, in a read transaction of its own.                 *)
Ready(a, d) == Current(a, d) /\ a.state.phase = "READY"

-----------------------------------------------------------------------------
HistoryInit ==
    /\ Init
    /\ hooks \in BOOLEAN
    /\ aux = IF hooks THEN Prepare(NoAux, EmptyDatabase) ELSE NoAux
    /\ auxDisk = aux
    /\ worker = IF hooks THEN "batch" ELSE "stopped"

(* A core call that changed the chain committed the index `a` with it, with*)
(* the same durability; a core call that changed nothing committed nothing.*)
CommitAux(a, durable) ==
    /\ IF db' = db \/ ~ hooks
         THEN UNCHANGED aux
         ELSE aux' = Finish(a, db')
    /\ auxDisk' = IF db' # db /\ durable THEN aux' ELSE auxDisk
    /\ UNCHANGED <<hooks, worker>>

Seed == /\ SeedGenesis
        /\ CommitAux(Prepare(aux, db), TRUE)

Apply(batch, durable) ==
    /\ ApplyBatch(batch, durable)
    /\ db' # db => InputsGood(db'.chain)
    /\ CommitAux(InsertTxs(Prepare(aux, db), db'.chain, Tip(db) + 1 .. Tip(db')), durable)

Rollback(target) ==
    /\ RollbackTo(target)
    /\ CommitAux(RemoveTxs(Prepare(aux, db), target + 1 .. Tip(db)), TRUE)

(* backfill_token_history_batch: redb's default durability, so it takes    *)
(* every earlier commit to disk with it.                                   *)
BackfillBatch ==
    /\ worker = "batch"
    /\ AuxiliaryCommit
    /\ aux' \in BatchResults(Prepare(aux, db), db)
    /\ auxDisk' = aux'
    /\ worker' = "status"
    /\ UNCHANGED hooks

(* A batch of the token-name rebuild: the same transaction, other tables.  *)
OtherIndexCommit ==
    /\ hooks
    /\ AuxiliaryCommit
    /\ auxDisk' = aux
    /\ UNCHANGED <<aux, hooks, worker>>

(* An error other than TokenHistoryNotReady ends the worker for good.      *)
BackfillStops ==
    /\ worker = "batch"
    /\ BatchRefused(Prepare(aux, db), db) \/ "Redb" \in Faults
    /\ worker' = "stopped"
    /\ UNCHANGED <<vars, aux, auxDisk, hooks>>

(* Applies and rollbacks may have come between the commit and this read.   *)
BackfillStatus ==
    /\ worker = "status"
    /\ worker' = IF Ready(aux, db) THEN "done" ELSE "batch"
    /\ UNCHANGED <<vars, aux, auxDisk, hooks>>

(* The next process, of either binary.  Store::open ends by a commit.      *)
Restart(binary) ==
    /\ CrashAndOpen
    /\ hooks' = binary
    /\ aux' = IF binary /\ Openable(disk) THEN Prepare(auxDisk, disk) ELSE auxDisk
    /\ auxDisk' = aux'
    /\ worker' = IF binary /\ Openable(disk) THEN "batch" ELSE "stopped"

HistoryNext ==
    \/ Seed
    \/ \E batch \in Batch, durable \in BOOLEAN : Apply(batch, durable)
    \/ \E target \in 0..Tip(db) : Rollback(target)
    \/ BackfillBatch
    \/ BackfillStops
    \/ BackfillStatus
    \/ OtherIndexCommit
    \/ \E binary \in BOOLEAN : Restart(binary)

HistorySpec == HistoryInit /\ [][HistoryNext]_historyVars

(* The worker is a task of its own; nothing ever blocks its batches, and   *)
(* each ends in a commit or an error.                                      *)
FairHistorySpec == HistorySpec /\ WF_historyVars(BackfillBatch \/ BackfillStops)
                               /\ WF_historyVars(BackfillStatus)

-----------------------------------------------------------------------------
AuxState == [phase: {"ABSENT", "CLEARING", "BUILDING", "READY"},
             cursor: BoxId \cup {NoCursor},
             anchor: [height: Nat, id: Block \cup {NoParent}, txs: Nat, boxes: Nat]]
Auxiliary == [byToken: SUBSET Row, byTx: SUBSET Row, state: AuxState]

HistoryTypeOK ==
    /\ aux \in Auxiliary /\ auxDisk \in Auxiliary
    /\ hooks \in BOOLEAN
    /\ worker \in {"batch", "status", "done", "stopped"}

(* An index that reports ready holds exactly the memberships of the chain  *)
(* readers are served, in both directions, burns included: whatever mix of *)
(* rebuild batches, applies, rollbacks, crashes and older binaries wrote   *)
(* it.  The same holds of what a crash would leave.                        *)
Exact(a, d) == Ready(a, d) => a.byToken = Touched(d.chain) /\ a.byTx = a.byToken
ReadyExact == Exact(aux, db) /\ Exact(auxDisk, disk)

(* While the rebuild is under way the rows already there are rows of this  *)
(* chain, both directions agree (a rollback finds every row to remove by   *)
(* the reverse keys), and no box behind the cursor lacks one.              *)
BuildingSound ==
    (Current(aux, db) /\ aux.state.phase = "BUILDING") =>
        /\ aux.byToken = aux.byTx
        /\ aux.byToken \subseteq Touched(db.chain)
        /\ \A x \in Boxes(db) :
               x <= aux.state.cursor => BoxRows(db.chain, x) \subseteq aux.byToken

(* A worker that returned because the index was ready is not needed again: *)
(* the index stays ready as long as this process runs.                     *)
DoneStaysReady == worker = "done" => Ready(aux, db)

(* What the rebuild promises at any moment, finished or not.               *)
RebuildSound == ReadyExact /\ BuildingSound /\ DoneStaysReady

(* Binaries that know the index never lose rebuild progress between them:  *)
(* no apply, rollback or crash resets the phase or the cursor.             *)
PhaseRank(a) == CASE a.state.phase \in {"ABSENT", "CLEARING"} -> 0
                  [] a.state.phase = "BUILDING" -> 1
                  [] a.state.phase = "READY"    -> 2
ProgressKept ==
    [][hooks /\ hooks' => /\ PhaseRank(aux) <= PhaseRank(aux')
                          /\ aux.state.cursor <= aux'.state.cursor]_historyVars

(* Once the last binary is one that knows the index, its worker meets no   *)
(* error and blocks come to a rest, the index becomes ready and stays so,  *)
(* crashes in between or not.                                              *)
Rebuilt ==
    /\ <>[](hooks /\ worker # "stopped")
    /\ <>[][db'.chain = db.chain]_historyVars
    => <>[]Ready(aux, db)
=============================================================================
