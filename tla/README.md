# A TLA+ development of kadia-explorer

kadia-explorer indexes the Ergo blockchain into one embedded database (redb)
and serves it over HTTP. These modules model the parts whose correctness
depends on the order of things: the chain the store keeps and what survives a
crash, the index derived from it, its undo and its readers, the two secondary
indexes that are rebuilt while the chain moves, the loop that follows a node
through reorganisations and outages, and of the API the pages a client turns,
the answer about one transaction, the mempool listing, the admission of reads
and the rate limiter; at last the process that starts and ends all of them.
TLC checks them on small instances; for all values of the constants TLAPS proves
that the store with all its tables implements the abstract chain store, and
safety properties of the chain, the loop, the token history, the token names, the transaction
status, the limiter, the admission of reads, the mempool cache and the process.
Paths below are relative to the repository's root; `crates/` paths are
`crates/<crate>/src/`.

## 1. The system

| component | state | operations | talks to |
|---|---|---|---|
| `xp-store`, chain | META, HEADERS, UNDO in memory and on disk | `open`, `seed_genesis`, `apply_batch`, `rollback_to` | called by ingest, read by the API |
| `xp-store`, index | boxes, transactions, trees, templates, registers, balances, rich list, tokens, holders, rent heights, counters, undo rows | the same, row by row | the same |
| `xp-store`, readers and sweep | none: one snapshot each | range reads with cursors, history at a height, integrity sweep | API, offline tools |
| `xp-store`, token name and history indexes | rows, phase, cursor and anchor of a rebuild | rebuild slices, hooks in apply and rollback | rebuild threads of the binary |
| `xp-ingest` | heights believed, tip and stall counters, the published `IngestStatus` | one iteration: poll, fork check, rollback, fetch, apply | store, source; status to the API |
| `xp-source` | none (HTTP clients) | info, header id, body, body from a fallback node | one or two nodes |
| `xp-wire`, `xp-types` | none | decoding, rent arithmetic | ingest, store, API |
| `xp-api` | rate-limit buckets, permits, observation and mempool caches | handlers over one store snapshot | store, node, browser |
| `bin/explorer` | tasks, threads, exit code | start, supervise, shut down | all of the above |
| `frontend` | pager, tracker, watch, status and mempool loaders | poll, page, reset | API |

**Chain and index.** All writes go through one redb write transaction at a
time, so a transaction is atomic to readers; it is not durable unless its
caller asked. Bulk ingest asks only every `durable_every` blocks, and redb
keeps the last durable state over a crash: what is lost is a suffix. Undo rows
are kept for `rollback_window` heights and pruned as blocks arrive.
*Hard:* several rollbacks in a row, batches longer than the window, a rebuild's
durable commit between two bulk batches, boxes made and spent in one block, one
token id minted on two branches, a batch refused half way.
*Correct means:* one linked chain; undo rows for exactly the heights a rollback
may reach; every derived table a function of the chain alone.

**Readers.** A reader holds one snapshot; it scans ranges of keys, resolves each
to its row and calls a key without a row corruption. The past of an address,
its activity and the rent it owes are worked out from the boxes it ever had.
*Hard:* cursors of both directions and exclusive ends; pages that stop at a scan
limit, a byte budget or a deadline with nothing to show; the tip answered by one row and
the past by a scan; wrapping 32-bit fees; totals computed apart from the pages.
*Correct means:* what a list read to its end shows is what the chain's
transactions say, once each, in order, whatever the page size.

**Ingest.** A single task; each `await` (a question to the source, a sleep) lets
the source change its mind, the rebuild threads commit, or the process end.
*Hard:* answers that were never true together, bodies from two branches, a node
whose `/info` answers while nothing else does, halting only when it must.
*Correct means:* its heights are the store's; what it publishes is true when it
sleeps; it reaches the tip of a source that settles; what stops it is published.

**Token history and token names.** Two indexes newer than stores they may be opened on: from
tokens to transactions, and from folded names to tokens. A worker thread of each rebuilds it in
slices, each its own write transaction between ingest's; apply and rollback maintain it from then on.
Phase, cursor and the id of the tip it belongs to (its anchor) are in the store.
*Hard:* blocks applied and undone ahead of and behind the cursor, global indexes
and token ids that both branches of a fork use, binaries that do not know the index, crashes.
*Correct means:* what says it is ready is the chain's, whoever wrote before; a
rebuild makes progress and ends; a search or history read in pages misses nothing.

**Paging.** Each page is read from a new snapshot with a cursor and a token made from an older
one. A token names a block (for lists that grow but never change) or the whole tip (for
lists of current state), and what was asked.
*Hard:* a reorganisation to the same height, growth that is not one, a token used for another listing,
a block or address that is gone between two pages.
*Correct means:* the pages are one snapshot's, or the client is told so; never told without a reason.

**Transaction status.** One request reads the index, asks the node, reads the
index again. Requests for the same transaction share a cached entry and its
lock; the cache is bounded, parsers are limited by permits and outlive requests.
*Hard:* blocks come and go between the reads, any request can be dropped at any
await, entries expire while somebody waits for them.
*Correct means:* the index has the last word; one node question at a time per
transaction; permits are conserved; queues move on.

**Admission of reads, mempool cache.** A blocking read runs on a thread that does not stop when
its handler's future is dropped (a timeout, a client that left); so do the parsers of node answers.
*Hard:* a drop at any await; permits of two semaphores taken one after the other; a slow
refresh against a newer one.
*Correct means:* permits stay with the work and are all accounted for; the listing never goes back.

**Rate limiter.** Token buckets by client key in one mutex, refilled when looked
at, swept when full for a minute, all cleared when there are too many.
*Hard:* requests read the clock before they have the mutex; forgetting.
*Correct means:* bounded; errs only in the client's favour; `Retry-After` holds.

**Supervisor.** Races the server against ingest, cancels, joins the rebuild workers, exits.
*Hard:* every order of signals, ends, failures and panics; one writer at a time.
*Correct means:* the exit code that asks for a reindex survives; nothing is written after
the exit; no dead loop goes on being served; the process does exit.

**The browser's loaders** (late answers after a reset) are not modelled.

`PROJECT.json` lists each hazard at its line with the properties that cover it.

## 2. Modules

    ChainStore --------------- ChainStoreProofs, MCChainStore
      +-- (INSTANCE Abs) ------ Store --- StoreProperties --+-- StoreProofs -- BlockProofs
      |                           |                          |    (folds:         |
      |                           |                          |   FoldTheory)  RollbackProofs
      |                        Indexes                  ReaderProperties -- MCStore
      |                           |                          |                 |
      |                        Readers --- History, Rent, ---+              Economy
      |                                    Activity, Sweep                     |
      |                                       |                                |
      |                                    Paging ------------------------- MCPaging
      +-- (EXTENDS) ----------- Ingest ------- ClientProofs, MCIngest
      +-- (EXTENDS) ----------- TokenHistory - ClientProofs, MCTokenHistory
      +-- (EXTENDS) ----------- TokenNames --- TokenNamesProofs, MCTokenNames

    RateLimit -- RequestsProofs, MCRateLimit

    TxStatus -- RequestsProofs, MCTxStatus

    Reads --+-- Mempool ----- Requests -- RequestsProofs, MCRequests
            +-- Supervisor -- Process --- RequestsProofs, MCProcess

* **ChainStore** is the abstract specification: what any caller may rely on.
  `db` is the last committed state, `disk` the last durable one, each a chain of
  blocks, the set of heights with undo rows, whether genesis is seeded, and
  `peak`, the highest height ever indexed (no code keeps it; it says how far
  pruning went). `outcome` is what the last call returned. Actions:
  `SeedGenesis`, `ApplyBatch` (durable or not), `RollbackTo`, `AuxiliaryCommit`
  (a rebuild's commit: it changes no chain row but makes durable what came
  before), `CrashAndOpen`. `Faults` are the errors a call may return for reasons
  of its content; `Batch` the batches a caller may pass.
* **Indexes** holds the pure part of the store: `ApplyBlock` and `UndoBlock` over a
  record with one field per table, following `apply.rs`, `tokens.rs`,
  `extras.rs`, `genesis.rs` and `rollback.rs` step by step (the balance, token
  and template caches of a block, their flush, the undo row, the five steps of
  an undo). Table keys are tuples and sets, never bytes.
* **Store** is the store as the program runs it, over those tables: the batch
  loop, the register ceiling, the errors, durability, `open`. Nothing in it is
  chosen freely: a batch fails exactly when its content makes it fail.
* **StoreProperties** states what the tables must say, against a ledger read
  off the transactions of the indexed chain without the store's bookkeeping.
* **Readers** is `read.rs` and `read_tokens.rs` over one record of tables: range scans with
  cursors, an answer `corrupt` for a key whose row is missing. redb orders keys
  as numbers; a key of two parts is the number its bytes spell, with `HashSpace`
  and `GidxSpace` for 2^256 and 2^64. On it stand **History** (an address at a height,
  `handlers/history.rs`), **Activity** (its changes, `address_activity.rs`), **Rent** (schedule,
  overview, eligibility, fees, exposure) and **Sweep** (`examples/integrity-sweep.rs`).
  **ReaderProperties** says what each must answer, against the same ledger.
* **Paging** is a client session over a chain that grows and shrinks between its requests: the eighteen
  strict routes of the policy matrix and the boxes of an address at a height, with their
  tokens, anchors, bindings and verdicts. `Unavailable` is what a rent schedule answers before it looks
  at anything else: an index without a header has no tip to plan from (503). It names the tables by the chain, which the theorem
  `StoreRollbackRestores` allows.
* **Ingest** is `xp_ingest::run`. `run` holds its locals and where it is;
  the steps are what lies between two awaits:
  `seed` (genesis), `poll` (`/info`), `fork` (one header question), `rollback`,
  `range` (batch size, concurrency, durability), `fetch` (one answer at a time, in order, as the
  buffered stream yields them), then the apply. `src` is the node: a branch it
  follows, a height where it may name an orphan, bodies it refuses, endpoints that do not
  answer. It changes between any two steps. `ReadError`, `Backfill` and `Crash` are the other things
  that happen.
* **TokenHistory** adds the index to ChainStore: every action is a ChainStore call
  (or a rebuild's commit) together with what the same transaction does to the two
  tables and the state row, in `aux` and, as of the last durable commit, `auxDisk`.
  `Prepare` and `Finish` are the two halves of every hook, `BatchResults` one slice
  of the rebuild, `worker` the thread that asks for slices until a status read says
  ready. `hooks` says whether the binary that runs knows the index; `Restart` may
  bring either kind. Transactions are named by height and place in the block,
  which two branches share, as they share the code's global indexes.
* **TokenNames** does the same for the name index: `names` and `namesDisk`, hooks before
  and after the rows of TOKENS change, slices with their row and byte limits, `Status` and the
  paged `Search`. A name is a model value, its folding a function of it.
* **TxStatus** is `GET /v1/txs/{id}/status` with the cache behind it: `entries` maps
  transactions to objects, an object (`obj`) has the queue of its lock, a request
  (`req`) is at one of its awaits. `index` holds what a reader opened now would find
  and moves freely; the node's answers are free. `facts` and `answer` record what was true during a
  request and what it answered, `reported` the transactions the cache has called confirmed and has not heard
  the node on since.
* **Reads** is `blocking`, `history_blocking` and the evidence route's two reads around a node request:
  `handler` is the future, `job` the blocking task, `held` and `kept` the permits each of them has.
  **Mempool** is the cached listing: two looks at the cache, one permit, a parser that keeps it;
  a listing is known by how far the node's pool had moved. **Requests** runs both, `Abandon` and
  `AbandonObservation` dropping any handler at any await.
* **Supervisor** is `run` of `main.rs` from the bound listener to the exit code, with
  ingest, server and rebuild workers as tasks that share the store's one write transaction.
  **Process** composes it with Reads: what the server has to drain are its connections, each with a handler or with
  a response its client has not taken yet (`unread`). The 5 s `TimeoutLayer` ends the first and not the
  second, and nothing puts a deadline to the drain. Reads left behind are not waited for, and nothing runs
  once the process is gone.
* **RateLimit** is `limit.rs`: buckets refilled at the time a request read before it
  waited for the mutex, swept and cleared, beside `allowance`, what exact accounting leaves a client:
  filled all the time and never forgotten. Tokens are counted in ticks, so `Cost` is the inverse of `per_second`.
* **...Proofs** modules hold the theorems.
* **MC...** modules give the constants: block trees and, for MCStore and MCPaging, the small
  economy of **Economy**.

`map` in `PROJECT.json` gives the source lines of every definition. Definitions
headed *Mutant* are plausible slips next to the definition they would replace;
nothing uses them, but replacing the one by the other makes TLC find the paired
property violated.

## 3. Runs

| run | question | instance |
|---|---|---|
| `chain_store` | Do links, undo retention, exact rollbacks and crash recovery survive every interleaving of calls? | 9 blocks, 2 forks, window 2, all pairs of blocks as batches and two batches of four |
| `store` | Is every table, every reader, every view of the past and of the rent what the chain says, always, and is the sweep silent? Does Store implement ChainStore? | 10 blocks on 3 heights, window 1, pages of 1, 2 and 5 |
| `ingest_reorg` | What does a crash lose, when must the loop ask for a reindex, and are the status and the stall it shows true? | 10 blocks, 4 source changes, 1 crash, failing store, endpoints and bodies |
| `ingest_live` | Does it converge, or say why not? | two branches, orphans, a withheld body |
| `ingest_twin` | a statement of the documentation that the code does not keep (section 6) | a source on a foreign chain |
| `token_history` | Is an index that reports ready exact, whoever wrote the file? Is rebuild progress kept, and does the rebuild end? | 4 blocks, one fork, window 1, slices of 2 rows, one box too large to scan |
| `token_names` | The same of the name index; and does a search in pages list each match once? | 4 blocks, one id minted under two names, window 1, slices of 2 rows, one row too large |
| `tx_status` | Is the answer about a transaction true, never older than an inclusion already reported, and not blind to double spends? One node question per transaction, permits conserved, the cache bounded? | 2 requests, 2 transactions, 1 entry, 1 permit, 1 block |
| `rate_limit` | Never stricter than exact accounting, and `Retry-After` enough? | 2 requests waiting up to 2 ticks, 3 clients, 2 buckets, 6 ticks |
| `paging` | Do the pages a client reads belong to one snapshot, is it told when they cannot and only then, and does reading on end? | 19 listings over the same economy, heights to 3, pages of 1 to 3 |
| `requests` | Do permits stay with the work, and can the mempool listing go back? | 2 reads, 2 mempool requests, 1 permit of each kind |
| `process` | Is the exit code true, is the store at rest at the exit, do ingest and the workers come to rest whatever clients do, does the process exit once they have their responses? | 2 workers, 1 request, 1 permit of each kind |

*Bounds.* The window is 1 or 2 so that a chain of 3 to 5 blocks is longer than
it, prunes, and can be rolled back beyond it (refused), to its edge and inside
it; batches of four prune undo rows they wrote themselves. `MaxChanges` limits
how often the source changes (a fork, the walk, a second change during the walk
and a recovery fit in four), `MaxCrashes` the crashes. `BulkBatch`,
`BulkConcurrency`, `DurableEvery` and `TipLagForBulk` are 1 to 3, so the loop
goes in and out of bulk mode and batches straddle the durable multiples.
`Batch` contains misordered and foreign blocks, since ChainStore promises to
refuse them. In `store` the economy has a chain-spec token, a fee collected in
its own block, a mint, a burn, a tree emptied and refilled, the same token
minted on two branches, one transaction repeated at other indexes on another branch, and
blocks the store must refuse for each of its reasons. `Ceiling` is met by the block
that stuffs registers, and by no other.
The readers' limits are small enough to be met by these few rows: `ActivityScanLimit`,
`ScanLimit` and `RentScanCap` are 2 (in `paging`, where whole pages come together,
`TokenCap` is 1 and `CandidateCap` 5), so pages end by limit, by scan and by patience; `IntHalf` 16
stands for 2^31, so that the sizes in `MCBoxSize` make fees that are positive, that wrap to negative
and that wrap round to positive; `GidxSpace` 100 is more than any global index.
How many rows a deadline or a byte budget lets pass (`patience`) is a free choice at every request.
`paging` lists every route with every parameter the economy gives a meaning; its three blocks at height 2
are reorganisations to the same height with the same and with other contents.
`token_history` has two blocks at one height whose transactions have the same
positions and move different tokens, box ids whose order is not that of creation,
and slices smaller than the rows to clear or the boxes to visit. `token_names` has names that begin one
another, that two tokens share or that do not fold, and ids whose order is not that of the mints. In `tx_status`
there is one more request than permits and one more transaction than entries: two
requests are the holder and the waiter, or one of them evicts what the other let go.
One block is enough, since it can go and come back between any two steps. `Object` holds
one for each entry and each request, as many as can be referenced at once. In `rate_limit` three clients overfill two buckets,
and six ticks hold two refills (`Cost` 3), three sweeps and a request two ticks late;
`Second` does not divide `Cost`, so rounding matters. In `requests` one permit and two requests
of each kind make the one that holds and the one that finds none, dropped or not; the theorems of
section 4 hold for any number. In `process` one request can be at every point of its life, its response
being written included, at every point of a shutdown; `MaxPool` 1 is an older and a newer listing.
Requests and clients are interchangeable and permuted (symmetry) in `tx_status` and
`rate_limit`, which check invariants only. No other run uses symmetry: blocks differ by
height and parent.

*Deadlock.* The Ingest runs do not check it: a halted loop really stops; nor does
the limiter's, whose time is bounded, `requests`, where each request is made once, and `process`, which
ends. The others do.

*Fairness.* `FairIngest` is weak fairness of the loop's own step: the task is
scheduled by tokio, each request has a timeout (`rust_node.rs:15-16`), each sleep
ends. Nothing is assumed of the node, the rebuilds or crashes: liveness
properties state what they need of the node (`SourceGood`, or which endpoint
stays down) in their hypothesis. `FairHistorySpec` and `NamesSpec` have weak fairness of the rebuild
thread's slices and status reads: its loop sleeps a bounded time between them
(`main.rs:142-182`), and redb's write lock is
held for one transaction at a time. `Rebuilt` and `NamesBuilt` suppose that blocks come to a rest and
that no row is too large to read. `ProcessSpec` has weak fairness of every task, and strong fairness
where a step is not enabled all the time: ingest looks at the token only between two batches, and a worker
waits for the write lock others take. A read may hang on its disk for ever; nothing
is assumed of it. A server's handlers end by the 5 s timeout at the latest. Nothing is assumed of clients: `ShutdownEnds` has
`ClientsRead` (every response is taken, or its client goes away) as the hypothesis of its last part, the exit,
and of no other. `Converges`, `NoSilentFreeze` and `OutageShown` leave out behaviours that are `Halted`: stopped for good, for a
reindex, by a store that fails or by a body that does not decode.

## 4. Proofs

`ChainStoreProofs` proves every property of the `chain_store` run for all block trees, windows
and batches. The inductive invariant strengthens the properties with the shape of both
copies (`disk` is a prefix of `db`, both linked, undo rows from `peak - Window`
up to the tip): undo retention alone is not inductive, since a rollback that
goes past what pruning left must be seen to be refused, and that takes the
relation of tip and peak.

`StoreProofs` proves that the store with all its tables implements ChainStore
(`StoreImplementsChainStore`), for every content of the blocks, batch, window and ceiling, and that the register
ceiling holds (`StoreCapacity`). Nothing in Store says that a batch goes through
or not at all, that a rollback finds what it needs, or that the chain in HEADERS is linked; it
runs the caches, the flushes and the five undo steps of each height. The invariant
`StoreInv` says of both copies:
*HeadersSound*, heights without a gap, each naming the one below, and no block before genesis;
*BoxesSound*, BOXES and TXS have exactly the keys the indexed transactions made, and each box's tree
has a row; *UndoSound*, the undo row of a height lists the boxes and transactions of its block, the
boxes it spends exist once the blocks above are undone, the balances and tokens it
restores have rows, the trees it removes are used by no earlier box, and no row it restores is one
that a later undo row removes; *Roomy*, the entries stay below the ceiling. The last part of
*UndoSound* relates pairs of undo rows: without it undoing one block could take away what the next undo needs,
and `rollback_to` would call its own rows corrupt. From it `RolledBackIs` follows: a rollback of a sound
store restores the prefix or lacks an undo row, and never answers `Corrupt`. On the way up,
`ApplyBlockExtends` says what a whole block does to the tables through `Moves`, a relation kept by
each input, output, token and flush; `AppliedIs` says it of a batch.
The steps are folds. `FoldTheory` proves once, from the definitions of FoldLeft and FoldSet, that what
holds before a fold and is kept by each element holds of its result (lemmas `LeftValue`, `SetValue`), with the operator and
the invariant as CONSTANTs of the module; StoreProofs instantiates it for batches, blocks, inputs,
outputs and rollbacks (the principle of the least number is a hypothesis there, and its proof cited at each use). TLC checked `StoreInv` on the `store` instance before it was proved.

`RollbackProofs` proves `RollbackRestores` (`StoreRollbackRestores`): however batches, rollbacks and crashes
followed each other, every table but UNDO is, row by row, the one that indexing the present chain from
genesis writes. The property is not inductive: a rollback reads undo rows, of which it says nothing, and
those were written by another history than the fresh sync's. The invariant `TracedInv` therefore adds to
`StoreInv` that there is a *trail*, the tables of a fresh sync at every height of the present chain, that the store's
tables are the last of them, and that every undo row the store still has is the one that sync wrote at its
height (`StoreFollowsFreshSync`, for the copy in memory and the one on disk). The argument has three parts:

* *What an undo takes back* (StoreProofs). `Sealed(d, z, u, h)` says how tables `z` may differ from `d` in terms of
  what the undo row `u` names: boxes it created are new, with one number each from the counter it
  saved, boxes it lists as spent were unspent, every balance, template, token and holder that changed has its old row in it,
  ranks are those of the rows, and the index tables changed by the keys of those boxes. Each of
  the five steps of `UndoBlock` is given by what it does to its tables, and `SealedBack` concludes
  that `UndoBlock` returns to `d` in every table but UNDO.
* *What a block does* (BlockProofs). `Since(d, c, pending)` is that relation for a block in progress, whose caches are not
  flushed yet. Every helper keeps it: an input spent, an output created, tokens moved, minted and
  burned, trees touched (`ApplyTxsSince`). Boxes made and spent in one block, a tree first used and
  emptied in it and a token minted in it are where an undo row would go wrong, and what `Since` has to
  speak of. The flush of the caches and the header then make it `Sealed` (`BlockSealed`).
* *The trail* (RollbackProofs). Every table of a trail is `Tight`: rows, ranks and numbers agree as apply_block needs to
  start over from them. A block applied to tables that differ in undo rows only writes the same (`ApplyAlike`), so
  a batch prolongs the trail, a rollback shortens it, pruning only drops rows, and a crash
  returns to a copy with a trail of its own.

RollbackProofs also proves `ExpiresOnlyWhenChanged` of *Paging*, for every block tree, height, query and page size
(`PagingExpiresOnlyWhenChanged`): an open session is refused with 409 exactly when its token's chain is gone, except
that a rent schedule on an index without any header is refused with 503, before its token is read. `PagingInv` says what an open session holds: the chain of its first page is one
the index could hold, its token names that chain's tip (or the block of a history's height), and the
token's binding is what the query named *there*. That a token is accepted exactly on the right chains is a
descent over parents (`LinkedAgree`: two chains with one block at a height agree below it; `LostIs`). That an accepted
token never meets a 404 or a 400 needs the tables: from a chain to a longer one headers, header ids and
trees only grow and a box keeps its value and creator (`Grows`, from `Sealed` by `SealsGrow`, along the path of a
replay by `PathGrows`), so a selector found on the first chain is found, and bound to the same
block, on every chain that extends it (`SelectedStays`); routes whose subject can vanish are those that serve one tip only.

`ClientProofs` is about the two modules that call ChainStore. For *Ingest* it reuses ChainStoreProofs (the store's variables change only by the store's
actions, or not at all: `IngestUsesStore`) and adds the loop's invariant: at each program point, which of
`run.indexed`, `run.h`, `run.fetched`, `run.stall` are tied to `db`; that
the batches since the last durable commit stay below `DurableEvery`; that a
published status is the present one at the points where the loop sleeps; that
a stall over a refused body is one at the very next height. From
it follow the loss bound, `IndexedCurrent`, `StatusFresh` and `StallAhead`, for every behaviour of the source. `IngestReindexBelowFloor` adds what a walk knows
(`WalkInv`), although the source may answer from another branch at every question: it has gone no further than the window below the
tip, and wherever it has gone below the tip, some branch of the source leaves the indexed chain at the height above. It
supposes that a branch the source serves is one chain, so that one foreign id at a height
rules out every height above it.

For *TokenHistory* it proves the safety properties of `token_history`, for every
tree, token content and slice size. The invariant says that an index is sound for
the chain its anchor names, in memory and on disk, whether or not that is the
chain stored now; a binary with the hooks keeps the two equal. What makes an
anchor trustworthy is a lemma by well-founded induction over parents: the tip's
id determines the chain (`TipDetermines`), so an index found current after older binaries have applied
and rolled back is the right one. `HistoryImplementsStore` says that the index changes
none of the store's calls.

`TokenNamesProofs` proves `NamesExact` in the same way, with tokens in the place of memberships: two
branches may mint one id under two names, so a key is sound for a chain, never by itself. Behind the
cursor the keys are those of the chain's tokens with a name that folds; at the end of the rebuild
that is all of them. `NamesCoverageExact` counts: keys and tokens with an indexed name
are in bijection, so the coverage the API shows is true. `NamesSearchExact` reads a ready index to its end,
for every query and any page size (`SearchExact` checks 1 and 2): that the order of keys is strict and total (a name
is compared as if -1 followed it), so a key's place is the number of keys before it; that what lies
after a cursor is the rest of the list (`RestListed`); and, by FoldTheory, that the pages so far are a
beginning of it, a key longer with each page.

`ChainStoreProofs` and `ClientProofs` also prove `NeverRefused` (what is on disk can always be
opened) and `IndexedCurrent` (heights read before an await still hold after it), which no run repeats.

`RequestsProofs` has five parts. The *reads*: where a permit may be by the program
point of handler and task, that it is in one place only, and that the free ones and the requests that have one
add up to the budget, by counting (`PermitsMoved`). The *requests* take it through the composition with
the mempool and add that a refresh has one holder, and that while it is under way nothing
newer than what it will write is cached or shown. The *process* takes it through a shutdown, and
proves the exit code and the quiet store from what `run` has already heard at each of its points.
The *limiter* has the invariants of `rate_limit` and the bound of the map for every rate, burst,
delay and map. The argument goes by what a request that reads the clock at any later `u`
would find: a check at `t` costs a token at every `u` and no more, even if the bucket's
clock was ahead of `t`; a swept bucket is full from then on.

The *status of a transaction*: all four properties of `tx_status`, for any number of requests, transactions,
entries and permits. The invariant `StatusInv` has four parts. *Queues* (`Flights`): a request that waits
or is served is once in the queue of an object, that object is the cache's for its transaction, and who is
served is its head, so two served requests of one transaction are one. *Work*: free permits, requests
asking the node and detached parsers add up, which `WorkMoved` keeps in the same way. *Heard*: the facts a request has
collected include what the index says now. *Remembered*: an entry that has seen a transaction, or its inclusion, has its inputs, so that the next request
looks for conflicts. `FreshAfterConfirmed` needs one thing more (`HeardSince`): whoever holds the lock of a transaction
in `reported` either finds an entry that asks the node at once, or has not got past asking, or got no word. An entry
that is evicted, and a request dropped between the node's answer and the second read, leave that true
(`WorldWord`, `GoneWord`). A fresh object exists by comparing cardinalities (`UnusedExists`); `Good` is what
the three properties of an answer have in common.

*Assumptions* are the named `ASSUME`s of the modules; the MC instances satisfy them, TLC evaluates
them. Most are finite sets of requests and objects, bounds that are numbers and trees whose parents are
lower. Store's say what a chain guarantees of its blocks and no store can check:
`IdAssumption`, ids of boxes and transactions are hashes of their content and of what they spend, so no chain has
one twice or makes a chain-spec box again; `EmissionAssumption`, the first transaction of the block at
height 1 spends a box, so that block is refused before genesis is seeded; `ContentAssumption`, blocks and boxes are finite
and a box holds a positive amount of each token it lists; `DistinctAssumption`, the transactions of a block have
different ids, and so have the boxes they make and those of the chain spec.
Paging's `QueryAssumption` is what the handlers' parsers let through: a route's order, and a height for a history.
A ceiling may be 0: then the register index stays empty.

*Only model-checked.* Liveness (`Converges`, `NoSilentFreeze`, `OutageShown`, `Rebuilt`, `NamesBuilt`,
`ShutdownEnds`): temporal proofs under fairness are out of the prover's reach.
`TablesExact`: that the tables are those of a fresh sync is proved, that a fresh sync writes what the ledger
says (sums of balances and holders, memberships, counters) is checked by the `store` run, since the
ledger's sums are over the whole chain and each would need an induction of its own. With it the properties that read
those tables: `ReadersExact`, `HistoryExact`, `RentViewsExact`, `SweepClean`, and of Paging
`PagesExact` and `PagesAdvance`.

## 5. Not modelled

Byte encodings of keys and rows, the wire codecs, widths of amounts (they are
bounded by the chain's supply; the checked arithmetic of the register counter
returns an error before it wraps; the rent fee, which does wrap, is modelled with its width), partial stores that begin above
genesis, log text, and the components PROJECT.json marks `not_modelled`.
A requested shutdown of the loop ends it between two steps and loses nothing a crash would not: Process has it, Ingest does not.
In Ingest both rebuilds appear as their durable commits, and each in the other's module.

* *Frontend.* Its pager, tracker, status, mempool and watch loaders run in a browser. Paging and TxStatus have abstract clients
  that send whatever the real ones may; that a late page is dropped after a reset is the one
  hazard without a property.
* *API.* Header aggregates (mining, network), supply, rewards, address groups and free search are
  functions of one snapshot without cursor or state. Response and work budgets appear only as the limits that end a
  page early (`patience`, `TokenCap`, `CandidateCap`); those that turn a request into an error are left out, as are bare cursors,
  which promise nothing, JSON and metrics, calendar dates, and what the mempool listing shows of a connection.
* *Limiter.* Which key a client has (CIDR lists, `X-Forwarded-For`) and the rounding of
  its floating-point tokens. It is exact only when nobody is overtaken: a request that waited for the mutex
  sets a bucket's clock back and lets the same ticks be counted twice. `NeverStricter`
  says that this, sweeping and clearing only ever help the client.
* *Transaction status.* `FreshAfterConfirmed` speaks of inclusions the cache reported. One that came and
  went between two requests, or that only a busy reader saw (`BareRead` answers without the entry), leaves
  the cached word in place for up to `CacheTime` (`observations.rs:187`): the model has these
  behaviours, and the code promises nothing better. The summary of a pending transaction, and which read was refused for want of which permit.
* *Sources.* The node client's HTTP and its choice between two nodes: Ingest's source answers whatever the
  pair may.
* *Supervisor.* Parsing the configuration and a start that fails before the listener is bound.
* *Sweep.* Whether stored register JSON parses (R9), and the two gaps a partial store is permitted.

## 6. Where code and documentation disagree

* `ingest_twin`: a source on a chain with another first block makes the fork walk
  reach height 0, where a node names nothing; the loop waits for ever instead of
  halting (`xp-ingest lib.rs:627`, `bin/explorer/README.md:32`).

Without a run of their own:

* A stall is dropped only by an applied batch or a rollback. Once the node withdraws the block it withheld, the loop
  idles at the tip and goes on publishing the stall, until the next block (`xp-ingest lib.rs:467`;
  `bin/explorer/README.md:132`: null when merely idle at the tip). Ingest has these behaviours: TLC refutes
  `(<>[](SourceGood /\ AtTip /\ ~ Halted)) => <>[](status.stalled = NoStall)` for them.
* After ingest has ended the process waits for the server's graceful shutdown, which waits for connections without a
  deadline (`main.rs:302-316, 329`). A client that does not read its response keeps a halted explorer from
  exiting, though it has stopped accepting (`bin/explorer/README.md:24-25`: it exits so a supervisor
  notices). Process has these behaviours: TLC refutes `shutdown ~> main = "exited"` without `ClientsRead`.
* A comment says that a bad configuration exits with 1 (`main.rs:192`). The code exits with 2 (`main.rs:397-402`),
  as `bin/explorer/README.md:31` says. The start before the listener is bound is not modelled.
* After a rollback to height 0 the store differs from a fresh one by a
  counter row with value 0 (`rollback.rs:343`; the promise is in `rollback.rs:1-3, 345-351`).
  `RollbackRestores` reads the missing row as 0.
* A token issued by the chain spec has no row in TOKENS (`tokens.rs:137`, `read_tokens.rs:267`), which
  the sweep reports as R11 of a full store (`docs/integrity-sweep.md:98`). `SweepClean` allows exactly these.

## 7. Plan

What is left, in this order:

1. Proofs: the contents of a fresh sync's tables against the ledger, one group at a time over `Since` (box
   indexes first: they are sets and need no sums), then balances; with `StoreFollowsFreshSync` they hold after
   any rollback. That Paging's cursors move on (`PagesAdvance`): the keys a reader scans are finite sets, and a page
   ends on one of them.
2. **Pager**, **Tracker**, **Watch**: the browser's loaders with generations and late answers, over Paging and TxStatus.
3. **Sources**: the node client and the body fallback under Ingest.
4. Budgets of a response and the header aggregates.
