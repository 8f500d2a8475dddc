----------------------------- MODULE TokenNames -----------------------------
(***************************************************************************)
(* The token name index of crates/xp-store/src/token_search.rs: keys of a  *)
(* folded name and a token id, written by the mints of apply_batch, removed*)
(* by rollback_to, rebuilt a batch at a time by a worker                   *)
(* (backfill_token_names in bin/explorer/src/main.rs) when the stored rows *)
(* were not written for the stored chain, and searched by prefix or as a   *)
(* whole with the last token's id for a cursor.                            *)
(*                                                                         *)
(* Unlike TokenHistory there is one table and no reverse key: what to      *)
(* remove is worked out again from the token's row.  A token id is the id  *)
(* of a box, so another branch may mint the same id under another name.    *)
(*                                                                         *)
(* Each action is a ChainStore call with what its transaction does to the  *)
(* index; `hooks` tells a binary that knows the index from an older one.   *)
(* Folding (ASCII case, white space, refusal of control bytes and lengths) *)
(* is Fold, and the bytes of a folded name are numbers.  A batch's byte    *)
(* limit ends it after any row but never before one.                       *)
(***************************************************************************)
EXTENDS ChainStore, FiniteSetsExt, SequencesExt

CONSTANTS
    Mint,       \* Mint[b]: the block's mints, a function from token to name
    Fold,       \* Fold[name]: normalize of it, <<>> where that is refused
    Oversized,  \* tokens whose rows exceed MAX_TOKEN_NAME_BATCH_BYTES
    MaxRows,    \* the max_rows the worker passes
    SearchFor   \* the searches: [query, exact], query already folded

Token == UNION {DOMAIN Mint[b] : b \in Block}   \* numbers, in key order

ASSUME NameAssumption ==
    /\ Token \subseteq Nat
    /\ \A b \in Block : Range(Mint[b]) \subseteq DOMAIN Fold /\ IsFiniteSet(DOMAIN Mint[b])
    /\ \A name \in DOMAIN Fold : Fold[name] \in Seq(Nat \ {0})
    /\ \A q \in SearchFor : q.query \in Seq(Nat \ {0}) \ {<<>>}

VARIABLES
    names,      \* TOKEN_NAMES and the row of TOKEN_NAME_META
    namesDisk,  \* the same, as of the last durable commit
    hooks,      \* whether the running binary knows the index
    worker      \* where the rebuild worker is

namesVars == <<db, disk, outcome, names, namesDisk, hooks, worker>>

NoCursor == -1

-----------------------------------------------------------------------------
(* TOKENS: the first mint of an id along the chain names it. *)
Tokens(d) ==
    LET minted == UNION {DOMAIN Mint[b] : b \in Range(d.chain)}
        first(t) == Min({h \in DOMAIN d.chain : t \in DOMAIN Mint[d.chain[h]]})
    IN  [t \in minted |-> Mint[d.chain[first(t)]][t]]

(* index_key, for the tokens of a table whose name folds at all. *)
Keys(rows, tokens) ==
    {<<Fold[rows[t]], t>> : t \in {u \in tokens \cap DOMAIN rows : Fold[rows[u]] # <<>>}}

(* anchor: which chain the index was written for. *)
Anchor(d) == [height |-> Tip(d),
              id     |-> IF d.chain = <<>> THEN NoParent ELSE d.chain[Tip(d)],
              tokens |-> Cardinality(DOMAIN Tokens(d))]

NoNames == [keys |-> {}, state |-> [phase |-> "ABSENT", cursor |-> NoCursor,
                                    anchor |-> Anchor(EmptyDatabase)]]

Current(n, d) == n.state.phase # "ABSENT" /\ n.state.anchor = Anchor(d)

(* Mutant: leftovers of the other chain are built upon. *)
PrepareKeeping(n, d) ==
    IF Current(n, d) THEN n
    ELSE [n EXCEPT !.state =
            [phase  |-> IF Tokens(d) # <<>> THEN "BUILDING" ELSE "READY",
             cursor |-> NoCursor, anchor |-> Anchor(d)]]

(* prepare_write. *)
Prepare(n, d) ==
    IF Current(n, d) THEN n
    ELSE [n EXCEPT !.state =
            [phase  |-> IF n.keys # {} THEN "CLEARING"
                        ELSE IF Tokens(d) # <<>> THEN "BUILDING" ELSE "READY",
             cursor |-> NoCursor, anchor |-> Anchor(d)]]

(* finish_write. *)
FinishNames(n, d) == [n EXCEPT !.state.anchor = Anchor(d)]

(* insert_name, for the tokens that have a row only now. *)
InsertNames(n, old, new) ==
    [n EXCEPT !.keys = @ \cup Keys(Tokens(new), DOMAIN Tokens(new) \ DOMAIN Tokens(old))]

(* Mutant: a key is removed only once the index is ready. *)
RemoveNamesIfReady(n, old, new) ==
    IF n.state.phase # "READY" THEN n
    ELSE [n EXCEPT !.keys = @ \ Keys(Tokens(old), DOMAIN Tokens(old) \ DOMAIN Tokens(new))]

(* remove_name, by the row the token has until then. *)
RemoveNames(n, old, new) ==
    [n EXCEPT !.keys = @ \ Keys(Tokens(old), DOMAIN Tokens(old) \ DOMAIN Tokens(new))]

-----------------------------------------------------------------------------
(* One batch of the rebuild. *)

(* redb's order of the keys: the name's bytes, a zero byte, the id.        *)
BytesBefore(s, t) ==
    \/ IsStrictPrefix(s, t)
    \/ \E i \in 1..Min({Len(s), Len(t)}) :
          s[i] < t[i] /\ SubSeq(s, 1, i - 1) = SubSeq(t, 1, i - 1)
KeyBefore(k, l) == BytesBefore(k[1], l[1]) \/ (k[1] = l[1] /\ k[2] < l[2])

(* Each key where as many keys are before it as the table holds. *)
InOrder(keys) ==
    [i \in 1..Cardinality(keys) |->
        CHOOSE k \in keys : Cardinality({l \in keys : KeyBefore(l, k)}) = i - 1]

Cleared(n, count) ==
    LET left == Range(SubSeq(InOrder(n.keys), count + 1, Cardinality(n.keys)))
    IN  [n EXCEPT !.keys = left,
                  !.state.phase = IF left = {} THEN "BUILDING" ELSE @]

Unscanned(n, d) == {t \in DOMAIN Tokens(d) : n.state.cursor < t}

(* Mutant: a full batch is taken for the last one. *)
ScannedEarly(n, d, last) ==
    LET visited == {t \in Unscanned(n, d) : t <= last}
    IN  [n EXCEPT !.keys = @ \cup Keys(Tokens(d), visited),
                  !.state.cursor = last,
                  !.state.phase  = IF Cardinality(Unscanned(n, d)) <= MaxRows + 1
                                   THEN "READY" ELSE @]

(* Mutant: the cursor of a batch is not written. *)
ScannedAgain(n, d, last) ==
    LET visited == {t \in Unscanned(n, d) : t <= last}
    IN  [n EXCEPT !.keys = @ \cup Keys(Tokens(d), visited),
                  !.state.phase  = IF visited = Unscanned(n, d) THEN "READY" ELSE @]

(* The tokens up to last, in key order; ready when none is left.           *)
Scanned(n, d, last) ==
    LET visited == {t \in Unscanned(n, d) : t <= last}
    IN  [n EXCEPT !.keys = @ \cup Keys(Tokens(d), visited),
                  !.state.cursor = last,
                  !.state.phase  = IF visited = Unscanned(n, d) THEN "READY" ELSE @]

Stops(n, d) ==
    {last \in Unscanned(n, d) : Cardinality({t \in Unscanned(n, d) : t <= last}) <= MaxRows}

Readable(n, d, last) == \A t \in Oversized : ~ (t \in Unscanned(n, d) /\ t <= last)

BatchResults(n, d) ==
    CASE n.state.phase = "CLEARING" -> {Cleared(n, count) : count \in 1..MaxRows}
      [] n.state.phase = "BUILDING" ->
           IF Unscanned(n, d) = {} THEN {[n EXCEPT !.state.phase = "READY"]}
           ELSE {Scanned(n, d, last) : last \in {l \in Stops(n, d) : Readable(n, d, l)}}
      [] n.state.phase = "READY" -> {n}

BatchRefused(n, d) ==
    /\ n.state.phase = "BUILDING"
    /\ \E last \in Stops(n, d) : ~ Readable(n, d, last)

-----------------------------------------------------------------------------
(* Readers. *)

(* token_name_index_status. *)
Ready(n, d) == Current(n, d) /\ n.state.phase = "READY"

Status(n, d) ==
    LET total == Cardinality(DOMAIN Tokens(d))
    IN  [ready     |-> Ready(n, d),
         indexed   |-> IF Current(n, d) /\ n.state.phase # "CLEARING"
                       THEN Cardinality(n.keys) ELSE 0,
         unindexed |-> IF Ready(n, d) THEN total - Cardinality(n.keys) ELSE 0,
         corrupt   |-> Ready(n, d) /\ total < Cardinality(n.keys)]

MatchesQuery(key, q) == IF q.exact THEN key[1] = q.query ELSE IsPrefix(q.query, key[1])

(* search_token_names in one snapshot: the keys after the cursor's, which  *)
(* is made again from its token's row; a key without its row is corrupt.   *)
Search(n, d, q, cursor, limit) ==
    LET rows  == Tokens(d)
        after == <<Fold[rows[cursor]], cursor>>
        left  == {k \in n.keys : /\ MatchesQuery(k, q)
                                 /\ cursor # NoCursor => KeyBefore(after, k)}
        page  == SubSeq(InOrder(left), 1, Min({limit, Cardinality(left)}))
        sound(k) == k[2] \in DOMAIN rows /\ Fold[rows[k[2]]] = k[1]
    IN  CASE ~ Ready(n, d) -> [answer |-> "not_ready"]
          [] Ready(n, d) /\ cursor # NoCursor
               /\ (cursor \notin DOMAIN rows \/ ~ MatchesQuery(after, q)) ->
                 [answer |-> "invalid"]
          [] \E k \in Range(page) : ~ sound(k) -> [answer |-> "corrupt"]
          [] OTHER -> [answer |-> "ok", items |-> [i \in DOMAIN page |-> page[i][2]],
                       next |-> IF Cardinality(left) > limit THEN Last(page)[2]
                                ELSE NoCursor]

-----------------------------------------------------------------------------
NamesInit ==
    /\ Init
    /\ hooks \in BOOLEAN
    /\ names = IF hooks THEN Prepare(NoNames, EmptyDatabase) ELSE NoNames
    /\ namesDisk = names
    /\ worker = IF hooks THEN "batch" ELSE "stopped"

(* A call that changed the chain committed n with it, as durably.          *)
CommitNames(n, durable) ==
    /\ IF db' = db \/ ~ hooks THEN UNCHANGED names ELSE names' = FinishNames(n, db')
    /\ namesDisk' = IF db' # db /\ durable THEN names' ELSE namesDisk
    /\ UNCHANGED <<hooks, worker>>

Seed == SeedGenesis /\ CommitNames(Prepare(names, db), TRUE)

Apply(batch, durable) ==
    /\ ApplyBatch(batch, durable)
    /\ CommitNames(InsertNames(Prepare(names, db), db, db'), durable)

Rollback(target) ==
    /\ RollbackTo(target)
    /\ CommitNames(RemoveNames(Prepare(names, db), db, db'), TRUE)

(* backfill_token_names_batch, in a durable transaction of its own.        *)
NamesBatch ==
    /\ worker = "batch" /\ worker' = "status"
    /\ AuxiliaryCommit
    /\ UNCHANGED hooks
    /\ names' \in BatchResults(Prepare(names, db), db)
    /\ namesDisk' = names'

(* The other index's batches commit this one's rows with theirs. *)
OtherIndexCommit ==
    /\ hooks
    /\ AuxiliaryCommit
    /\ namesDisk' = names
    /\ UNCHANGED <<names, hooks, worker>>

(* An error other than TokenSearchNotReady ends the worker for good.       *)
NamesStop ==
    /\ worker = "batch" /\ worker' = "stopped"
    /\ UNCHANGED <<vars, names, namesDisk, hooks>>
    /\ BatchRefused(Prepare(names, db), db)

(* The status a batch returns is read in a later transaction. *)
NamesStatus ==
    /\ worker = "status"
    /\ worker' = IF Ready(names, db) THEN "done" ELSE "batch"
    /\ UNCHANGED <<vars, names, namesDisk, hooks>>

Restart(binary) ==
    LET knows == binary /\ Openable(disk)
    IN  /\ CrashAndOpen
        /\ hooks' = binary
        /\ names' = IF knows THEN Prepare(namesDisk, disk) ELSE namesDisk
        /\ namesDisk' = names'
        /\ worker' = IF knows THEN "batch" ELSE "stopped"

NamesNext ==
    \/ Seed
    \/ \E batch \in Batch, durable \in BOOLEAN : Apply(batch, durable)
    \/ \E target \in 0..Tip(db) : Rollback(target)
    \/ NamesBatch
    \/ OtherIndexCommit
    \/ NamesStop
    \/ NamesStatus
    \/ \E binary \in BOOLEAN : Restart(binary)

(* The worker is a task of its own and its batches never wait.             *)
NamesSpec == /\ NamesInit /\ [][NamesNext]_namesVars
             /\ WF_namesVars(NamesBatch \/ NamesStop) /\ WF_namesVars(NamesStatus)

-----------------------------------------------------------------------------
(* A ready index holds exactly the keys of the tokens its chain has, under *)
(* the names this chain gave them, and so does what a crash would leave;   *)
(* while it is being built it holds no key of another chain and misses     *)
(* none behind its cursor: older binaries, crashes, rollbacks and a second *)
(* mint of an id included.  A worker that found it ready is not needed any *)
(* more.                                                                   *)
NamesExact ==
    /\ \A p \in {<<names, db>>, <<namesDisk, disk>>} :
          Ready(p[1], p[2]) => p[1].keys = Keys(Tokens(p[2]), Token)
    /\ Current(names, db) /\ names.state.phase = "BUILDING" =>
          /\ names.keys \subseteq Keys(Tokens(db), Token)
          /\ Keys(Tokens(db), 0..names.state.cursor) \subseteq names.keys
    /\ worker = "done" => Ready(names, db)

(* The coverage a reader is told is exact: a ready index is never found to *)
(* hold more keys than there are tokens, and the tokens it lacks are those *)
(* whose names do not fold.                                                *)
CoverageExact ==
    /\ ~ Status(names, db).corrupt
    /\ Ready(names, db) =>
          Status(names, db).unindexed
             = Cardinality({t \in DOMAIN Tokens(db) : Fold[Tokens(db)[t]] = <<>>})

Matching(d, q) == {k \in Keys(Tokens(d), Token) : MatchesQuery(k, q)}

NewSearch == [items |-> <<>>, next |-> NoCursor, done |-> FALSE, ok |-> TRUE]

PageTurned(n, d, q, limit, w) ==
    LET p == Search(n, d, q, w.next, limit)
    IN  IF w.done THEN w
        ELSE IF p.answer # "ok" THEN [w EXCEPT !.done = TRUE, !.ok = FALSE]
        ELSE [items |-> w.items \o p.items, next |-> p.next,
              done |-> p.next = NoCursor, ok |-> TRUE]

(* A reader that turns pages for longer than there are tokens. *)
ReadOn(n, d, q, limit) ==
    FoldLeft(LAMBDA w, i : PageTurned(n, d, q, limit, w), NewSearch,
             [i \in 1..(Cardinality(DOMAIN Tokens(d)) + 1) |-> i])

ReadsAll(n, d, q, limit) ==
    LET found == InOrder(Matching(d, q))
        read  == ReadOn(n, d, q, limit)
    IN  read.ok /\ read.done /\ read.items = [i \in DOMAIN found |-> found[i][2]]

(* A search read to its end lists every token whose folded name matches,   *)
(* once, by name and then by id, whatever the limit; no reader meets a key *)
(* without its row, and with the coverage it reports a client told         *)
(* "complete" was shown every token of the chain that matches.             *)
SearchExact ==
    /\ CoverageExact
    /\ Ready(names, db) => \A q \in SearchFor, limit \in 1..2 : ReadsAll(names, db, q, limit)

(* Once the last binary knows the index, its worker meets no row it cannot *)
(* read and blocks come to a rest, search becomes available and stays so.  *)
NamesBuilt ==
    /\ <>[](hooks /\ worker # "stopped")
    /\ <>[][db'.chain = db.chain]_namesVars
    => <>[]Ready(names, db)
=============================================================================
