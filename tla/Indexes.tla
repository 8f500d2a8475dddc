------------------------------ MODULE Indexes ------------------------------
(***************************************************************************)
(* What one block does to the tables of the store, and what undoing it     *)
(* does: apply_block, with the per-block caches of extras.rs and           *)
(* tokens.rs, seed_genesis, and one height of rollback_to.  Operators      *)
(* only; module Store runs them inside its transactions.                   *)
(*                                                                         *)
(* A table is a partial function, or a set of key tuples when its rows are *)
(* empty.  Hashes are model values; a box carries its assets as a bag of   *)
(* tokens (amounts of a repeated token add up) and its registers as a set  *)
(* of <<register, value>>.  Partial stores (seed_for_tests) are left out.  *)
(***************************************************************************)
EXTENDS Integers, SequencesExt

CONSTANTS
    Block, NoParent,
    Height, Parent, \* of a block, from its header
    Txs,            \* Txs[b]: the block's transactions, in order
    Genesis,        \* the chain-spec boxes
    Template,       \* Template[tree]: the template hash tree_info derives
    FeeTree,        \* FEE_TREE_HASH
    RentPeriod      \* RENT_PERIOD

NoRow == -1         \* an absent META row or holder amount
Unspent == <<>>

OrZero(n) == IF n = NoRow THEN 0 ELSE n

(* The rows of new where it has one, else those of old. *)
Over(new, old) ==
    [k \in DOMAIN new \cup DOMAIN old |-> IF k \in DOMAIN new THEN new[k] ELSE old[k]]

Put(table, key, row) ==
    [k \in {key} \cup DOMAIN table |-> IF k = key THEN row ELSE table[k]]
Drop(table, keys) == Restrict(table, DOMAIN table \ keys)
Lookup(table, key, default) == IF key \in DOMAIN table THEN table[key] ELSE default
Copies(token, bag) == Lookup(bag, token, 0)

NoTables == [
    headers |-> <<>>, headerById |-> <<>>, undo |-> <<>>,
    nextBox |-> NoRow, nextTx |-> NoRow, genesisSeeded |-> FALSE,
    genesisToken |-> {}, emissionTree |-> {},
    boxes |-> <<>>, boxByGidx |-> <<>>, ergoTrees |-> {},
    treeBoxes |-> {}, treeUnspent |-> {}, treeTxs |-> {}, rentMatures |-> {},
    txs |-> <<>>, txByGidx |-> <<>>, treeBalance |-> <<>>, rich |-> {},
    templates |-> <<>>, templateBoxes |-> {}, templateUnspent |-> {},
    registerIdx |-> {},
    tokens |-> <<>>, tokensByGidx |-> <<>>, tokensByHolders |-> {},
    tokenBoxes |-> {}, tokenUnspent |-> {},
    tokenHolders |-> {}, tokenHolderAmt |-> <<>>]

-----------------------------------------------------------------------------
(* A block in progress: the tables, the four caches, the undo row being    *)
(* collected, and whether an early return was met.                         *)

NoUndo == [createdBoxes |-> {}, spentBoxes |-> {}, txIds |-> {}, treeTxs |-> {},
           newBalances |-> {}, prevBalances |-> <<>>,
           prevNextBox |-> 0, prevNextTx |-> 0, newTrees |-> {},
           newTemplates |-> {}, prevTemplates |-> <<>>,
           newTokens |-> {}, prevTokens |-> <<>>, prevHolderAmts |-> <<>>,
           registerKeys |-> {}]

NewCtx(d, h) ==
    [d |-> d, h |-> h, bal |-> <<>>, tmpl |-> <<>>, tok |-> <<>>, hold |-> <<>>,
     undo |-> NoUndo, corrupt |-> FALSE]

Corrupt(c) == [c EXCEPT !.corrupt = TRUE]

(* load_balance: from the cache, else the table, else a row first seen now. *)
LoadBalance(c, tree) ==
    Lookup(c.bal, tree,
        Lookup(c.d.treeBalance, tree,
            [nano |-> 0, tokens |-> EmptyBag, boxCount |-> 0,
             firstSeen |-> c.h, lastSeen |-> c.h, txCount |-> 0]))

(* Extras::row, with the same two fallbacks. *)
TemplateRow(c, tree) ==
    Lookup(c.tmpl, Template[tree],
        Lookup(c.d.templates, Template[tree],
            [boxCount |-> 0, unspentCount |-> 0, firstSeen |-> c.h,
             exampleTree |-> tree]))

(* Tokens::holder_mut. *)
HolderAmt(c, token, tree) ==
    Lookup(c.hold, <<token, tree>>, Lookup(c.d.tokenHolderAmt, <<token, tree>>, 0))

MaturityHeight(creation) == creation + RentPeriod

(* insert_output: the five per-box tables. *)
InsertOutput(d, gidx, o, tx) ==
    [d EXCEPT
        !.boxes = Put(@, o.id,
            [gidx |-> gidx, value |-> o.value, tree |-> o.tree,
             creation |-> o.creation, tx |-> tx, tokens |-> o.tokens,
             spent |-> Unspent]),
        !.boxByGidx   = Put(@, gidx, o.id),
        !.treeBoxes   = @ \cup {<<o.tree, gidx>>},
        !.treeUnspent = @ \cup {<<o.tree, gidx>>},
        !.rentMatures = @ \cup {<<MaturityHeight(o.creation), gidx, o.id>>}]

(* Extras::on_output. *)
ExtrasOnOutput(c, gidx, o) ==
    LET row  == TemplateRow(c, o.tree)
        regs == {<<r[1], r[2], gidx>> : r \in o.registers}
    IN  [c EXCEPT
            !.d.templateBoxes   = @ \cup {<<Template[o.tree], gidx>>},
            !.d.templateUnspent = @ \cup {<<Template[o.tree], gidx>>},
            !.d.registerIdx     = @ \cup regs,
            !.undo.registerKeys = @ \cup regs,
            !.tmpl = Put(@, Template[o.tree],
                [row EXCEPT !.boxCount = @ + 1, !.unspentCount = @ + 1])]

(* Extras::on_spend; the count may not go below zero. *)
ExtrasOnSpend(c, row) ==
    LET t == TemplateRow(c, row.tree)
    IN  IF t.unspentCount < 1 THEN Corrupt(c)
        ELSE [c EXCEPT
                !.d.templateUnspent = @ \ {<<Template[row.tree], row.gidx>>},
                !.tmpl = Put(@, Template[row.tree], [t EXCEPT !.unspentCount = @ - 1])]

-----------------------------------------------------------------------------
(* apply_block's input and output loops. *)

(* Mutant: the tokens of a spent box stay with its tree. *)
DebitBalanceNano(bal, row, h) ==
    [bal EXCEPT !.nano = @ - row.value, !.boxCount = @ - 1, !.lastSeen = h]

(* debit_balance and sub_tokens both refuse to underflow. *)
DebitBalance(bal, row, h) ==
    [bal EXCEPT !.nano = @ - row.value, !.boxCount = @ - 1,
                !.tokens = @ (-) row.tokens, !.lastSeen = h]

CreditBalance(bal, o, h) ==
    [bal EXCEPT !.nano = @ + o.value, !.boxCount = @ + 1,
                !.tokens = @ (+) o.tokens, !.lastSeen = h]

SpendBox(c, id, tx) ==
    LET row == c.d.boxes[id]
        bal == LoadBalance(c, row.tree)
        spent == [c EXCEPT
            !.d.boxes[id].spent = <<tx, c.h>>,
            !.d.treeUnspent = @ \ {<<row.tree, row.gidx>>},
            !.d.rentMatures = @ \ {<<MaturityHeight(row.creation), row.gidx, id>>},
            !.bal = Put(@, row.tree, DebitBalance(bal, row, c.h)),
            !.undo.spentBoxes = @ \cup {id}]
    IN  IF \/ bal.nano < row.value
           \/ bal.boxCount < 1
           \/ ~ (row.tokens \sqsubseteq bal.tokens)
        THEN Corrupt(c)
        ELSE ExtrasOnSpend(spent, row)

SpendInput(c, id, tx) ==
    IF c.corrupt \/ id \notin DOMAIN c.d.boxes THEN Corrupt(c)
    ELSE IF c.d.boxes[id].spent # Unspent THEN Corrupt(c)
    ELSE SpendBox(c, id, tx)

CreateOutput(c, o, tx) ==
    LET gidx == c.d.nextBox
        d == [InsertOutput(c.d, gidx, o, tx) EXCEPT
                !.nextBox = @ + 1, !.ergoTrees = @ \cup {o.tree}]
    IN  ExtrasOnOutput(
            [c EXCEPT !.d = d,
                      !.bal = Put(@, o.tree, CreditBalance(LoadBalance(c, o.tree), o, c.h)),
                      !.undo.newTrees = @ \cup ({o.tree} \ c.d.ergoTrees),
                      !.undo.createdBoxes = @ \cup {o.id}],
            gidx, o)

-----------------------------------------------------------------------------
(* Tokens: mint, spend, output and burn of one transaction. *)

TokenKnown(c, token) == token \in DOMAIN c.tok \cup DOMAIN c.d.tokens

(* row_mut tolerates a missing row only for a chain-spec token.            *)
TokenRowRefused(c, token) == ~ TokenKnown(c, token) /\ token \notin c.d.genesisToken

TokenRow(c, token) == Lookup(c.tok, token, Lookup(c.d.tokens, token, <<>>))

(* Updates a token's cached row through f, if the token has a row. *)
WithTokenRow(c, token, f(_)) ==
    IF TokenKnown(c, token) THEN [c EXCEPT !.tok = Put(@, token, f(TokenRow(c, token)))]
                            ELSE c

CountBox(c, token) ==
    WithTokenRow(c, token, LAMBDA r : [r EXCEPT !.boxCount = @ + 1])

AddBurned(c, token, amount) ==
    WithTokenRow(c, token, LAMBDA r : [r EXCEPT !.burned = @ + amount])

MoveHolders(c, token, delta) ==
    WithTokenRow(c, token, LAMBDA r : [r EXCEPT !.holderCount = @ + delta])

AmountIn(boxes, token) ==
    FoldLeft(LAMBDA n, b : n + Copies(token, b.tokens), 0, boxes)

(* on_mint: the token named after the first input's id, if an output holds *)
(* it; its first such output is the mint box.                              *)
OnMint(c, tx, firstOut) ==
    LET token    == tx.inputs[1]
        emission == AmountIn(tx.outputs, token)
        i        == SelectInSeq(tx.outputs, LAMBDA o : BagIn(token, o.tokens))
    IN  IF tx.inputs = <<>> \/ emission = 0 \/ TokenKnown(c, token) THEN c
        ELSE [c EXCEPT
                !.d.tokensByGidx = Put(@, firstOut + i - 1, token),
                !.tok = Put(@, token,
                    [mintTx |-> tx.id, mintBox |-> tx.outputs[i].id, mintHeight |-> c.h,
                     mintGidx |-> firstOut + i - 1, emission |-> emission,
                     burned |-> 0, holderCount |-> 0, boxCount |-> 0])]

TokensOnSpend(c, row) ==
    LET after(token) == HolderAmt(c, token, row.tree) - Copies(token, row.tokens)
    IN  IF \E token \in BagToSet(row.tokens) : after(token) < 0 THEN Corrupt(c)
        ELSE [c EXCEPT
                !.d.tokenUnspent = @ \ {<<t, row.gidx>> : t \in BagToSet(row.tokens)},
                !.hold = Over([k \in {<<t, row.tree>> : t \in BagToSet(row.tokens)} |->
                                    after(k[1])], @)]

(* The membership rows of an output, and what its tree now holds.          *)
HoldTokens(c, gidx, o) ==
    LET held == BagToSet(o.tokens)
        keys == {<<t, gidx>> : t \in held}
    IN  [c EXCEPT
            !.d.tokenBoxes   = @ \cup keys,
            !.d.tokenUnspent = @ \cup keys,
            !.hold = Over([k \in {<<t, o.tree>> : t \in held} |->
                                HolderAmt(c, k[1], o.tree) + Copies(k[1], o.tokens)], @)]

(* box_count moves once per box, whatever the amounts. *)
TokensOnOutput(c, gidx, o) ==
    IF \E t \in BagToSet(o.tokens) : TokenRowRefused(c, t) THEN Corrupt(c)
    ELSE FoldSet(LAMBDA t, acc : CountBox(acc, t), HoldTokens(c, gidx, o), BagToSet(o.tokens))

(* burned += in - out for a token the transaction destroys some of. *)
Burnt(inputs, outputs, token) == AmountIn(inputs, token) - AmountIn(outputs, token)

OnBurn(c, inputs, outputs) ==
    LET burning == {t \in UNION {BagToSet(inputs[i].tokens) : i \in DOMAIN inputs} :
                        Burnt(inputs, outputs, t) > 0}
    IN  IF \E t \in burning : TokenRowRefused(c, t) THEN Corrupt(c)
        ELSE FoldSet(LAMBDA t, acc : AddBurned(acc, t, Burnt(inputs, outputs, t)), c, burning)

TokensApplyTx(c, tx, inputs, firstOut) ==
    LET minted == OnMint(c, tx, firstOut)
        spent  == FoldLeft(LAMBDA acc, row : TokensOnSpend(acc, row), minted, inputs)
        made   == FoldLeftDomain(
                    LAMBDA acc, i : TokensOnOutput(acc, firstOut + i - 1, tx.outputs[i]),
                    spent, tx.outputs)
    IN  OnBurn(made, inputs, tx.outputs)

-----------------------------------------------------------------------------
(* One transaction, then the flush of the caches, then the header. *)

FeeOf(tx) == FoldLeft(LAMBDA n, o : n + (IF o.tree = FeeTree THEN o.value ELSE 0),
                      0, tx.outputs)

(* TREE_TXS and tx_count come from one deduplicated set of trees. *)
TouchTrees(c, trees, gidx) ==
    LET keys == {<<t, gidx>> : t \in trees}
    IN  [c EXCEPT !.d.treeTxs = @ \cup keys,
                  !.undo.treeTxs = @ \cup keys,
                  !.bal = Over([t \in trees |-> [LoadBalance(c, t) EXCEPT !.txCount = @ + 1]], @)]

RecordTx(c, tx, index, gidx, firstOut) ==
    [c EXCEPT !.d.txs = Put(@, tx.id,
                [height |-> c.h, index |-> index, gidx |-> gidx, firstOut |-> firstOut,
                 fee |-> FeeOf(tx), inputs |-> tx.inputs,
                 outputCount |-> Len(tx.outputs)]),
              !.d.txByGidx = Put(@, gidx, tx.id),
              !.undo.txIds = @ \cup {tx.id}]

SpendInputs(c, tx) == FoldLeft(LAMBDA acc, id : SpendInput(acc, id, tx.id), c, tx.inputs)

CreateOutputs(c, tx) == FoldLeft(LAMBDA acc, o : CreateOutput(acc, o, tx.id), c, tx.outputs)

(* What follows the spends: outputs, tokens, trees touched, the row. *)
IndexTx(c, tx, index) ==
    LET gidx     == c.d.nextTx
        firstOut == c.d.nextBox
        inputs   == [i \in DOMAIN tx.inputs |-> c.d.boxes[tx.inputs[i]]]
        trees    == {b.tree : b \in Range(inputs)} \cup {o.tree : o \in Range(tx.outputs)}
        created  == CreateOutputs([c EXCEPT !.d.nextTx = @ + 1], tx)
        tokened  == TokensApplyTx(created, tx, inputs, firstOut)
    IN  IF c.corrupt THEN c
        ELSE RecordTx(TouchTrees(tokened, trees, gidx), tx, index, gidx, firstOut)

ApplyTx(c, tx, index) == IndexTx(SpendInputs(c, tx), tx, index)

(* Extras::finish. *)
FlushTemplates(c) ==
    [c EXCEPT !.d.templates = Over(c.tmpl, @),
              !.undo.newTemplates  = DOMAIN c.tmpl \ DOMAIN c.d.templates,
              !.undo.prevTemplates =
                  Restrict(c.d.templates, DOMAIN c.tmpl \cap DOMAIN c.d.templates)]

(* The first half of Tokens::finish: amounts, the listing keyed by amount. *)
FlushHolders(c) ==
    LET old == c.d.tokenHolderAmt
        zero == {k \in DOMAIN c.hold : c.hold[k] = 0}
    IN  [c EXCEPT
            !.d.tokenHolders =
                (@ \ {<<k[1], old[k], k[2]>> : k \in DOMAIN c.hold \cap DOMAIN old})
                  \cup {<<k[1], c.hold[k], k[2]>> : k \in DOMAIN c.hold \ zero},
            !.d.tokenHolderAmt = Drop(Over(c.hold, @), zero),
            !.undo.prevHolderAmts = [k \in DOMAIN c.hold |-> Lookup(old, k, NoRow)]]

(* Mutant: every tree that holds the token counts as a new holder. *)
HolderDeltaGross(c, token) ==
    Cardinality({k \in DOMAIN c.hold : k[1] = token /\ c.hold[k] > 0})

(* Its second half: only moves between zero and not zero count. *)
HolderDelta(c, token) ==
    LET pairs == {k \in DOMAIN c.hold : k[1] = token}
    IN  Cardinality({k \in pairs : c.hold[k] > 0})
          - Cardinality({k \in pairs : c.undo.prevHolderAmts[k] > 0})

(* The cached rows to TOKENS, and their places in the holder ranking. *)
WriteTokens(c) ==
    LET old == c.d.tokens
    IN  [c EXCEPT
            !.d.tokens = Over(c.tok, @),
            !.d.tokensByHolders =
                (@ \ {<<old[t].holderCount, t>> : t \in DOMAIN c.tok \cap DOMAIN old})
                   \cup {<<c.tok[t].holderCount, t>> : t \in DOMAIN c.tok},
            !.undo.newTokens  = DOMAIN c.tok \ DOMAIN old,
            !.undo.prevTokens = Restrict(old, DOMAIN c.tok \cap DOMAIN old)]

FlushTokens(c) ==
    LET moved == {t \in {k[1] : k \in DOMAIN c.hold} : HolderDelta(c, t) # 0}
    IN  IF \E t \in moved : TokenRowRefused(c, t) THEN Corrupt(c)
        ELSE WriteTokens(
                FoldSet(LAMBDA t, acc : MoveHolders(acc, t, HolderDelta(c, t)), c, moved))

(* TREE_BALANCE and RICH, once per block. *)
FlushBalances(c) ==
    LET old == c.d.treeBalance
    IN  [c EXCEPT
            !.d.rich = (@ \ {<<old[t].nano, t>> : t \in DOMAIN c.bal \cap DOMAIN old})
                          \cup {<<c.bal[t].nano, t>> : t \in {u \in DOMAIN c.bal : c.bal[u].nano > 0}},
            !.d.treeBalance = Over(c.bal, @),
            !.undo.newBalances  = DOMAIN c.bal \ DOMAIN old,
            !.undo.prevBalances = Restrict(old, DOMAIN c.bal \cap DOMAIN old)]

(* Mutant: everything the first transaction pays counts as the reward. *)
BlockRewardGross(d, txs) ==
    IF txs = <<>> THEN 0 ELSE FoldLeft(LAMBDA n, o : n + o.value, 0, txs[1].outputs)

(* block_reward: what the first transaction pays to other trees than the   *)
(* one its first input came from; all but the largest output, if there is  *)
(* no such box in BOXES.                                                   *)
BlockReward(d, txs) ==
    IF txs = <<>> THEN 0
    ELSE LET outputs == txs[1].outputs
             from == {d.boxes[id].tree : id \in Range(SubSeq(txs[1].inputs, 1, 1))
                                                   \cap DOMAIN d.boxes}
             total == FoldLeft(LAMBDA n, o : n + (IF o.tree \in from THEN 0 ELSE o.value),
                               0, outputs)
         IN  IF from # {} THEN total
             ELSE total - Max({o.value : o \in Range(outputs)} \cup {0})

HeaderRow(d, b, firstTx) ==
    [id |-> b, parent |-> Parent[b], txCount |-> Len(Txs[b]), firstTx |-> firstTx,
     fees |-> FoldLeft(LAMBDA n, tx : n + FeeOf(tx), 0, Txs[b]),
     reward |-> BlockReward(d, Txs[b])]

ApplyTxs(c, b) ==
    FoldLeftDomain(LAMBDA acc, i : IF acc.corrupt THEN acc ELSE ApplyTx(acc, Txs[b][i], i - 1),
                   c, Txs[b])

(* The header and the UNDO row of a flushed block that began over d. *)
SealBlock(c, b, d) ==
    [c EXCEPT !.d.headers    = Put(@, c.h, HeaderRow(c.d, b, d.nextTx)),
              !.d.headerById = Put(@, b, c.h),
              !.d.undo       = Put(d.undo, c.h, [c.undo EXCEPT !.prevNextBox = d.nextBox,
                                                               !.prevNextTx  = d.nextTx])]

FinishBlock(c, b, d) ==
    IF c.corrupt THEN c
    ELSE SealBlock(FlushBalances(FlushTokens(FlushHolders(FlushTemplates(c)))), b, d)

(* The tables a block reads and writes before its UNDO row.                *)
Opened(tables) == [tables EXCEPT !.nextBox = OrZero(@), !.nextTx = OrZero(@)]
BlockCtx(tables, b) == NewCtx([Opened(tables) EXCEPT !.undo = <<>>], Height[b])

(* apply_block, then its UNDO row.  The result is a context: its tables    *)
(* count only when it is not corrupt.                                      *)
ApplyBlock(tables, b) ==
    FinishBlock(ApplyTxs(BlockCtx(tables, b), b), b, Opened(tables))

-----------------------------------------------------------------------------
(* seed_genesis.  Balances are written box by box here, by their own rule. *)

SeedBalance(d, o) ==
    LET old == Lookup(d.treeBalance, o.tree,
                 [nano |-> 0, tokens |-> EmptyBag, boxCount |-> 0,
                  firstSeen |-> 0, lastSeen |-> 0, txCount |-> 0])
        new == [old EXCEPT !.nano = @ + o.value, !.boxCount = @ + 1,
                           !.tokens = @ (+) o.tokens]
    IN  [d EXCEPT
            !.rich = (@ \ {<<old.nano, o.tree>>})
                       \cup (IF new.nano > 0 THEN {<<new.nano, o.tree>>} ELSE {}),
            !.treeBalance = Put(@, o.tree, new)]

SeedBox(c, o) ==
    LET gidx == c.d.nextBox
        d == [SeedBalance(InsertOutput(c.d, gidx, o, "genesis"), o) EXCEPT
                !.nextBox = @ + 1, !.ergoTrees = @ \cup {o.tree}]
    IN  TokensOnOutput(ExtrasOnOutput([c EXCEPT !.d = d], gidx, o), gidx, o)

LargestBox(boxes) == CHOOSE o \in Range(boxes) : \A p \in Range(boxes) : p.value <= o.value

SeedTables(tables) ==
    LET c == NewCtx([tables EXCEPT
                !.nextBox = OrZero(@),
                !.genesisToken = UNION {BagToSet(o.tokens) : o \in Range(Genesis)}], 0)
        seeded == FoldLeft(LAMBDA acc, o : SeedBox(acc, o), c, Genesis)
    IN  [FlushTokens(FlushHolders(FlushTemplates(seeded))).d EXCEPT
            !.emissionTree  = IF Genesis = <<>> THEN {} ELSE {LargestBox(Genesis).tree},
            !.genesisSeeded = TRUE]

-----------------------------------------------------------------------------
(* One height of rollback_to, in the order of its numbered steps. *)

(* Step 1: un-create.  Membership keys go while the rows still say them.   *)
UncreateBoxes(d, u) ==
    LET rows == {d.boxes[id] : id \in u.createdBoxes}
        gone == {r.gidx : r \in rows}
        tree == {<<r.tree, r.gidx>> : r \in rows}
        tmpl == {<<Template[r.tree], r.gidx>> : r \in rows}
        toks == UNION {{<<t, r.gidx>> : t \in BagToSet(r.tokens)} : r \in rows}
    IN  [d EXCEPT
            !.boxes = Drop(@, u.createdBoxes), !.boxByGidx = Drop(@, gone),
            !.treeBoxes = @ \ tree, !.treeUnspent = @ \ tree,
            !.rentMatures = {k \in @ : k[3] \notin u.createdBoxes},
            !.templateBoxes = @ \ tmpl, !.templateUnspent = @ \ tmpl,
            !.tokenBoxes = @ \ toks, !.tokenUnspent = @ \ toks]

(* Step 2: un-spend what is still there; a box made and spent by the same  *)
(* block went in step 1.                                                   *)
UnspendBoxes(d, u) ==
    LET ids  == u.spentBoxes \cap DOMAIN d.boxes
        rows == {d.boxes[id] : id \in ids}
    IN  [d EXCEPT
            !.boxes = [id \in DOMAIN @ |->
                IF id \in ids THEN [@[id] EXCEPT !.spent = Unspent] ELSE @[id]],
            !.treeUnspent = @ \cup {<<r.tree, r.gidx>> : r \in rows},
            !.rentMatures = @ \cup
                {<<MaturityHeight(d.boxes[id].creation), d.boxes[id].gidx, id>> : id \in ids},
            !.templateUnspent = @ \cup {<<Template[r.tree], r.gidx>> : r \in rows},
            !.tokenUnspent = @ \cup
                UNION {{<<t, r.gidx>> : t \in BagToSet(r.tokens)} : r \in rows}]

(* Mutant: the per-tree transaction list keeps its rows. *)
RemoveTxsOnly(d, u) ==
    [d EXCEPT !.txs = Drop(@, u.txIds),
              !.txByGidx = Drop(@, {d.txs[id].gidx : id \in u.txIds})]

(* Step 3. *)
RemoveTxs(d, u) ==
    [d EXCEPT !.txs = Drop(@, u.txIds),
              !.txByGidx = Drop(@, {d.txs[id].gidx : id \in u.txIds}),
              !.treeTxs = @ \ u.treeTxs]

(* Mutant: the rank of the undone balance stays. *)
RestoreBalancesKeepRank(d, u) ==
    [d EXCEPT
        !.rich = @ \cup {<<u.prevBalances[t].nano, t>> :
                    t \in {v \in DOMAIN u.prevBalances : u.prevBalances[v].nano > 0}},
        !.treeBalance = Over(u.prevBalances, Drop(@, u.newBalances))]

(* Step 4: balances from the snapshot. *)
RestoreBalances(d, u) ==
    LET touched == u.newBalances \cup DOMAIN u.prevBalances
    IN  [d EXCEPT
            !.rich = (@ \ {<<d.treeBalance[t].nano, t>> : t \in touched})
                        \cup {<<u.prevBalances[t].nano, t>> :
                                t \in {v \in DOMAIN u.prevBalances : u.prevBalances[v].nano > 0}},
            !.treeBalance = Over(u.prevBalances, Drop(@, u.newBalances))]

(* Step 4b: registers, holders, token rows, templates. *)
RestoreHolders(d, u) ==
    LET prev == u.prevHolderAmts
        none == {k \in DOMAIN prev : prev[k] = NoRow}
    IN  [d EXCEPT
            !.tokenHolders =
                (@ \ {<<k[1], d.tokenHolderAmt[k], k[2]>> :
                        k \in DOMAIN prev \cap DOMAIN d.tokenHolderAmt})
                  \cup {<<k[1], prev[k], k[2]>> : k \in DOMAIN prev \ none},
            !.tokenHolderAmt = Drop(Over(prev, @), none)]

RestoreTokens(d, u) ==
    LET prev == u.prevTokens
        touched == u.newTokens \cup DOMAIN prev
    IN  [d EXCEPT
            !.tokensByHolders =
                (@ \ {<<d.tokens[t].holderCount, t>> : t \in touched})
                   \cup {<<prev[t].holderCount, t>> : t \in DOMAIN prev},
            !.tokensByGidx = Drop(@, {d.tokens[t].mintGidx : t \in u.newTokens}),
            !.tokens = Over(prev, Drop(@, u.newTokens))]

(* Mutant: templates first seen in the undone block stay. *)
RestoreTemplatesKeep(d, u) == [d EXCEPT !.templates = Over(u.prevTemplates, @)]

RestoreTemplates(d, u) ==
    [d EXCEPT !.templates = Drop(Over(u.prevTemplates, @), u.newTemplates)]

(* Mutant: the counters stay where the undone block left them. *)
RemoveHeaderOnly(d, u, h) ==
    [d EXCEPT !.headerById = Drop(@, {d.headers[h].id}),
              !.headers = Drop(@, {h}), !.undo = Drop(@, {h})]

(* Step 6: the header, the undo row and the counters. *)
RemoveHeader(d, u, h) ==
    [d EXCEPT !.headerById = Drop(@, {d.headers[h].id}),
              !.headers = Drop(@, {h}),
              !.undo = Drop(@, {h}),
              !.nextBox = u.prevNextBox,
              !.nextTx = u.prevNextTx]

(* Every row an undo row names must be there; anything else is Corrupt.    *)
UndoCorrupt(d, u) ==
    \/ ~ (u.createdBoxes \subseteq DOMAIN d.boxes)
    \/ ~ (u.spentBoxes \subseteq DOMAIN d.boxes)
    \/ \E id \in u.createdBoxes \cup u.spentBoxes : d.boxes[id].tree \notin d.ergoTrees
    \/ ~ (u.txIds \subseteq DOMAIN d.txs)
    \/ ~ (u.newBalances \cup DOMAIN u.prevBalances \subseteq DOMAIN d.treeBalance)
    \/ ~ (u.newTokens \cup DOMAIN u.prevTokens \subseteq DOMAIN d.tokens)

UndoBlock(d, h) ==
    LET u  == d.undo[h]
        d1 == RemoveTxs(UnspendBoxes(UncreateBoxes(d, u), u), u)
        d2 == [RestoreBalances(d1, u) EXCEPT !.registerIdx = @ \ u.registerKeys]
        d3 == RestoreTemplates(RestoreTokens(RestoreHolders(d2, u), u), u)
        d4 == [d3 EXCEPT !.ergoTrees = @ \ u.newTrees]
    IN  RemoveHeader(d4, u, h)
=============================================================================
