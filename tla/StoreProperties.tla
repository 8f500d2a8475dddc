-------------------------- MODULE StoreProperties --------------------------
(***************************************************************************)
(* What the tables of Store must say.  The ledger below is read off the    *)
(* chain's own transactions, with none of the store's bookkeeping; each    *)
(* property compares a group of tables with it in every reachable state,   *)
(* after any mix of batches, rollbacks and crashes.                        *)
(***************************************************************************)
EXTENDS Store

T == db.tables

(* The transactions of a chain, its boxes in gidx order, and which of them *)
(* no transaction spends.                                                  *)
Ledger(chain) ==
    LET placed  == FlattenSeq([h \in DOMAIN chain |-> Txs[chain[h]]])
        created == Genesis \o FlattenSeq([k \in DOMAIN placed |-> placed[k].outputs])
        spent   == UNION {Range(placed[k].inputs) : k \in DOMAIN placed}
    IN  [placed  |-> placed,
         created |-> created,
         utxo    |-> {k \in DOMAIN created : created[k].id \notin spent}]

NoLedger == [placed |-> <<>>, created |-> <<>>, utxo |-> {}]

L == IF T.genesisSeeded THEN Ledger(Chain(T)) ELSE NoLedger

UtxoOf(l, tree) == {k \in l.utxo : l.created[k].tree = tree}

AmountOn(l, ks, token) ==
    MapThenSumSet(LAMBDA k : Copies(token, l.created[k].tokens), ks)

TokensSeen(l) == UNION {BagToSet(l.created[k].tokens) : k \in DOMAIN l.created}

TreesSeen(l) == {l.created[k].tree : k \in DOMAIN l.created}

TreesOfTx(l, tx) ==
    {l.created[k].tree : k \in {j \in DOMAIN l.created :
        l.created[j].id \in Range(tx.inputs) \cup {o.id : o \in Range(tx.outputs)}}}

TxsTouching(l, tree) == {k \in DOMAIN l.placed : tree \in TreesOfTx(l, l.placed[k])}

(* The rows a membership table over the boxes ks should have.              *)
Members(l, ks, key(_)) == UNION {{<<x, k - 1>> : x \in key(l.created[k])} : k \in ks}

-----------------------------------------------------------------------------
(* The type invariant: counters, rows and undo rows within their types.    *)
TypeOK ==
    /\ DOMAIN T.headers = 1..IndexedHeight(T)
    /\ DOMAIN T.undo \subseteq DOMAIN T.headers
    /\ T.nextBox \in Nat \cup {NoRow} /\ T.nextTx \in Nat \cup {NoRow}
    /\ T.genesisSeeded \in BOOLEAN
    /\ \A tree \in DOMAIN T.treeBalance :
          /\ T.treeBalance[tree].nano \in Nat
          /\ T.treeBalance[tree].txCount \in Nat
          /\ IsABag(T.treeBalance[tree].tokens)
    /\ \A t \in DOMAIN T.tokens : T.tokens[t].holderCount \in Nat
    /\ \A k \in DOMAIN T.tokenHolderAmt : T.tokenHolderAmt[k] \in Nat \ {0}
    /\ db.peak \in Nat /\ disk.peak \in Nat

(* BOXES and every index over it hold exactly the created boxes, numbered  *)
(* without gaps in creation order, and the unspent sets exactly the boxes  *)
(* no transaction of the chain spends: apply_block's spend and create      *)
(* loops against rollback steps 1 and 2, same-block spends included.       *)
BoxIndexesExact ==
    LET l   == L
        all == DOMAIN l.created
    IN  /\ T.boxByGidx = [g \in {k - 1 : k \in all} |-> l.created[g + 1].id]
        /\ DOMAIN T.boxes = {l.created[k].id : k \in all}
        /\ OrZero(T.nextBox) = Len(l.created)
        /\ \A k \in all :
              /\ T.boxes[l.created[k].id].gidx = k - 1
              /\ (T.boxes[l.created[k].id].spent = Unspent) <=> k \in l.utxo
        /\ T.treeBoxes    = Members(l, all, LAMBDA o : {o.tree})
        /\ T.treeUnspent  = Members(l, l.utxo, LAMBDA o : {o.tree})
        /\ T.tokenBoxes   = Members(l, all, LAMBDA o : BagToSet(o.tokens))
        /\ T.tokenUnspent = Members(l, l.utxo, LAMBDA o : BagToSet(o.tokens))
        /\ T.rentMatures =
              {<<MaturityHeight(l.created[k].creation), k - 1, l.created[k].id>> : k \in l.utxo}

(* A tree's balance is the sum over its unspent boxes, its tx_count the    *)
(* number of transactions touching it, and the rich list ranks exactly the *)
(* trees that hold value: the per-block balance cache, its flush and the   *)
(* undo snapshot.                                                          *)
BalancesExact ==
    LET l     == L
        trees == TreesSeen(l)
        exact(tree, row, mine) ==
            /\ row.nano = MapThenSumSet(LAMBDA k : l.created[k].value, mine)
            /\ row.boxCount = Cardinality(mine)
            /\ \A t \in TokensSeen(l) : Copies(t, row.tokens) = AmountOn(l, mine, t)
            /\ row.txCount = Cardinality(TxsTouching(l, tree))
    IN  /\ DOMAIN T.treeBalance = trees
        /\ \A tree \in trees : exact(tree, T.treeBalance[tree], UtxoOf(l, tree))
        /\ T.rich = {<<T.treeBalance[tree].nano, tree>> :
                        tree \in {u \in trees : T.treeBalance[u].nano > 0}}
        /\ T.treeTxs = UNION {{<<tree, k - 1>> : k \in TxsTouching(l, tree)} : tree \in trees}

(* Each token's supply is conserved (minted less burned is what unspent    *)
(* boxes hold), its holders are the trees holding it, counted, listed by   *)
(* amount, and ranked: the mint, spend, output, burn and flush rules of    *)
(* tokens.rs across blocks and rollbacks, two branches minting the same id *)
(* included.                                                               *)
TokensExact ==
    LET l    == L
        held == [p \in TokensSeen(l) \X TreesSeen(l) |-> AmountOn(l, UtxoOf(l, p[2]), p[1])]
        holding == RestrictValues(held, LAMBDA n : n > 0)
        rows == T.tokens
    IN  /\ DOMAIN rows = TokensSeen(l) \ T.genesisToken
        /\ \A t \in DOMAIN rows :
              /\ rows[t].emission - rows[t].burned = AmountOn(l, l.utxo, t)
              /\ rows[t].holderCount = Cardinality({p \in DOMAIN holding : p[1] = t})
              /\ rows[t].boxCount =
                    Cardinality({k \in DOMAIN l.created : BagIn(t, l.created[k].tokens)})
              /\ T.tokensByGidx[rows[t].mintGidx] = t
        /\ Cardinality(DOMAIN T.tokensByGidx) = Cardinality(DOMAIN rows)
        /\ T.tokensByHolders = {<<rows[t].holderCount, t>> : t \in DOMAIN rows}
        /\ T.tokenHolderAmt = holding
        /\ T.tokenHolders = {<<p[1], holding[p], p[2]>> : p \in DOMAIN holding}

(* Template counts, members and registers, and where a template was first  *)
(* seen, follow the chain: extras.rs against rollback steps 1, 2 and 4b.   *)
TemplatesExact ==
    LET l     == L
        all   == DOMAIN l.created
        of(k) == Template[l.created[k].tree]
    IN  /\ DOMAIN T.templates = {of(k) : k \in all}
        /\ \A m \in DOMAIN T.templates :
              LET row == T.templates[m]
                  boxes == {k \in all : of(k) = m}
              IN  /\ row.boxCount = Cardinality(boxes)
                  /\ row.unspentCount = Cardinality(boxes \cap l.utxo)
                  /\ row.exampleTree = l.created[Min(boxes)].tree
        /\ T.templateBoxes   = Members(l, all, LAMBDA o : {Template[o.tree]})
        /\ T.templateUnspent = Members(l, l.utxo, LAMBDA o : {Template[o.tree]})
        /\ T.registerIdx = UNION {{<<r[1], r[2], k - 1>> : r \in l.created[k].registers} :
                                    k \in all}
        /\ T.ergoTrees = TreesSeen(l)

(* Rewards and the emission contract are two views of one quantity: the    *)
(* rewards of the indexed headers add up to what left the emission tree    *)
(* since genesis (while every block opens with an emission transaction).   *)
RewardsDrainEmission ==
    \A tree \in T.emissionTree :
        FoldLeft(LAMBDA n, o : n + (IF o.tree = tree THEN o.value ELSE 0), 0, Genesis)
            - T.treeBalance[tree].nano
          = MapThenSumSet(LAMBDA h : T.headers[h].reward, DOMAIN T.headers)

(* Whatever was applied, refused, undone and applied again, every derived  *)
(* table is of its type and says exactly what the chain's own transactions *)
(* say: the groups above, which one transaction must move together.        *)
TablesExact == /\ TypeOK /\ BoxIndexesExact /\ BalancesExact
               /\ TokensExact /\ TemplatesExact /\ RewardsDrainEmission

(* The tables a fresh sync of the same chain would produce.                *)
Replay(chain) ==
    IF ~ T.genesisSeeded THEN NoTables
    ELSE FoldLeft(LAMBDA d, b : ApplyBlock(d, b).d, SeedTables(NoTables), chain)

Indexed(tables) == [tables EXCEPT !.undo = <<>>, !.nextTx = OrZero(@)]

(* Whatever was indexed, undone and indexed again, every table but UNDO is *)
(* what a fresh sync of the present chain would have written: rollback_to  *)
(* undoes apply_block exactly, row by row.                                 *)
RollbackRestores == Indexed(T) = Indexed(Replay(Chain(T)))

(* Counting before the transaction is enough: the register index never     *)
(* reaches the operator's ceiling (one of 0 keeps it empty), so open never *)
(* refuses the store either.                                               *)
CapacityRespected ==
    Ceiling # NoRow =>
        \A d \in {db, disk} : \/ d.tables.registerIdx = {}
                             \/ Cardinality(d.tables.registerIdx) < Ceiling

(* Store implements ChainStore. *)
ImplementsChainStore == Abs!Spec
=============================================================================
