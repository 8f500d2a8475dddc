-------------------------------- MODULE Sweep --------------------------------
(***************************************************************************)
(* The offline integrity sweep (xp-store examples/integrity-sweep.rs): a   *)
(* walk over every table of a quiesced store that looks each reference up  *)
(* and reports the rules R1-R28 that fail, each with the row it failed at. *)
(* Rules that read the same row are one operator.  The store is a full one *)
(* (META_PARTIAL_FROM absent), so the two permitted gaps never apply;      *)
(* whether stored register JSON parses (R9) is left out.                   *)
(***************************************************************************)
EXTENDS Readers

Fail(rule, rows) == {<<rule, row>> : row \in rows}

(* required: the rows among rows whose reference is not there. *)
Dangling(rows, target(_), table) == {r \in rows : target(r) \notin table}

(* box_ref: through BOX_BY_GIDX to a box with that gidx. *)
BoxRefOk(d, g) == BoxSound(d, g) /\ d.boxes[BoxIdAt(d, g)].gidx = g

(* R28, R20, R1, R19, R4: counters, the tip, one header to each height, a  *)
(* transaction to each number given out.                                   *)
CountersSweep(d, tip) ==
    Fail("R28", IF (tip > 0 \/ d.genesisSeeded) /\ d.nextBox = NoRow THEN {"nextBox"} ELSE {})
    \cup Fail("R28", IF tip > 0 /\ d.nextTx = NoRow THEN {"nextTx"} ELSE {})
    \cup Fail("R1", Dangling(1..tip, LAMBDA h : h, DOMAIN d.headers))
    \cup Fail("R4", Dangling(0..(OrZero(d.nextTx) - 1), LAMBDA g : g, DOMAIN d.txByGidx))

(* R4, R2: each header's range of transactions, and the way back to it.    *)
HeadersSweep(d) ==
    LET range(h) == d.headers[h].firstTx..(d.headers[h].firstTx + d.headers[h].txCount - 1)
        wrong(h, g) == \/ g \notin DOMAIN d.txByGidx
                       \/ /\ d.txByGidx[g] \in DOMAIN d.txs
                          /\ LET tx == d.txs[d.txByGidx[g]]
                             IN  \/ tx.height # h
                                 \/ tx.index # g - d.headers[h].firstTx
                                 \/ tx.gidx # g
    IN  Fail("R4", {h \in DOMAIN d.headers : \E g \in range(h) : wrong(h, g)})
        \cup Fail("R2", {id \in DOMAIN d.headerById :
                \/ d.headerById[id] \notin DOMAIN d.headers
                \/ d.headers[d.headerById[id]].id # id})

(* R3, R4: the transaction indexes; R5: outputs; R8, R21: inputs.          *)
TxsSweep(d) ==
    LET outputs(tx) == d.txs[tx].firstOut..(d.txs[tx].firstOut + d.txs[tx].outputCount - 1)
    IN  Fail("R3", {g \in DOMAIN d.txByGidx : ~ TxSound(d, g)})
        \cup Fail("R3", {k \in d.treeTxs : \/ k[2] \notin DOMAIN d.txByGidx
                                           \/ d.txByGidx[k[2]] \notin DOMAIN d.txs})
        \cup Fail("R5", {tx \in DOMAIN d.txs : \E g \in outputs(tx) :
                \/ ~ BoxRefOk(d, g)
                \/ d.boxes[BoxIdAt(d, g)].tx # tx})
        \cup Fail("R8", {tx \in DOMAIN d.txs : ~ (Range(d.txs[tx].inputs) \subseteq DOMAIN d.boxes)})

(* R6: every membership index; R19: the tree it files a box under; R17: a  *)
(* maturing box is live.                                                   *)
MembersSweep(d) ==
    LET gidxs(index) == {k[Len(k)] : k \in index}
        rent == {k[2] : k \in d.rentMatures}
        all == gidxs(d.treeBoxes) \cup gidxs(d.treeUnspent)
                 \cup gidxs(d.templateBoxes) \cup gidxs(d.templateUnspent)
                 \cup gidxs(d.tokenBoxes) \cup gidxs(d.tokenUnspent)
                 \cup gidxs(d.registerIdx) \cup rent
    IN  Fail("R6", {g \in all : ~ BoxRefOk(d, g)})
        \cup Fail("R6", {g \in DOMAIN d.boxByGidx : ~ BoxSound(d, g)})
        \cup Fail("R19", {k \in d.treeBoxes : BoxSound(d, k[2])
                              /\ d.boxes[BoxIdAt(d, k[2])].tree # k[1]})
        \cup Fail("R17", {g \in rent : BoxSound(d, g)
                              /\ d.boxes[BoxIdAt(d, g)].spent # Unspent})

(* R7, R22: a box's tree; R19: its place in the index and its creator.     *)
BoxesSweep(d) ==
    Fail("R7", Dangling(DOMAIN d.boxes, LAMBDA id : d.boxes[id].tree, d.ergoTrees))
    \cup Fail("R19", {id \in DOMAIN d.boxes :
            LET row == d.boxes[id]
            IN  \/ ~ BoxRefOk(d, row.gidx)
                \/ BoxIdAt(d, row.gidx) # id
                \/ row.tx # "genesis" /\ row.tx \notin DOMAIN d.txs
                \/ /\ row.tx = "genesis" /\ MainnetGenesis(d)
                   /\ \A o \in Range(Genesis) : o.id # id})

(* R11, R27: the tokens that boxes and balances carry without a row.       *)
AssetsSweep(d) ==
    LET carried == UNION {BagToSet(d.boxes[id].tokens) : id \in DOMAIN d.boxes}
                     \cup UNION {BagToSet(d.treeBalance[t].tokens) : t \in DOMAIN d.treeBalance}
    IN  Fail("R11", Dangling(carried, LAMBDA t : t, DOMAIN d.tokens))

(* R12: a balance for each tree; R14, R15, R10, R16: the rankings and the  *)
(* listings agree with the rows they rank.                                 *)
RankingsSweep(d) ==
    Fail("R12", Dangling(d.ergoTrees, LAMBDA t : t, DOMAIN d.treeBalance))
    \cup Fail("R14", {k \in d.rich : \/ k[2] \notin d.ergoTrees \cap DOMAIN d.treeBalance
                                     \/ d.treeBalance[k[2]].nano # k[1]})
    \cup Fail("R15", {k \in d.tokenHolders :
            \/ k[3] \notin d.ergoTrees
            \/ <<k[1], k[3]>> \notin DOMAIN d.tokenHolderAmt
            \/ d.tokenHolderAmt[<<k[1], k[3]>>] # k[2]})
    \cup Fail("R10", Dangling(DOMAIN d.tokensByGidx, LAMBDA g : d.tokensByGidx[g], DOMAIN d.tokens))
    \cup Fail("R10", Dangling(d.tokensByHolders, LAMBDA k : k[2], DOMAIN d.tokens))
    \cup Fail("R16", Dangling(DOMAIN d.templates, LAMBDA m : d.templates[m].exampleTree, d.ergoTrees))

GenesisTotal == FoldLeft(LAMBDA n, o : n + o.value, 0, Genesis)

(* R18: the recognized emission contract, and no more in it than there was. *)
EmissionSweep(d) ==
    LET tree == Genesis[1].tree
    IN  Fail("R18", IF /\ MainnetGenesis(d) /\ Genesis # <<>>
                       /\ \/ d.emissionTree # {tree}
                          \/ tree \notin DOMAIN d.treeBalance
                          \/ d.treeBalance[tree].nano > GenesisTotal
                    THEN {tree} ELSE {})

(* R23-R26: all that a retained undo row names must still be there, boxes  *)
(* the same block made and spent included.                                 *)
UndoSweep(d) ==
    LET u(h) == d.undo[h]
    IN  Fail("R23", {h \in DOMAIN d.undo : \/ h \notin DOMAIN d.headers
                                           \/ ~ (u(h).createdBoxes \subseteq DOMAIN d.boxes)
                                           \/ ~ (u(h).txIds \subseteq DOMAIN d.txs)})
        \cup Fail("R24", {h \in DOMAIN d.undo : ~ (u(h).spentBoxes \subseteq DOMAIN d.boxes)})
        \cup Fail("R25", {h \in DOMAIN d.undo :
                ~ (u(h).newTokens \cup DOMAIN u(h).prevTokens \subseteq DOMAIN d.tokens)})
        \cup Fail("R26", {h \in DOMAIN d.undo :
                ~ (DOMAIN u(h).prevBalances \subseteq DOMAIN d.treeBalance)})

(* scan: all findings. *)
Findings(d) ==
    CountersSweep(d, IndexedTip(d)) \cup HeadersSweep(d) \cup TxsSweep(d)
        \cup MembersSweep(d) \cup BoxesSweep(d) \cup AssetsSweep(d)
        \cup RankingsSweep(d) \cup EmissionSweep(d) \cup UndoSweep(d)
=============================================================================
