---------------------------- MODULE StoreProofs -----------------------------
(***************************************************************************)
(* Store implements ChainStore for every chain, window, ceiling and set of *)
(* batches, whatever the blocks contain, and its register index stays      *)
(* below the ceiling.                                                      *)
(*                                                                         *)
(* The argument is about the rows an undo needs.  Moves says what any part *)
(* of apply_block may do to a block in progress; it composes, so each      *)
(* helper is looked at once and the loops follow by FoldTheory.  StoreInv  *)
(* says what the tables owe between transactions: every undo row names     *)
(* rows that are there once the blocks above it are undone.                *)
(*                                                                         *)
(* What rollback_to takes back comes first.  Sealed says how the tables of *)
(* an indexed block differ from those it began over, in terms of what its  *)
(* undo row names; whatever differs so, UndoBlock restores, one table      *)
(* after the other.                                                        *)
(***************************************************************************)
EXTENDS StoreProperties, FiniteSetTheorems, SequenceTheorems, TLAPS

(* The tables. *)
TableKeys == {"headers", "headerById", "undo", "nextBox", "nextTx", "genesisSeeded",
              "genesisToken", "emissionTree", "boxes", "boxByGidx", "ergoTrees",
              "treeBoxes", "treeUnspent", "treeTxs", "rentMatures", "txs", "txByGidx",
              "treeBalance", "rich", "templates", "templateBoxes", "templateUnspent",
              "registerIdx", "tokens", "tokensByGidx", "tokensByHolders", "tokenBoxes",
              "tokenUnspent", "tokenHolders", "tokenHolderAmt"}

-----------------------------------------------------------------------------
(* The rows the index tables keep for a box, kind by kind.                 *)

Kinds == {"tree", "template", "token", "rent"}

KeysOf(kind, row, id) ==
    IF kind = "tree" THEN {<<row.tree, row.gidx>>}
    ELSE IF kind = "template" THEN {<<Template[row.tree], row.gidx>>}
    ELSE IF kind = "token" THEN {<<t, row.gidx>> : t \in BagToSet(row.tokens)}
    ELSE {<<MaturityHeight(row.creation), row.gidx, id>>}

(* The tables of the unspent boxes, and those of all boxes.                *)
Open(kind, d) ==
    IF kind = "tree" THEN d.treeUnspent
    ELSE IF kind = "template" THEN d.templateUnspent
    ELSE IF kind = "token" THEN d.tokenUnspent
    ELSE d.rentMatures

Every(kind, d) ==
    IF kind = "tree" THEN d.treeBoxes
    ELSE IF kind = "template" THEN d.templateBoxes
    ELSE IF kind = "token" THEN d.tokenBoxes
    ELSE {}

Held(kind, boxes, ids) == UNION {KeysOf(kind, boxes[id], id) : id \in ids}

RowKeys == {"gidx", "value", "tree", "creation", "tx", "tokens", "spent"}

IsTable(f) == f = [x \in DOMAIN f |-> f[x]]
IsRow(r) == DOMAIN r = RowKeys /\ IsTable(r)

(* Boxes are numbered below nextBox, each number back to its box.          *)
Numbered(d) ==
    /\ IsTable(d.boxes) /\ IsTable(d.boxByGidx) /\ d.nextBox \in Nat
    /\ \A id \in DOMAIN d.boxes :
          /\ IsRow(d.boxes[id]) /\ IsABag(d.boxes[id].tokens)
          /\ d.boxes[id].gidx \in Nat /\ d.boxes[id].gidx < d.nextBox
          /\ d.boxes[id].gidx \in DOMAIN d.boxByGidx
          /\ d.boxByGidx[d.boxes[id].gidx] = id
    /\ \A g \in DOMAIN d.boxByGidx : g \in Nat /\ g < d.nextBox

(* No table speaks of a number not given out yet.                          *)
Bounded(d) ==
    /\ \A kind \in Kinds : \A k \in Open(kind, d) \cup Every(kind, d) :
          k[2] \in Nat /\ k[2] < d.nextBox
    /\ \A k \in d.rentMatures : k[3] \in DOMAIN d.boxes
    /\ \A k \in d.registerIdx : k[3] \in Nat /\ k[3] < d.nextBox

(* Unspent boxes are listed, except the tokens of those of pending.        *)
Listed(d, pending) ==
    \A id \in DOMAIN d.boxes : d.boxes[id].spent = Unspent =>
        \A kind \in Kinds : \/ kind = "token" /\ id \in pending
                            \/ KeysOf(kind, d.boxes[id], id) \subseteq Open(kind, d)

BoxOK(d, pending) == Numbered(d) /\ Bounded(d) /\ Listed(d, pending)

-----------------------------------------------------------------------------
(* What a block in progress, c, made of the boxes of d, in terms of what   *)
(* its undo row names.                                                     *)

BoxesSince(d, e, made, spent) ==
    /\ made \cap DOMAIN d.boxes = {}
    /\ DOMAIN e.boxes = DOMAIN d.boxes \cup made
    /\ d.nextBox <= e.nextBox
    /\ \A id \in DOMAIN d.boxes :
          IF id \in spent
          THEN /\ d.boxes[id].spent = Unspent
               /\ d.boxes[id] = [e.boxes[id] EXCEPT !.spent = Unspent]
          ELSE e.boxes[id] = d.boxes[id]
    /\ \A id \in made : d.nextBox <= e.boxes[id].gidx
    /\ \A id \in spent : id \in DOMAIN e.boxes /\ e.boxes[id].spent # Unspent

NumbersSince(d, e, made) ==
    /\ \A g \in DOMAIN d.boxByGidx :
          g \in DOMAIN e.boxByGidx /\ e.boxByGidx[g] = d.boxByGidx[g]
    /\ \A g \in DOMAIN e.boxByGidx :
          g \in DOMAIN d.boxByGidx \/ \E id \in made : e.boxes[id].gidx = g

(* X, once X0, lost at most the keys of gone, which it had, and won at most *)
(* those of come.                                                          *)
Shuffled(X0, X, come, gone) ==
    X \subseteq X0 \cup come /\ X0 \subseteq X \cup gone /\ gone \subseteq X0

OpenSince(d, e, made, spent) ==
    \A kind \in Kinds :
        Shuffled(Open(kind, d), Open(kind, e), Held(kind, e.boxes, made),
                 Held(kind, e.boxes, spent \cap DOMAIN d.boxes))

EverySince(d, e, made) ==
    \A kind \in Kinds :
        Shuffled(Every(kind, d), Every(kind, e), Held(kind, e.boxes, made), {})

RegistersSince(d, e, keys) ==
    /\ Shuffled(d.registerIdx, e.registerIdx, keys, {})
    /\ \A k \in keys : k[3] \in Nat /\ d.nextBox <= k[3] /\ k[3] < e.nextBox

(* u needs createdBoxes, spentBoxes, registerKeys.                         *)
BoxSince(d, e, u) ==
    /\ BoxesSince(d, e, u.createdBoxes, u.spentBoxes)
    /\ NumbersSince(d, e, u.createdBoxes)
    /\ OpenSince(d, e, u.createdBoxes, u.spentBoxes)
    /\ EverySince(d, e, u.createdBoxes)
    /\ RegistersSince(d, e, u.registerKeys)

-----------------------------------------------------------------------------
(* Rows that only differ in spent have the same keys.                      *)

SameRow(r, s) == DOMAIN r = RowKeys /\ DOMAIN s = RowKeys
                    /\ \A f \in RowKeys \ {"spent"} : r[f] = s[f]

LEMMA SameKeys ==
    ASSUME NEW r, NEW s, SameRow(r, s), NEW kind, NEW id
    PROVE  KeysOf(kind, r, id) = KeysOf(kind, s, id) /\ r.gidx = s.gidx
<1>1. r.tree = s.tree /\ r.gidx = s.gidx /\ r.tokens = s.tokens /\ r.creation = s.creation
    BY DEF SameRow, RowKeys
<1> QED BY <1>1, Zenon DEF KeysOf

(* Every key of a box carries its number.                                  *)
LEMMA KeyNumber ==
    ASSUME NEW row, NEW kind, NEW id, NEW k \in KeysOf(kind, row, id)
    PROVE  k[2] = row.gidx
BY DEF KeysOf

LEMMA HeldSame ==
    ASSUME NEW f, NEW g, NEW ids, \A id \in ids : SameRow(f[id], g[id]), NEW kind
    PROVE  Held(kind, f, ids) = Held(kind, g, ids)
<1>1. \A id \in ids : KeysOf(kind, f[id], id) = KeysOf(kind, g[id], id)
    BY SameKeys
<1> QED BY <1>1 DEF Held

LEMMA HeldMore ==
    ASSUME NEW f, NEW ids, NEW id, NEW kind
    PROVE  Held(kind, f, ids \cup {id}) = Held(kind, f, ids) \cup KeysOf(kind, f[id], id)
BY DEF Held

LEMMA HeldIn ==
    ASSUME NEW f, NEW ids, NEW id \in ids, NEW kind
    PROVE  KeysOf(kind, f[id], id) \subseteq Held(kind, f, ids)
BY DEF Held
-----------------------------------------------------------------------------
BoxBase(d, e, u) == BoxOK(d, {}) /\ Numbered(e) /\ BoxSince(d, e, u)

(* A box of the block has no key of before.                                *)
LEMMA NewApart ==
    ASSUME NEW d, NEW e, NEW u, BoxBase(d, e, u), NEW id \in u.createdBoxes,
           NEW kind \in Kinds
    PROVE  KeysOf(kind, e.boxes[id], id) \cap (Open(kind, d) \cup Every(kind, d)) = {}
<1>1. /\ d.nextBox <= e.boxes[id].gidx /\ id \in DOMAIN e.boxes
    BY DEF BoxBase, BoxSince, BoxesSince
<1>2. e.boxes[id].gidx \in Nat /\ d.nextBox \in Nat
    BY <1>1 DEF BoxBase, BoxOK, Numbered
<1>3. \A k \in Open(kind, d) \cup Every(kind, d) : k[2] \in Nat /\ k[2] < d.nextBox
    BY DEF BoxBase, BoxOK, Bounded
<1> QED BY <1>1, <1>2, <1>3, KeyNumber

-----------------------------------------------------------------------------
(* The other tables: transactions, trees, minted tokens, the holder cache, *)
(* and what only the flush at the end of a block writes.                   *)

TxOK(d) ==
    /\ IsTable(d.txs) /\ IsTable(d.txByGidx) /\ d.nextTx \in Nat
    /\ \A g \in DOMAIN d.txByGidx : g \in Nat /\ g < d.nextTx
    /\ \A k \in d.treeTxs : k[2] \in Nat /\ k[2] < d.nextTx

TxSince(d, e, ids, keys) ==
    /\ d.nextTx <= e.nextTx
    /\ ids \cap DOMAIN d.txs = {} /\ DOMAIN e.txs = DOMAIN d.txs \cup ids
    /\ \A id \in DOMAIN d.txs : e.txs[id] = d.txs[id]
    /\ \A id \in ids : d.nextTx <= e.txs[id].gidx
    /\ \A g \in DOMAIN d.txByGidx :
          g \in DOMAIN e.txByGidx /\ e.txByGidx[g] = d.txByGidx[g]
    /\ \A g \in DOMAIN e.txByGidx :
          g \in DOMAIN d.txByGidx \/ \E id \in ids : e.txs[id].gidx = g
    /\ Shuffled(d.treeTxs, e.treeTxs, keys, {})
    /\ \A k \in keys : k[2] \in Nat /\ d.nextTx <= k[2]

TreesSince(d, e, new) == e.ergoTrees = d.ergoTrees \cup new /\ new \cap d.ergoTrees = {}

(* A minted token has its place, and a row with that place in the cache.   *)
MintOK(d) == /\ IsTable(d.tokensByGidx)
             /\ \A g \in DOMAIN d.tokensByGidx : g \in Nat /\ g < d.nextBox

NewRows(d, tok) == DOMAIN tok \ DOMAIN d.tokens

MintSince(d, e, tok) ==
    /\ \A g \in DOMAIN d.tokensByGidx :
          g \in DOMAIN e.tokensByGidx /\ e.tokensByGidx[g] = d.tokensByGidx[g]
    /\ \A g \in DOMAIN e.tokensByGidx :
          g \in DOMAIN d.tokensByGidx \/ \E t \in NewRows(d, tok) : tok[t].mintGidx = g
    /\ \A t \in NewRows(d, tok) :
          "mintGidx" \in DOMAIN tok[t] /\ d.nextBox <= tok[t].mintGidx

IsAmounts(hold) == \A k \in DOMAIN hold : hold[k] \in Nat /\ k = <<k[1], k[2]>>

Ready(d) == BoxOK(d, {}) /\ TxOK(d) /\ MintOK(d) /\ IsAmounts(d.tokenHolderAmt)

-----------------------------------------------------------------------------
(* g is f but for the values at S.                                         *)

Differ(f, g, S) == DOMAIN g = DOMAIN f /\ \A x \in DOMAIN f \ S : g[x] = f[x]

LEMMA DifferTrans ==
    ASSUME NEW f, NEW g, NEW h, NEW S, NEW R, Differ(f, g, S), Differ(g, h, R)
    PROVE  Differ(f, h, S \cup R)
BY DEF Differ

-----------------------------------------------------------------------------
(* The flush.  Rows written over a table, with what undoes it.             *)

Swaps(old, rows, new, added, prev) ==
    /\ new = Over(rows, old) /\ added = DOMAIN rows \ DOMAIN old
    /\ prev = Restrict(old, DOMAIN rows \cap DOMAIN old)

LEMMA DropIs ==
    ASSUME NEW f, NEW S
    PROVE  /\ DOMAIN Drop(f, S) = DOMAIN f \ S /\ IsTable(Drop(f, S))
           /\ \A x \in DOMAIN f \ S : Drop(f, S)[x] = f[x]
BY DEF Drop, Restrict, IsTable

LEMMA OverIs ==
    ASSUME NEW f, NEW g
    PROVE  /\ DOMAIN Over(f, g) = DOMAIN f \cup DOMAIN g /\ IsTable(Over(f, g))
           /\ \A x \in DOMAIN f : Over(f, g)[x] = f[x]
           /\ \A x \in DOMAIN g \ DOMAIN f : Over(f, g)[x] = g[x]
BY DEF Over, IsTable

LEMMA SameTable ==
    ASSUME NEW f, NEW g, IsTable(f), IsTable(g), DOMAIN f = DOMAIN g,
           \A x \in DOMAIN f : f[x] = g[x]
    PROVE  f = g
BY DEF IsTable

Swapped(old, rows, new, added, prev) ==
    /\ IsTable(new) /\ DOMAIN new = DOMAIN old \cup added
    /\ added \cap DOMAIN old = {} /\ DOMAIN prev \subseteq DOMAIN old
    /\ \A x \in DOMAIN prev : prev[x] = old[x]
    /\ \A x \in DOMAIN old \ DOMAIN prev : new[x] = old[x]
    /\ \A x \in added : x \in DOMAIN rows /\ new[x] = rows[x]
    /\ DOMAIN rows = added \cup DOMAIN prev
    /\ \A x \in DOMAIN rows : new[x] = rows[x]

LEMMA SwapIs ==
    ASSUME NEW old, NEW rows, NEW new, NEW added, NEW prev, Swaps(old, rows, new, added, prev)
    PROVE  Swapped(old, rows, new, added, prev)
<1>1. /\ new = Over(rows, old) /\ added = DOMAIN rows \ DOMAIN old
      /\ prev = Restrict(old, DOMAIN rows \cap DOMAIN old)
    BY DEF Swaps
<1>2. /\ DOMAIN new = DOMAIN rows \cup DOMAIN old /\ IsTable(new)
      /\ \A x \in DOMAIN rows : new[x] = rows[x]
      /\ \A x \in DOMAIN old \ DOMAIN rows : new[x] = old[x]
    BY <1>1 DEF Over, IsTable
<1>3. /\ DOMAIN prev = DOMAIN rows \cap DOMAIN old
      /\ \A x \in DOMAIN prev : prev[x] = old[x]
    BY <1>1 DEF Restrict
<1> QED BY <1>1, <1>2, <1>3 DEF Swapped

(* Holder amounts: a row of zero is no row.                                *)
HolderSwap(old, hold, new, prev) ==
    /\ new = Drop(Over(hold, old), {k \in DOMAIN hold : hold[k] = 0})
    /\ prev = [k \in DOMAIN hold |-> Lookup(old, k, NoRow)]

NoneIn(prev) == {k \in DOMAIN prev : prev[k] = NoRow}

-----------------------------------------------------------------------------
(* The rankings list exactly the rows they rank.                           *)

RichOf(rows) == {<<rows[t].nano, t>> : t \in {u \in DOMAIN rows : rows[u].nano > 0}}
RankOf(rows) == {<<rows[t].holderCount, t>> : t \in DOMAIN rows}
HoldersOf(amounts) == {<<k[1], amounts[k], k[2]>> : k \in DOMAIN amounts}

Ranked(d) ==
    /\ d.rich = RichOf(d.treeBalance) /\ d.tokensByHolders = RankOf(d.tokens)
    /\ d.tokenHolders = HoldersOf(d.tokenHolderAmt)

(* Rows replaced: their old places go, their new ones come.                *)
Rewritten(old, rows, gone, new) ==
    /\ gone \subseteq DOMAIN old /\ DOMAIN new = (DOMAIN old \ gone) \cup DOMAIN rows
    /\ \A t \in DOMAIN rows : new[t] = rows[t]
    /\ \A t \in DOMAIN old \ (gone \cup DOMAIN rows) : new[t] = old[t]

RichLeft(old, touched) == RichOf(old) \ {<<old[t].nano, t>> : t \in touched}
RankLeft(old, touched) == RankOf(old) \ {<<old[t].holderCount, t>> : t \in touched}

LEMMA RichMoves ==
    ASSUME NEW old, NEW rows, NEW gone, NEW new, Rewritten(old, rows, gone, new)
    PROVE  RichLeft(old, gone \cup DOMAIN rows) \cup RichOf(rows) = RichOf(new)
<1> DEFINE touched == gone \cup DOMAIN rows
           X == (RichOf(old) \ {<<old[t].nano, t>> : t \in touched}) \cup RichOf(rows)
<1>1. ASSUME NEW n, NEW t
      PROVE  <<n, t>> \in X <=> <<n, t>> \in RichOf(new)
    <2>1. <<n, t>> \in RichOf(new) <=> t \in DOMAIN new /\ new[t].nano > 0 /\ n = new[t].nano
        BY DEF RichOf
    <2>2. <<n, t>> \in RichOf(old) <=> t \in DOMAIN old /\ old[t].nano > 0 /\ n = old[t].nano
        BY DEF RichOf
    <2>3. <<n, t>> \in RichOf(rows) <=> t \in DOMAIN rows /\ rows[t].nano > 0 /\ n = rows[t].nano
        BY DEF RichOf
    <2>4. <<n, t>> \in {<<old[u].nano, u>> : u \in touched} <=> t \in touched /\ n = old[t].nano
        OBVIOUS
    <2> QED BY <2>1, <2>2, <2>3, <2>4 DEF Rewritten
<1>2. \A x \in X \cup RichOf(new) : \E n, t : x = <<n, t>>
    BY DEF RichOf
<1> HIDE DEF X
<1>3. X = RichOf(new)
    BY <1>1, <1>2
<1> QED BY <1>3 DEF X, RichLeft

LEMMA RankMoves ==
    ASSUME NEW old, NEW rows, NEW gone, NEW new, Rewritten(old, rows, gone, new)
    PROVE  RankLeft(old, gone \cup DOMAIN rows) \cup RankOf(rows) = RankOf(new)
<1> DEFINE touched == gone \cup DOMAIN rows
           X == (RankOf(old) \ {<<old[t].holderCount, t>> : t \in touched}) \cup RankOf(rows)
<1>1. ASSUME NEW n, NEW t
      PROVE  <<n, t>> \in X <=> <<n, t>> \in RankOf(new)
    <2>1. <<n, t>> \in RankOf(new) <=> t \in DOMAIN new /\ n = new[t].holderCount
        BY DEF RankOf
    <2>2. <<n, t>> \in RankOf(old) <=> t \in DOMAIN old /\ n = old[t].holderCount
        BY DEF RankOf
    <2>3. <<n, t>> \in RankOf(rows) <=> t \in DOMAIN rows /\ n = rows[t].holderCount
        BY DEF RankOf
    <2>4. <<n, t>> \in {<<old[u].holderCount, u>> : u \in touched}
                <=> t \in touched /\ n = old[t].holderCount
        OBVIOUS
    <2> QED BY <2>1, <2>2, <2>3, <2>4 DEF Rewritten
<1>2. \A x \in X \cup RankOf(new) : \E n, t : x = <<n, t>>
    BY DEF RankOf
<1> HIDE DEF X
<1>3. X = RankOf(new)
    BY <1>1, <1>2
<1> QED BY <1>3 DEF X, RankLeft

PairKeys(f) == \A k \in DOMAIN f : k = <<k[1], k[2]>>

ListingLeft(old, keys) ==
    HoldersOf(old) \ {<<k[1], old[k], k[2]>> : k \in keys \cap DOMAIN old}
ListingOf(hold, keys) == {<<k[1], hold[k], k[2]>> : k \in keys}

Reheld(old, hold, zero, new) ==
    /\ PairKeys(old) /\ PairKeys(hold) /\ zero \subseteq DOMAIN hold
    /\ DOMAIN new = (DOMAIN hold \cup DOMAIN old) \ zero
    /\ \A k \in DOMAIN hold \ zero : new[k] = hold[k]
    /\ \A k \in DOMAIN old \ DOMAIN hold : new[k] = old[k]

LEMMA HoldersMove ==
    ASSUME NEW old, NEW hold, NEW zero, NEW new, Reheld(old, hold, zero, new)
    PROVE  ListingLeft(old, DOMAIN hold) \cup ListingOf(hold, DOMAIN hold \ zero)
              = HoldersOf(new)
<1> DEFINE X == (HoldersOf(old) \ {<<k[1], old[k], k[2]>> : k \in DOMAIN hold \cap DOMAIN old})
                  \cup {<<k[1], hold[k], k[2]>> : k \in DOMAIN hold \ zero}
<1>1. ASSUME NEW t, NEW n, NEW u
      PROVE  <<t, n, u>> \in X <=> <<t, n, u>> \in HoldersOf(new)
    <2> DEFINE key == <<t, u>>
               x == <<t, n, u>>
    <2>1. PairKeys(new)
        BY DEF PairKeys, Reheld
    <2>2. x \in HoldersOf(new) <=> key \in DOMAIN new /\ n = new[key]
        BY <2>1 DEF HoldersOf, PairKeys
    <2>3. x \in HoldersOf(old) <=> key \in DOMAIN old /\ n = old[key]
        BY DEF HoldersOf, PairKeys, Reheld
    <2>4. x \in {<<k[1], old[k], k[2]>> : k \in DOMAIN hold \cap DOMAIN old}
            <=> key \in DOMAIN hold \cap DOMAIN old /\ n = old[key]
        BY DEF PairKeys, Reheld
    <2>5. x \in {<<k[1], hold[k], k[2]>> : k \in DOMAIN hold \ zero}
            <=> key \in DOMAIN hold \ zero /\ n = hold[key]
        BY DEF PairKeys, Reheld
    <2> HIDE DEF key, x
    <2>6. x \in X <=> x \in HoldersOf(new)
        BY <2>2, <2>3, <2>4, <2>5 DEF Reheld
    <2> QED BY <2>6 DEF x
<1>2. \A x \in X \cup HoldersOf(new) : \E t, n, u : x = <<t, n, u>>
    BY DEF HoldersOf
<1> HIDE DEF X
<1>3. X = HoldersOf(new)
    BY <1>1, <1>2
<1> QED BY <1>3 DEF X, ListingLeft, ListingOf

-----------------------------------------------------------------------------
(* What the undo row of a sealed block says of the tables written at its   *)
(* end: new is old with added rows and with those of prev replaced.        *)

Undoes(old, new, added, prev) ==
    /\ IsTable(old) /\ added \cap DOMAIN old = {} /\ DOMAIN new = DOMAIN old \cup added
    /\ DOMAIN prev \subseteq DOMAIN old
    /\ \A x \in DOMAIN prev : prev[x] = old[x]
    /\ \A x \in DOMAIN old \ DOMAIN prev : new[x] = old[x]

HoldersUndo(old, new, prev) ==
    /\ IsTable(old) /\ PairKeys(new) /\ PairKeys(prev)
    /\ DOMAIN old = (DOMAIN prev \cup DOMAIN new) \ NoneIn(prev)
    /\ \A k \in DOMAIN prev \ NoneIn(prev) : old[k] = prev[k]
    /\ \A k \in DOMAIN new \ DOMAIN prev : old[k] = new[k]

LEMMA SwapsUndo ==
    ASSUME NEW old, IsTable(old), NEW rows, NEW new, NEW added, NEW prev,
           Swaps(old, rows, new, added, prev)
    PROVE  Undoes(old, new, added, prev)
<1>1. Swapped(old, rows, new, added, prev)
    BY SwapIs
<1> QED BY <1>1 DEF Swapped, Undoes

LEMMA HolderSwapUndo ==
    ASSUME NEW old, IsTable(old), IsAmounts(old), NEW hold, IsAmounts(hold), NEW new, NEW prev,
           HolderSwap(old, hold, new, prev)
    PROVE  /\ HoldersUndo(old, new, prev) /\ IsTable(new) /\ IsAmounts(new)
           /\ Reheld(old, hold, {k \in DOMAIN hold : hold[k] = 0}, new)
<1> DEFINE zero == {k \in DOMAIN hold : hold[k] = 0}
           o == Over(hold, old)
<1>1. /\ DOMAIN o = DOMAIN hold \cup DOMAIN old
      /\ \A x \in DOMAIN hold : o[x] = hold[x]
      /\ \A x \in DOMAIN old \ DOMAIN hold : o[x] = old[x]
    BY OverIs
<1>2. /\ DOMAIN Drop(o, zero) = DOMAIN o \ zero /\ IsTable(Drop(o, zero))
      /\ \A x \in DOMAIN o \ zero : Drop(o, zero)[x] = o[x]
    <2> HIDE DEF o, zero
    <2> QED BY DropIs
<1> HIDE DEF o
<1>3. new = Drop(o, zero) /\ prev = [k \in DOMAIN hold |-> Lookup(old, k, NoRow)]
    BY DEF HolderSwap, o
<1>4. /\ DOMAIN new = (DOMAIN hold \cup DOMAIN old) \ zero /\ IsTable(new)
      /\ \A x \in DOMAIN hold \ zero : new[x] = hold[x]
      /\ \A x \in DOMAIN old \ DOMAIN hold : new[x] = old[x]
    BY <1>1, <1>2, <1>3
<1>5. /\ DOMAIN prev = DOMAIN hold
      /\ \A k \in DOMAIN hold : prev[k] = IF k \in DOMAIN old THEN old[k] ELSE NoRow
    BY <1>3 DEF Lookup
<1>6. NoneIn(prev) = DOMAIN hold \ DOMAIN old
    BY <1>5 DEF NoneIn, IsAmounts, NoRow
<1>7. IsAmounts(new)
    BY <1>4 DEF IsAmounts
<1>8. PairKeys(old) /\ PairKeys(hold) /\ PairKeys(new) /\ PairKeys(prev)
    BY <1>5, <1>7 DEF PairKeys, IsAmounts
<1>9. HoldersUndo(old, new, prev)
    BY <1>4, <1>5, <1>6, <1>8 DEF HoldersUndo
<1>10. Reheld(old, hold, zero, new)
    BY <1>4, <1>8 DEF Reheld
<1> QED BY <1>4, <1>7, <1>9, <1>10

LEMMA UndoneTable ==
    ASSUME NEW old, NEW new, NEW added, NEW prev, Undoes(old, new, added, prev)
    PROVE  /\ Drop(Over(prev, new), added) = old
           /\ Over(prev, Drop(new, added)) = old
<1>1. Drop(Over(prev, new), added) = old
    <2> DEFINE f == Over(prev, new)
               g == Drop(f, added)
    <2>1. /\ DOMAIN f = DOMAIN prev \cup DOMAIN new
          /\ \A x \in DOMAIN prev : f[x] = prev[x]
          /\ \A x \in DOMAIN new \ DOMAIN prev : f[x] = new[x]
        BY OverIs
    <2>2. DOMAIN g = DOMAIN f \ added /\ IsTable(g) /\ \A x \in DOMAIN f \ added : g[x] = f[x]
        BY DropIs
    <2> HIDE DEF f, g
    <2>3. DOMAIN g = DOMAIN old /\ \A x \in DOMAIN g : g[x] = old[x]
        BY <2>1, <2>2 DEF Undoes
    <2>4. g = old
        BY <2>2, <2>3, SameTable DEF Undoes
    <2> QED BY <2>4 DEF f, g
<1>2. Over(prev, Drop(new, added)) = old
    <2> DEFINE f == Drop(new, added)
               g == Over(prev, f)
    <2>1. DOMAIN f = DOMAIN new \ added /\ \A x \in DOMAIN new \ added : f[x] = new[x]
        BY DropIs
    <2>2. /\ DOMAIN g = DOMAIN prev \cup DOMAIN f /\ IsTable(g)
          /\ \A x \in DOMAIN prev : g[x] = prev[x]
          /\ \A x \in DOMAIN f \ DOMAIN prev : g[x] = f[x]
        BY OverIs
    <2> HIDE DEF f, g
    <2>3. DOMAIN g = DOMAIN old /\ \A x \in DOMAIN g : g[x] = old[x]
        BY <2>1, <2>2 DEF Undoes
    <2>4. g = old
        BY <2>2, <2>3, SameTable DEF Undoes
    <2> QED BY <2>4 DEF f, g
<1> QED BY <1>1, <1>2

LEMMA UndoneHolders ==
    ASSUME NEW old, NEW new, NEW prev, HoldersUndo(old, new, prev)
    PROVE  Drop(Over(prev, new), NoneIn(prev)) = old
<1> DEFINE f == Over(prev, new)
           g == Drop(f, NoneIn(prev))
<1>1. /\ DOMAIN f = DOMAIN prev \cup DOMAIN new
      /\ \A x \in DOMAIN prev : f[x] = prev[x]
      /\ \A x \in DOMAIN new \ DOMAIN prev : f[x] = new[x]
    BY OverIs
<1>2. DOMAIN g = DOMAIN f \ NoneIn(prev) /\ IsTable(g)
      /\ \A x \in DOMAIN f \ NoneIn(prev) : g[x] = f[x]
    <2> HIDE DEF f
    <2> QED BY DropIs
<1> HIDE DEF f, g
<1>3. DOMAIN g = DOMAIN old /\ \A x \in DOMAIN g : g[x] = old[x]
    BY <1>1, <1>2 DEF HoldersUndo
<1>4. g = old
    BY <1>2, <1>3, SameTable DEF HoldersUndo
<1> QED BY <1>4 DEF f, g

(* The three rankings, undone.                                             *)
RichBack(old, new, added, prev) ==
    RichLeft(new, added \cup DOMAIN prev) \cup RichOf(prev) = RichOf(old)
RankBack(old, new, added, prev) ==
    RankLeft(new, added \cup DOMAIN prev) \cup RankOf(prev) = RankOf(old)

LEMMA UndoneRich ==
    ASSUME NEW old, NEW new, NEW added, NEW prev, Undoes(old, new, added, prev)
    PROVE  RichBack(old, new, added, prev)
<1>1. Rewritten(new, prev, added, old)
    BY DEF Undoes, Rewritten
<1> QED BY <1>1, RichMoves DEF RichBack

LEMMA UndoneRank ==
    ASSUME NEW old, NEW new, NEW added, NEW prev, Undoes(old, new, added, prev)
    PROVE  RankBack(old, new, added, prev)
<1>1. Rewritten(new, prev, added, old)
    BY DEF Undoes, Rewritten
<1> QED BY <1>1, RankMoves DEF RankBack

LEMMA UndoneListing ==
    ASSUME NEW old, NEW new, NEW prev, HoldersUndo(old, new, prev)
    PROVE  ListingLeft(new, DOMAIN prev) \cup ListingOf(prev, DOMAIN prev \ NoneIn(prev))
              = HoldersOf(old)
<1>1. Reheld(new, prev, NoneIn(prev), old)
    BY DEF HoldersUndo, NoneIn, Reheld
<1> QED BY <1>1, HoldersMove

-----------------------------------------------------------------------------
(* A sealed block: d before it, z after it, u its undo row, h its height.  *)

TxsSealed(d, z, u) ==
    /\ TxOK(d) /\ u.txIds \cap DOMAIN d.txs = {} /\ DOMAIN z.txs = DOMAIN d.txs \cup u.txIds
    /\ \A id \in DOMAIN d.txs : z.txs[id] = d.txs[id]
    /\ \A id \in u.txIds : d.nextTx <= z.txs[id].gidx
    /\ \A g \in DOMAIN d.txByGidx :
          g \in DOMAIN z.txByGidx /\ z.txByGidx[g] = d.txByGidx[g]
    /\ \A g \in DOMAIN z.txByGidx :
          g \in DOMAIN d.txByGidx \/ \E id \in u.txIds : z.txs[id].gidx = g
    /\ Shuffled(d.treeTxs, z.treeTxs, u.treeTxs, {})
    /\ \A k \in u.treeTxs : k[2] \in Nat /\ d.nextTx <= k[2]

MintSealed(d, z, u) ==
    MintOK(d) /\ MintSince(d, z, z.tokens) /\ NewRows(d, z.tokens) = u.newTokens

RowsSealed(d, z, u) ==
    /\ Undoes(d.treeBalance, z.treeBalance, u.newBalances, u.prevBalances)
    /\ Undoes(d.tokens, z.tokens, u.newTokens, u.prevTokens)
    /\ Undoes(d.templates, z.templates, u.newTemplates, u.prevTemplates)
    /\ HoldersUndo(d.tokenHolderAmt, z.tokenHolderAmt, u.prevHolderAmts)

HeaderSealed(d, z, u, h) ==
    /\ IsTable(d.headers) /\ IsTable(d.headerById) /\ h \notin DOMAIN d.headers
    /\ \E row : /\ z.headers = Put(d.headers, h, row)
                /\ row.id \notin DOMAIN d.headerById
                /\ z.headerById = Put(d.headerById, row.id, h)

MetaSealed(d, z, u) ==
    /\ u.prevNextBox = d.nextBox /\ u.prevNextTx = d.nextTx
    /\ z.genesisSeeded = d.genesisSeeded /\ z.genesisToken = d.genesisToken
    /\ z.emissionTree = d.emissionTree

Sealed(d, z, u, h) ==
    /\ DOMAIN d = TableKeys /\ DOMAIN z = TableKeys
    /\ BoxBase(d, z, u) /\ TxsSealed(d, z, u) /\ TreesSince(d, z, u.newTrees)
    /\ MintSealed(d, z, u) /\ RowsSealed(d, z, u) /\ Ranked(d) /\ Ranked(z)
    /\ HeaderSealed(d, z, u, h) /\ MetaSealed(d, z, u)

-----------------------------------------------------------------------------
(* Each step of UndoBlock, by the tables it writes.                        *)

LEMMA UncreateIs ==
    ASSUME NEW e, DOMAIN e = TableKeys, NEW u
    PROVE  LET x == UncreateBoxes(e, u)
               made == u.createdBoxes
           IN  /\ Differ(e, x, {"boxes", "boxByGidx", "treeBoxes", "treeUnspent", "rentMatures",
                                "templateBoxes", "templateUnspent", "tokenBoxes", "tokenUnspent"})
               /\ x.boxes = Drop(e.boxes, made)
               /\ x.boxByGidx = Drop(e.boxByGidx, {e.boxes[id].gidx : id \in made})
               /\ \A kind \in Kinds : /\ Every(kind, x) = Every(kind, e) \ Held(kind, e.boxes, made)
                                      /\ kind # "rent" =>
                                            Open(kind, x) = Open(kind, e) \ Held(kind, e.boxes, made)
               /\ x.rentMatures = {k \in e.rentMatures : k[3] \notin made}
<1> DEFINE made == u.createdBoxes
           rows == {e.boxes[id] : id \in made}
           gone == {r.gidx : r \in rows}
           tree == {<<r.tree, r.gidx>> : r \in rows}
           tmpl == {<<Template[r.tree], r.gidx>> : r \in rows}
           toks == UNION {{<<t, r.gidx>> : t \in BagToSet(r.tokens)} : r \in rows}
           boxes == Drop(e.boxes, made)
           numbers == Drop(e.boxByGidx, gone)
           rent == {k \in e.rentMatures : k[3] \notin made}
           y == [e EXCEPT !.boxes = boxes, !.boxByGidx = numbers,
                          !.treeBoxes = @ \ tree, !.treeUnspent = @ \ tree,
                          !.rentMatures = rent,
                          !.templateBoxes = @ \ tmpl, !.templateUnspent = @ \ tmpl,
                          !.tokenBoxes = @ \ toks, !.tokenUnspent = @ \ toks]
           x == UncreateBoxes(e, u)
<1>1. x = y
    BY Zenon DEF UncreateBoxes
<1>2. /\ gone = {e.boxes[id].gidx : id \in made}
      /\ tree = Held("tree", e.boxes, made) /\ tmpl = Held("template", e.boxes, made)
      /\ toks = Held("token", e.boxes, made)
    <2>1. gone = {e.boxes[id].gidx : id \in made}
        OBVIOUS
    <2>2. tree = Held("tree", e.boxes, made)
        BY DEF Held, KeysOf
    <2>3. tmpl = Held("template", e.boxes, made)
        BY DEF Held, KeysOf
    <2>4. toks = Held("token", e.boxes, made)
        BY DEF Held, KeysOf
    <2> QED BY <2>1, <2>2, <2>3, <2>4
<1> HIDE DEF x, gone, tree, tmpl, toks, boxes, numbers, rent
<1>3. /\ Differ(e, y, {"boxes", "boxByGidx", "treeBoxes", "treeUnspent", "rentMatures",
                        "templateBoxes", "templateUnspent", "tokenBoxes", "tokenUnspent"})
      /\ y.boxes = boxes /\ y.boxByGidx = numbers /\ y.rentMatures = rent
      /\ y.treeBoxes = e.treeBoxes \ tree /\ y.treeUnspent = e.treeUnspent \ tree
      /\ y.templateBoxes = e.templateBoxes \ tmpl /\ y.templateUnspent = e.templateUnspent \ tmpl
      /\ y.tokenBoxes = e.tokenBoxes \ toks /\ y.tokenUnspent = e.tokenUnspent \ toks
    BY DEF Differ, TableKeys
<1> HIDE DEF y
<1>4. \A kind \in Kinds : /\ Every(kind, y) = Every(kind, e) \ Held(kind, e.boxes, made)
                          /\ kind # "rent" =>
                                Open(kind, y) = Open(kind, e) \ Held(kind, e.boxes, made)
    BY <1>2, <1>3 DEF Kinds, Every, Open
<1> QED BY <1>1, <1>2, <1>3, <1>4 DEF x, boxes, numbers, rent

LEMMA UnspendIs ==
    ASSUME NEW e, DOMAIN e = TableKeys, NEW u
    PROVE  LET x == UnspendBoxes(e, u)
               ids == u.spentBoxes \cap DOMAIN e.boxes
           IN  /\ Differ(e, x, {"boxes", "treeUnspent", "rentMatures", "templateUnspent",
                                "tokenUnspent"})
               /\ x.boxes = [id \in DOMAIN e.boxes |->
                    IF id \in ids THEN [e.boxes[id] EXCEPT !.spent = Unspent] ELSE e.boxes[id]]
               /\ \A kind \in Kinds : Open(kind, x) = Open(kind, e) \cup Held(kind, e.boxes, ids)
<1> DEFINE ids == u.spentBoxes \cap DOMAIN e.boxes
           rows == {e.boxes[id] : id \in ids}
           tree == {<<r.tree, r.gidx>> : r \in rows}
           tmpl == {<<Template[r.tree], r.gidx>> : r \in rows}
           toks == UNION {{<<t, r.gidx>> : t \in BagToSet(r.tokens)} : r \in rows}
           rent == {<<MaturityHeight(e.boxes[id].creation), e.boxes[id].gidx, id>> : id \in ids}
           boxes == [id \in DOMAIN e.boxes |->
                        IF id \in ids THEN [e.boxes[id] EXCEPT !.spent = Unspent] ELSE e.boxes[id]]
           y == [e EXCEPT !.boxes = boxes, !.treeUnspent = @ \cup tree,
                          !.rentMatures = @ \cup rent, !.templateUnspent = @ \cup tmpl,
                          !.tokenUnspent = @ \cup toks]
           x == UnspendBoxes(e, u)
<1>1. x = y
    BY Zenon DEF UnspendBoxes
<1>2. /\ tree = Held("tree", e.boxes, ids) /\ tmpl = Held("template", e.boxes, ids)
      /\ toks = Held("token", e.boxes, ids) /\ rent = Held("rent", e.boxes, ids)
    <2>1. tree = Held("tree", e.boxes, ids)
        BY DEF Held, KeysOf
    <2>2. tmpl = Held("template", e.boxes, ids)
        BY DEF Held, KeysOf
    <2>3. toks = Held("token", e.boxes, ids)
        BY DEF Held, KeysOf
    <2>4. rent = Held("rent", e.boxes, ids)
        BY DEF Held, KeysOf
    <2> QED BY <2>1, <2>2, <2>3, <2>4
<1> HIDE DEF x, tree, tmpl, toks, rent, boxes
<1>3. /\ Differ(e, y, {"boxes", "treeUnspent", "rentMatures", "templateUnspent", "tokenUnspent"})
      /\ y.boxes = boxes
      /\ y.treeUnspent = e.treeUnspent \cup tree /\ y.rentMatures = e.rentMatures \cup rent
      /\ y.templateUnspent = e.templateUnspent \cup tmpl
      /\ y.tokenUnspent = e.tokenUnspent \cup toks
    BY DEF Differ, TableKeys
<1> HIDE DEF y, ids
<1>4. \A kind \in Kinds : Open(kind, y) = Open(kind, e) \cup Held(kind, e.boxes, ids)
    BY <1>2, <1>3 DEF Kinds, Open
<1>5. /\ Differ(e, x, {"boxes", "treeUnspent", "rentMatures", "templateUnspent", "tokenUnspent"})
      /\ x.boxes = boxes
      /\ \A kind \in Kinds : Open(kind, x) = Open(kind, e) \cup Held(kind, e.boxes, ids)
    BY <1>1, <1>3, <1>4
<1> QED BY <1>5 DEF x, boxes, ids

LEMMA RemoveTxsIs ==
    ASSUME NEW e, DOMAIN e = TableKeys, NEW u
    PROVE  LET x == RemoveTxs(e, u)
           IN  /\ Differ(e, x, {"txs", "txByGidx", "treeTxs"})
               /\ x.txs = Drop(e.txs, u.txIds)
               /\ x.txByGidx = Drop(e.txByGidx, {e.txs[id].gidx : id \in u.txIds})
               /\ x.treeTxs = e.treeTxs \ u.treeTxs
BY DEF RemoveTxs, Differ, TableKeys

LEMMA RestoreBalancesIs ==
    ASSUME NEW e, DOMAIN e = TableKeys, NEW u
    PROVE  LET x == RestoreBalances(e, u)
           IN  /\ Differ(e, x, {"rich", "treeBalance"})
               /\ x.treeBalance = Over(u.prevBalances, Drop(e.treeBalance, u.newBalances))
               /\ x.rich = (e.rich \ {<<e.treeBalance[t].nano, t>> :
                                        t \in u.newBalances \cup DOMAIN u.prevBalances})
                              \cup RichOf(u.prevBalances)
BY DEF RestoreBalances, Differ, TableKeys, RichOf

LEMMA RestoreHoldersIs ==
    ASSUME NEW e, DOMAIN e = TableKeys, NEW u
    PROVE  LET x == RestoreHolders(e, u)
               prev == u.prevHolderAmts
           IN  /\ Differ(e, x, {"tokenHolders", "tokenHolderAmt"})
               /\ x.tokenHolderAmt = Drop(Over(prev, e.tokenHolderAmt), NoneIn(prev))
               /\ x.tokenHolders =
                    (e.tokenHolders \ {<<k[1], e.tokenHolderAmt[k], k[2]>> :
                                        k \in DOMAIN prev \cap DOMAIN e.tokenHolderAmt})
                      \cup ListingOf(prev, DOMAIN prev \ NoneIn(prev))
BY DEF RestoreHolders, Differ, TableKeys, NoneIn, ListingOf

LEMMA RestoreTokensIs ==
    ASSUME NEW e, DOMAIN e = TableKeys, NEW u
    PROVE  LET x == RestoreTokens(e, u)
           IN  /\ Differ(e, x, {"tokensByHolders", "tokensByGidx", "tokens"})
               /\ x.tokens = Over(u.prevTokens, Drop(e.tokens, u.newTokens))
               /\ x.tokensByGidx =
                    Drop(e.tokensByGidx, {e.tokens[t].mintGidx : t \in u.newTokens})
               /\ x.tokensByHolders =
                    (e.tokensByHolders \ {<<e.tokens[t].holderCount, t>> :
                                            t \in u.newTokens \cup DOMAIN u.prevTokens})
                       \cup RankOf(u.prevTokens)
BY DEF RestoreTokens, Differ, TableKeys, RankOf

LEMMA RestoreTemplatesIs ==
    ASSUME NEW e, DOMAIN e = TableKeys, NEW u
    PROVE  LET x == RestoreTemplates(e, u)
           IN  /\ Differ(e, x, {"templates"})
               /\ x.templates = Drop(Over(u.prevTemplates, e.templates), u.newTemplates)
BY DEF RestoreTemplates, Differ, TableKeys

(* All of them: what one height of rollback_to makes of the tables e.      *)

UndoneBoxes(e, u, x) ==
    LET made == u.createdBoxes
        left == Drop(e.boxes, made)
        ids  == u.spentBoxes \cap DOMAIN left
    IN  /\ x.boxes = [id \in DOMAIN left |->
                        IF id \in ids THEN [left[id] EXCEPT !.spent = Unspent] ELSE left[id]]
        /\ x.boxByGidx = Drop(e.boxByGidx, {e.boxes[id].gidx : id \in made})
        /\ \A kind \in Kinds :
              /\ Every(kind, x) = Every(kind, e) \ Held(kind, e.boxes, made)
              /\ kind # "rent" =>
                    Open(kind, x) = (Open(kind, e) \ Held(kind, e.boxes, made))
                                        \cup Held(kind, left, ids)
        /\ x.rentMatures = {k \in e.rentMatures : k[3] \notin made} \cup Held("rent", left, ids)

UndoneTxs(e, u, x) ==
    /\ x.txs = Drop(e.txs, u.txIds)
    /\ x.txByGidx = Drop(e.txByGidx, {e.txs[id].gidx : id \in u.txIds})
    /\ x.treeTxs = e.treeTxs \ u.treeTxs

UndoneRows(e, u, x) ==
    /\ x.treeBalance = Over(u.prevBalances, Drop(e.treeBalance, u.newBalances))
    /\ x.rich = (e.rich \ {<<e.treeBalance[t].nano, t>> :
                              t \in u.newBalances \cup DOMAIN u.prevBalances})
                    \cup RichOf(u.prevBalances)
    /\ x.tokens = Over(u.prevTokens, Drop(e.tokens, u.newTokens))
    /\ x.tokensByGidx = Drop(e.tokensByGidx, {e.tokens[t].mintGidx : t \in u.newTokens})
    /\ x.tokensByHolders = (e.tokensByHolders \ {<<e.tokens[t].holderCount, t>> :
                                                  t \in u.newTokens \cup DOMAIN u.prevTokens})
                              \cup RankOf(u.prevTokens)
    /\ x.tokenHolderAmt =
          Drop(Over(u.prevHolderAmts, e.tokenHolderAmt), NoneIn(u.prevHolderAmts))
    /\ x.tokenHolders =
          (e.tokenHolders \ {<<k[1], e.tokenHolderAmt[k], k[2]>> :
                              k \in DOMAIN u.prevHolderAmts \cap DOMAIN e.tokenHolderAmt})
            \cup ListingOf(u.prevHolderAmts, DOMAIN u.prevHolderAmts \ NoneIn(u.prevHolderAmts))
    /\ x.templates = Drop(Over(u.prevTemplates, e.templates), u.newTemplates)
    /\ x.registerIdx = e.registerIdx \ u.registerKeys
    /\ x.ergoTrees = e.ergoTrees \ u.newTrees

UndoneMeta(e, u, h, x) ==
    /\ x.headerById = Drop(e.headerById, {e.headers[h].id}) /\ x.headers = Drop(e.headers, {h})
    /\ x.undo = Drop(e.undo, {h}) /\ x.nextBox = u.prevNextBox /\ x.nextTx = u.prevNextTx
    /\ x.genesisSeeded = e.genesisSeeded /\ x.genesisToken = e.genesisToken
    /\ x.emissionTree = e.emissionTree

Restored(e, u, h, x) ==
    /\ DOMAIN x = TableKeys /\ UndoneBoxes(e, u, x) /\ UndoneTxs(e, u, x)
    /\ UndoneRows(e, u, x) /\ UndoneMeta(e, u, h, x)

LEMMA UndoBlockIs ==
    ASSUME NEW e, DOMAIN e = TableKeys, NEW h
    PROVE  Restored(e, e.undo[h], h, UndoBlock(e, h))
<1> DEFINE u == e.undo[h]
           made == u.createdBoxes
           x1 == UncreateBoxes(e, u)
           x2 == UnspendBoxes(x1, u)
           x3 == RemoveTxs(x2, u)
           x4 == RestoreBalances(x3, u)
           x5 == [x4 EXCEPT !.registerIdx = @ \ u.registerKeys]
           x6 == RestoreHolders(x5, u)
           x7 == RestoreTokens(x6, u)
           x8 == RestoreTemplates(x7, u)
           x9 == [x8 EXCEPT !.ergoTrees = @ \ u.newTrees]
           x == RemoveHeader(x9, u, h)
<1>0. UndoBlock(e, h) = x
    BY Zenon DEF UndoBlock
<1> HIDE DEF u
<1>1. /\ Differ(e, x1, {"boxes", "boxByGidx", "treeBoxes", "treeUnspent", "rentMatures",
                        "templateBoxes", "templateUnspent", "tokenBoxes", "tokenUnspent"})
      /\ x1.boxes = Drop(e.boxes, made)
      /\ x1.boxByGidx = Drop(e.boxByGidx, {e.boxes[id].gidx : id \in made})
      /\ \A kind \in Kinds : /\ Every(kind, x1) = Every(kind, e) \ Held(kind, e.boxes, made)
                             /\ kind # "rent" =>
                                   Open(kind, x1) = Open(kind, e) \ Held(kind, e.boxes, made)
      /\ x1.rentMatures = {k \in e.rentMatures : k[3] \notin made}
    BY UncreateIs
<1> HIDE DEF x1
<1>2. LET ids == u.spentBoxes \cap DOMAIN x1.boxes
      IN  /\ Differ(x1, x2, {"boxes", "treeUnspent", "rentMatures", "templateUnspent",
                             "tokenUnspent"})
          /\ x2.boxes = [id \in DOMAIN x1.boxes |->
               IF id \in ids THEN [x1.boxes[id] EXCEPT !.spent = Unspent] ELSE x1.boxes[id]]
          /\ \A kind \in Kinds : Open(kind, x2) = Open(kind, x1) \cup Held(kind, x1.boxes, ids)
    <2>1. DOMAIN x1 = TableKeys
        BY <1>1 DEF Differ
    <2> QED BY <2>1, UnspendIs
<1> HIDE DEF x2
<1>3. /\ Differ(x2, x3, {"txs", "txByGidx", "treeTxs"})
      /\ x3.txs = Drop(x2.txs, u.txIds)
      /\ x3.txByGidx = Drop(x2.txByGidx, {x2.txs[id].gidx : id \in u.txIds})
      /\ x3.treeTxs = x2.treeTxs \ u.treeTxs
    <2>1. DOMAIN x2 = TableKeys
        BY <1>1, <1>2 DEF Differ
    <2> QED BY <2>1, RemoveTxsIs
<1> HIDE DEF x3
<1>4. /\ Differ(x3, x4, {"rich", "treeBalance"})
      /\ x4.treeBalance = Over(u.prevBalances, Drop(x3.treeBalance, u.newBalances))
      /\ x4.rich = (x3.rich \ {<<x3.treeBalance[t].nano, t>> :
                               t \in u.newBalances \cup DOMAIN u.prevBalances})
                      \cup RichOf(u.prevBalances)
    <2>1. DOMAIN x3 = TableKeys
        BY <1>1, <1>2, <1>3 DEF Differ
    <2> QED BY <2>1, RestoreBalancesIs
<1> HIDE DEF x4
<1>5. DOMAIN x4 = TableKeys
    BY <1>1, <1>2, <1>3, <1>4 DEF Differ
<1>6. Differ(x4, x5, {"registerIdx"}) /\ x5.registerIdx = x4.registerIdx \ u.registerKeys
    BY <1>5 DEF Differ, TableKeys
<1> HIDE DEF x5
<1>7. LET prev == u.prevHolderAmts
      IN  /\ Differ(x5, x6, {"tokenHolders", "tokenHolderAmt"})
          /\ x6.tokenHolderAmt = Drop(Over(prev, x5.tokenHolderAmt), NoneIn(prev))
          /\ x6.tokenHolders =
               (x5.tokenHolders \ {<<k[1], x5.tokenHolderAmt[k], k[2]>> :
                                   k \in DOMAIN prev \cap DOMAIN x5.tokenHolderAmt})
                 \cup ListingOf(prev, DOMAIN prev \ NoneIn(prev))
    <2>1. DOMAIN x5 = TableKeys
        BY <1>5, <1>6 DEF Differ
    <2> QED BY <2>1, RestoreHoldersIs
<1> HIDE DEF x6
<1>8. /\ Differ(x6, x7, {"tokensByHolders", "tokensByGidx", "tokens"})
      /\ x7.tokens = Over(u.prevTokens, Drop(x6.tokens, u.newTokens))
      /\ x7.tokensByGidx = Drop(x6.tokensByGidx, {x6.tokens[t].mintGidx : t \in u.newTokens})
      /\ x7.tokensByHolders =
           (x6.tokensByHolders \ {<<x6.tokens[t].holderCount, t>> :
                                   t \in u.newTokens \cup DOMAIN u.prevTokens})
              \cup RankOf(u.prevTokens)
    <2>1. DOMAIN x6 = TableKeys
        BY <1>5, <1>6, <1>7 DEF Differ
    <2> QED BY <2>1, RestoreTokensIs
<1> HIDE DEF x7
<1>9. DOMAIN x7 = TableKeys
    BY <1>5, <1>6, <1>7, <1>8 DEF Differ
<1>10. /\ Differ(x7, x8, {"templates"})
       /\ x8.templates = Drop(Over(u.prevTemplates, x7.templates), u.newTemplates)
    BY <1>9, RestoreTemplatesIs
<1> HIDE DEF x8
<1>11. Differ(x8, x9, {"ergoTrees"}) /\ x9.ergoTrees = x8.ergoTrees \ u.newTrees
    BY <1>9, <1>10 DEF Differ, TableKeys
<1> HIDE DEF x9
<1>12. /\ Differ(x9, x, {"headerById", "headers", "undo", "nextBox", "nextTx"})
       /\ x.headerById = Drop(x9.headerById, {x9.headers[h].id})
       /\ x.headers = Drop(x9.headers, {h}) /\ x.undo = Drop(x9.undo, {h})
       /\ x.nextBox = u.prevNextBox /\ x.nextTx = u.prevNextTx
    <2>1. DOMAIN x9 = TableKeys
        BY <1>9, <1>10, <1>11 DEF Differ
    <2> QED BY <2>1 DEF RemoveHeader, Differ, TableKeys
<1> HIDE DEF x
<1>13. DOMAIN x = TableKeys
    BY <1>9, <1>10, <1>11, <1>12 DEF Differ
<1>14. UndoneBoxes(e, u, x)
    <2>1. \A k \in {"boxByGidx", "treeBoxes", "templateBoxes", "tokenBoxes"} : x[k] = x1[k]
        BY <1>1, <1>2, <1>3, <1>4, <1>6, <1>7, <1>8, <1>10, <1>11, <1>12 DEF Differ, TableKeys
    <2>2. \A k \in {"boxes", "treeUnspent", "rentMatures", "templateUnspent", "tokenUnspent"} :
            x[k] = x2[k]
        BY <1>1, <1>2, <1>3, <1>4, <1>6, <1>7, <1>8, <1>10, <1>11, <1>12 DEF Differ, TableKeys
    <2>3. \A kind \in Kinds : Every(kind, x) = Every(kind, x1) /\ Open(kind, x) = Open(kind, x2)
        BY <2>1, <2>2 DEF Every, Open
    <2>4. /\ Open("rent", x2) = x2.rentMatures /\ Open("rent", x1) = x1.rentMatures
          /\ "rent" \in Kinds
        BY DEF Open, Kinds
    <2>5. x.boxes = x2.boxes /\ x.rentMatures = x2.rentMatures /\ x.boxByGidx = x1.boxByGidx
        BY <2>1, <2>2
    <2> QED BY <1>1, <1>2, <2>3, <2>4, <2>5 DEF UndoneBoxes
<1>15. UndoneTxs(e, u, x)
    <2>1. x2.txs = e.txs /\ x2.txByGidx = e.txByGidx /\ x2.treeTxs = e.treeTxs
        BY <1>1, <1>2 DEF Differ, TableKeys
    <2>2. x.txs = x3.txs /\ x.txByGidx = x3.txByGidx /\ x.treeTxs = x3.treeTxs
        BY <1>1, <1>2, <1>3, <1>4, <1>6, <1>7, <1>8, <1>10, <1>11, <1>12 DEF Differ, TableKeys
    <2> QED BY <1>3, <2>1, <2>2 DEF UndoneTxs
<1>16. UndoneRows(e, u, x)
    <2>1. /\ x3.treeBalance = e.treeBalance /\ x3.rich = e.rich
          /\ x4.registerIdx = e.registerIdx
          /\ x5.tokenHolders = e.tokenHolders /\ x5.tokenHolderAmt = e.tokenHolderAmt
        BY <1>1, <1>2, <1>3, <1>4, <1>6 DEF Differ, TableKeys
    <2>2. /\ x6.tokens = e.tokens /\ x6.tokensByGidx = e.tokensByGidx
          /\ x6.tokensByHolders = e.tokensByHolders
          /\ x7.templates = e.templates /\ x8.ergoTrees = e.ergoTrees
        <3>1. \A k \in {"tokens", "tokensByGidx", "tokensByHolders", "templates", "ergoTrees"} :
                x3[k] = e[k]
            BY <1>1, <1>2, <1>3 DEF Differ, TableKeys
        <3>2. \A k \in {"tokens", "tokensByGidx", "tokensByHolders", "templates", "ergoTrees"} :
                x6[k] = x3[k]
            BY <1>1, <1>2, <1>3, <1>4, <1>6, <1>7 DEF Differ, TableKeys
        <3>3. x7.templates = x6.templates /\ x8.ergoTrees = x6.ergoTrees
            BY <1>1, <1>2, <1>3, <1>4, <1>6, <1>7, <1>8, <1>10 DEF Differ, TableKeys
        <3> QED BY <3>1, <3>2, <3>3
    <2>3. /\ x.treeBalance = x4.treeBalance /\ x.rich = x4.rich
          /\ x.registerIdx = x5.registerIdx
          /\ x.tokenHolders = x6.tokenHolders /\ x.tokenHolderAmt = x6.tokenHolderAmt
        <3>1. \A k \in {"treeBalance", "rich", "tokenHolders", "tokenHolderAmt", "registerIdx"} :
                x[k] = x6[k]
            BY <1>5, <1>6, <1>7, <1>8, <1>10, <1>11, <1>12 DEF Differ, TableKeys
        <3>2. /\ x6.treeBalance = x4.treeBalance /\ x6.rich = x4.rich
              /\ x6.registerIdx = x5.registerIdx
            BY <1>5, <1>6, <1>7 DEF Differ, TableKeys
        <3> QED BY <3>1, <3>2
    <2>4. /\ x.tokens = x7.tokens /\ x.tokensByGidx = x7.tokensByGidx
          /\ x.tokensByHolders = x7.tokensByHolders
          /\ x.templates = x8.templates /\ x.ergoTrees = x9.ergoTrees
        BY <1>9, <1>10, <1>11, <1>12 DEF Differ, TableKeys
    <2>5. /\ x.treeBalance = Over(u.prevBalances, Drop(e.treeBalance, u.newBalances))
          /\ x.rich = (e.rich \ {<<e.treeBalance[t].nano, t>> :
                                    t \in u.newBalances \cup DOMAIN u.prevBalances})
                          \cup RichOf(u.prevBalances)
        BY <1>4, <2>1, <2>3
    <2>6. /\ x.tokens = Over(u.prevTokens, Drop(e.tokens, u.newTokens))
          /\ x.tokensByGidx = Drop(e.tokensByGidx, {e.tokens[t].mintGidx : t \in u.newTokens})
          /\ x.tokensByHolders = (e.tokensByHolders \ {<<e.tokens[t].holderCount, t>> :
                                        t \in u.newTokens \cup DOMAIN u.prevTokens})
                                    \cup RankOf(u.prevTokens)
        BY <1>8, <2>2, <2>4
    <2>7. /\ x.tokenHolderAmt =
                Drop(Over(u.prevHolderAmts, e.tokenHolderAmt), NoneIn(u.prevHolderAmts))
          /\ x.tokenHolders =
                (e.tokenHolders \ {<<k[1], e.tokenHolderAmt[k], k[2]>> :
                                    k \in DOMAIN u.prevHolderAmts \cap DOMAIN e.tokenHolderAmt})
                  \cup ListingOf(u.prevHolderAmts,
                                 DOMAIN u.prevHolderAmts \ NoneIn(u.prevHolderAmts))
        BY <1>7, <2>1, <2>3
    <2>8. /\ x.templates = Drop(Over(u.prevTemplates, e.templates), u.newTemplates)
          /\ x.registerIdx = e.registerIdx \ u.registerKeys
          /\ x.ergoTrees = e.ergoTrees \ u.newTrees
        BY <1>6, <1>10, <1>11, <2>1, <2>2, <2>3, <2>4
    <2> QED BY <2>5, <2>6, <2>7, <2>8 DEF UndoneRows
<1>17. UndoneMeta(e, u, h, x)
    <2>1. /\ x9.headerById = e.headerById /\ x9.headers = e.headers /\ x9.undo = e.undo
          /\ x9.genesisSeeded = e.genesisSeeded /\ x9.genesisToken = e.genesisToken
          /\ x9.emissionTree = e.emissionTree
        BY <1>1, <1>2, <1>3, <1>4, <1>6, <1>7, <1>8, <1>10, <1>11 DEF Differ, TableKeys
    <2>2. /\ x.genesisSeeded = x9.genesisSeeded /\ x.genesisToken = x9.genesisToken
          /\ x.emissionTree = x9.emissionTree
        BY <1>9, <1>10, <1>11, <1>12 DEF Differ, TableKeys
    <2> QED BY <1>12, <2>1, <2>2 DEF UndoneMeta
<1>18. Restored(e, u, h, x)
    BY <1>13, <1>14, <1>15, <1>16, <1>17 DEF Restored
<1> QED BY <1>0, <1>18 DEF u


-----------------------------------------------------------------------------
(* What each group of tables is again, once undone.                        *)

LEMMA BoxesBack ==
    ASSUME NEW d, NEW e, NEW u, BoxBase(d, e, u), NEW x, UndoneBoxes(e, u, x)
    PROVE  /\ x.boxes = d.boxes /\ x.boxByGidx = d.boxByGidx
           /\ \A kind \in Kinds : Every(kind, x) = Every(kind, d) /\ Open(kind, x) = Open(kind, d)
<1> DEFINE made == u.createdBoxes
           left == Drop(e.boxes, made)
           ids  == u.spentBoxes \cap DOMAIN left
           old  == u.spentBoxes \cap DOMAIN d.boxes
           nums == {e.boxes[id].gidx : id \in made}
<1>1. /\ made \cap DOMAIN d.boxes = {} /\ DOMAIN e.boxes = DOMAIN d.boxes \cup made
      /\ \A id \in DOMAIN d.boxes :
            IF id \in u.spentBoxes THEN d.boxes[id] = [e.boxes[id] EXCEPT !.spent = Unspent]
                                   ELSE e.boxes[id] = d.boxes[id]
      /\ \A id \in made : d.nextBox <= e.boxes[id].gidx
    BY DEF BoxBase, BoxSince, BoxesSince
<1>2. /\ DOMAIN left = DOMAIN e.boxes \ made
      /\ \A id \in DOMAIN e.boxes \ made : left[id] = e.boxes[id]
    BY DropIs
<1>3. DOMAIN left = DOMAIN d.boxes /\ ids = old
    BY <1>1, <1>2
<1> HIDE DEF left, ids, old
<1>4. x.boxes = d.boxes
    <2> DEFINE f == [id \in DOMAIN left |->
                        IF id \in ids THEN [left[id] EXCEPT !.spent = Unspent] ELSE left[id]]
    <2>1. x.boxes = f
        BY DEF UndoneBoxes, left, ids
    <2>2. IsTable(f) /\ DOMAIN f = DOMAIN d.boxes
        BY <1>3 DEF IsTable
    <2>3. \A id \in DOMAIN d.boxes : f[id] = d.boxes[id]
        BY <1>1, <1>2, <1>3 DEF old
    <2>4. IsTable(d.boxes)
        BY DEF BoxBase, BoxOK, Numbered
    <2> HIDE DEF f
    <2> QED BY <2>1, <2>2, <2>3, <2>4, SameTable
<1>5. x.boxByGidx = d.boxByGidx
    <2> DEFINE f == Drop(e.boxByGidx, nums)
    <2>1. x.boxByGidx = f
        BY DEF UndoneBoxes
    <2>2. /\ DOMAIN f = DOMAIN e.boxByGidx \ nums /\ IsTable(f)
          /\ \A g \in DOMAIN e.boxByGidx \ nums : f[g] = e.boxByGidx[g]
        <3> HIDE DEF nums
        <3> QED BY DropIs
    <2> HIDE DEF f
    <2>3. \A g \in DOMAIN d.boxByGidx : g \in Nat /\ g < d.nextBox
        BY DEF BoxBase, BoxOK, Numbered
    <2>4. d.nextBox \in Nat /\ \A id \in made : e.boxes[id].gidx \in Nat
        BY <1>1 DEF BoxBase, BoxOK, Numbered
    <2>5. DOMAIN d.boxByGidx \cap nums = {}
        BY <1>1, <2>3, <2>4
    <2>6. /\ \A g \in DOMAIN d.boxByGidx :
                g \in DOMAIN e.boxByGidx /\ e.boxByGidx[g] = d.boxByGidx[g]
          /\ DOMAIN e.boxByGidx \subseteq DOMAIN d.boxByGidx \cup nums
        BY DEF BoxBase, BoxSince, NumbersSince
    <2> HIDE DEF nums
    <2>7. DOMAIN f = DOMAIN d.boxByGidx /\ \A g \in DOMAIN f : f[g] = d.boxByGidx[g]
        BY <2>2, <2>5, <2>6
    <2>8. IsTable(d.boxByGidx)
        BY DEF BoxBase, BoxOK, Numbered
    <2> QED BY <2>1, <2>2, <2>7, <2>8, SameTable
<1>6. ASSUME NEW kind \in Kinds
      PROVE  Every(kind, x) = Every(kind, d) /\ Open(kind, x) = Open(kind, d)
    <2> DEFINE come == Held(kind, e.boxes, made)
               gone == Held(kind, e.boxes, old)
    <2>1. come \cap (Open(kind, d) \cup Every(kind, d)) = {}
        BY NewApart DEF Held
    <2>2. Every(kind, x) = Every(kind, e) \ come
        BY DEF UndoneBoxes
    <2>3. Held(kind, left, ids) = gone
        <3>1. \A id \in old : IsRow(e.boxes[id]) /\ left[id] = e.boxes[id]
            BY <1>1, <1>2, <1>3 DEF BoxBase, Numbered, old
        <3> QED BY <1>3, <3>1 DEF Held
    <2>4. Shuffled(Open(kind, d), Open(kind, e), come, gone)
        BY DEF BoxBase, BoxSince, OpenSince, old
    <2>5. Shuffled(Every(kind, d), Every(kind, e), come, {})
        BY DEF BoxBase, BoxSince, EverySince
    <2>6. Every(kind, x) = Every(kind, d)
        <3> HIDE DEF come, gone
        <3> QED BY <2>1, <2>2, <2>5 DEF Shuffled
    <2>7. CASE kind # "rent"
        <3>1. Open(kind, x) = (Open(kind, e) \ come) \cup gone
            BY <2>3, <2>7 DEF UndoneBoxes, left, ids
        <3> HIDE DEF come, gone
        <3> QED BY <2>1, <2>4, <2>6, <3>1 DEF Shuffled
    <2>8. CASE kind = "rent"
        <3>1. Open(kind, x) = {k \in Open(kind, e) : k[3] \notin made} \cup gone
            BY <2>3, <2>8 DEF UndoneBoxes, left, ids, Open
        <3>2. \A k \in Open(kind, d) : k[3] \notin made
            BY <1>1, <2>8 DEF Open, BoxBase, BoxOK, Bounded
        <3>3. \A k \in come : k[3] \in made
            BY <2>8 DEF Held, KeysOf
        <3> HIDE DEF come, gone, made
        <3> QED BY <2>1, <2>4, <2>6, <3>1, <3>2, <3>3 DEF Shuffled
    <2> QED BY <2>7, <2>8
<1> QED BY <1>4, <1>5, <1>6

LEMMA TxsBack ==
    ASSUME NEW d, NEW e, NEW u, TxsSealed(d, e, u), NEW x, UndoneTxs(e, u, x)
    PROVE  x.txs = d.txs /\ x.txByGidx = d.txByGidx /\ x.treeTxs = d.treeTxs
<1> DEFINE nums == {e.txs[id].gidx : id \in u.txIds}
           f == Drop(e.txs, u.txIds)
           g == Drop(e.txByGidx, nums)
<1>1. /\ DOMAIN f = DOMAIN e.txs \ u.txIds /\ IsTable(f)
      /\ \A k \in DOMAIN e.txs \ u.txIds : f[k] = e.txs[k]
    BY DropIs
<1>2. /\ DOMAIN g = DOMAIN e.txByGidx \ nums /\ IsTable(g)
      /\ \A k \in DOMAIN e.txByGidx \ nums : g[k] = e.txByGidx[k]
    <2> HIDE DEF nums
    <2> QED BY DropIs
<1>3. x.txs = f /\ x.txByGidx = g
    BY DEF UndoneTxs
<1> HIDE DEF f, g
<1>4. x.txs = d.txs
    <2>1. IsTable(d.txs) /\ DOMAIN f = DOMAIN d.txs /\ \A k \in DOMAIN f : f[k] = d.txs[k]
        BY <1>1 DEF TxsSealed, TxOK
    <2> QED BY <1>1, <1>3, <2>1, SameTable
<1>5. x.txByGidx = d.txByGidx
    <2>1. DOMAIN d.txByGidx \cap nums = {}
        BY DEF TxsSealed, TxOK
    <2>2. DOMAIN e.txByGidx \subseteq DOMAIN d.txByGidx \cup nums
        BY DEF TxsSealed
    <2> HIDE DEF nums
    <2>3. /\ IsTable(d.txByGidx) /\ DOMAIN g = DOMAIN d.txByGidx
          /\ \A k \in DOMAIN g : g[k] = d.txByGidx[k]
        BY <1>2, <2>1, <2>2 DEF TxsSealed, TxOK
    <2> QED BY <1>2, <1>3, <2>3, SameTable
<1>6. x.treeTxs = d.treeTxs
    <2>1. d.treeTxs \cap u.treeTxs = {}
        BY DEF TxsSealed, TxOK
    <2> QED BY <2>1 DEF TxsSealed, UndoneTxs, Shuffled
<1> QED BY <1>4, <1>5, <1>6


LEMMA RowsBack ==
    ASSUME NEW d, NEW e, NEW u, d.nextBox \in Nat, RowsSealed(d, e, u), Ranked(d), Ranked(e),
           MintSealed(d, e, u), NEW x, UndoneRows(e, u, x)
    PROVE  /\ x.treeBalance = d.treeBalance /\ x.rich = d.rich
           /\ x.tokens = d.tokens /\ x.tokensByHolders = d.tokensByHolders
           /\ x.tokenHolderAmt = d.tokenHolderAmt /\ x.tokenHolders = d.tokenHolders
           /\ x.templates = d.templates /\ x.tokensByGidx = d.tokensByGidx
<1>1. /\ Undoes(d.treeBalance, e.treeBalance, u.newBalances, u.prevBalances)
      /\ Undoes(d.tokens, e.tokens, u.newTokens, u.prevTokens)
      /\ Undoes(d.templates, e.templates, u.newTemplates, u.prevTemplates)
      /\ HoldersUndo(d.tokenHolderAmt, e.tokenHolderAmt, u.prevHolderAmts)
    BY DEF RowsSealed
<1>2. /\ Over(u.prevBalances, Drop(e.treeBalance, u.newBalances)) = d.treeBalance
      /\ Over(u.prevTokens, Drop(e.tokens, u.newTokens)) = d.tokens
      /\ Drop(Over(u.prevTemplates, e.templates), u.newTemplates) = d.templates
      /\ Drop(Over(u.prevHolderAmts, e.tokenHolderAmt), NoneIn(u.prevHolderAmts))
            = d.tokenHolderAmt
    <2>1. Over(u.prevBalances, Drop(e.treeBalance, u.newBalances)) = d.treeBalance
        BY <1>1, UndoneTable
    <2>2. Over(u.prevTokens, Drop(e.tokens, u.newTokens)) = d.tokens
        BY <1>1, UndoneTable
    <2>3. Drop(Over(u.prevTemplates, e.templates), u.newTemplates) = d.templates
        BY <1>1, UndoneTable
    <2>4. Drop(Over(u.prevHolderAmts, e.tokenHolderAmt), NoneIn(u.prevHolderAmts))
            = d.tokenHolderAmt
        BY <1>1, UndoneHolders
    <2> QED BY <2>1, <2>2, <2>3, <2>4
<1>3. /\ x.treeBalance = d.treeBalance /\ x.tokens = d.tokens /\ x.templates = d.templates
      /\ x.tokenHolderAmt = d.tokenHolderAmt
    BY <1>2, Zenon DEF UndoneRows
<1>4. x.rich = d.rich
    <2>1. RichBack(d.treeBalance, e.treeBalance, u.newBalances, u.prevBalances)
        BY <1>1, UndoneRich
    <2> QED BY <2>1, Zenon DEF RichBack, RichLeft, Ranked, UndoneRows
<1>5. x.tokensByHolders = d.tokensByHolders
    <2>1. RankBack(d.tokens, e.tokens, u.newTokens, u.prevTokens)
        BY <1>1, UndoneRank
    <2> QED BY <2>1, Zenon DEF RankBack, RankLeft, Ranked, UndoneRows
<1>6. x.tokenHolders = d.tokenHolders
    <2>1. ListingLeft(e.tokenHolderAmt, DOMAIN u.prevHolderAmts)
            \cup ListingOf(u.prevHolderAmts, DOMAIN u.prevHolderAmts \ NoneIn(u.prevHolderAmts))
            = HoldersOf(d.tokenHolderAmt)
        BY <1>1, UndoneListing
    <2> QED BY <2>1, Zenon DEF ListingLeft, Ranked, UndoneRows
<1>7. x.tokensByGidx = d.tokensByGidx
    <2> DEFINE nums == {e.tokens[t].mintGidx : t \in u.newTokens}
               g == Drop(e.tokensByGidx, nums)
    <2>1. /\ DOMAIN g = DOMAIN e.tokensByGidx \ nums /\ IsTable(g)
          /\ \A k \in DOMAIN e.tokensByGidx \ nums : g[k] = e.tokensByGidx[k]
        <3> HIDE DEF nums
        <3> QED BY DropIs
    <2>2. x.tokensByGidx = g
        BY DEF UndoneRows
    <2> HIDE DEF g
    <2>3. /\ \A k \in DOMAIN d.tokensByGidx : k \in Nat /\ k < d.nextBox
          /\ \A t \in u.newTokens : d.nextBox <= e.tokens[t].mintGidx
        BY DEF MintSealed, MintOK, MintSince
    <2>4. DOMAIN d.tokensByGidx \cap nums = {}
        BY <2>3
    <2>5. /\ \A k \in DOMAIN d.tokensByGidx :
                k \in DOMAIN e.tokensByGidx /\ e.tokensByGidx[k] = d.tokensByGidx[k]
          /\ DOMAIN e.tokensByGidx \subseteq DOMAIN d.tokensByGidx \cup nums
        BY DEF MintSealed, MintSince
    <2> HIDE DEF nums
    <2>6. /\ IsTable(d.tokensByGidx) /\ DOMAIN g = DOMAIN d.tokensByGidx
          /\ \A k \in DOMAIN g : g[k] = d.tokensByGidx[k]
        BY <2>1, <2>4, <2>5 DEF MintSealed, MintOK
    <2> QED BY <2>1, <2>2, <2>6, SameTable
<1> QED BY <1>3, <1>4, <1>5, <1>6, <1>7

LEMMA PutBack ==
    ASSUME NEW f, IsTable(f), NEW k, k \notin DOMAIN f, NEW row
    PROVE  Drop(Put(f, k, row), {k}) = f /\ Put(f, k, row)[k] = row
<1> DEFINE p == Put(f, k, row)
           g == Drop(p, {k})
<1>1. /\ DOMAIN p = {k} \cup DOMAIN f /\ p[k] = row
      /\ \A x \in DOMAIN f : p[x] = f[x]
    BY DEF Put
<1>2. DOMAIN g = DOMAIN p \ {k} /\ IsTable(g) /\ \A x \in DOMAIN p \ {k} : g[x] = p[x]
    <2> HIDE DEF p
    <2> QED BY DropIs
<1> HIDE DEF g, p
<1>3. DOMAIN g = DOMAIN f /\ \A x \in DOMAIN g : g[x] = f[x]
    BY <1>1, <1>2
<1>4. g = f
    BY <1>2, <1>3, SameTable
<1> QED BY <1>1, <1>4 DEF p, g

LEMMA HeaderBack ==
    ASSUME NEW d, NEW e, NEW u, NEW h, HeaderSealed(d, e, u, h), MetaSealed(d, e, u),
           NEW x, UndoneMeta(e, u, h, x)
    PROVE  /\ x.headers = d.headers /\ x.headerById = d.headerById
           /\ x.nextBox = d.nextBox /\ x.nextTx = d.nextTx
           /\ x.genesisSeeded = d.genesisSeeded /\ x.genesisToken = d.genesisToken
           /\ x.emissionTree = d.emissionTree
<1>1. PICK row : /\ e.headers = Put(d.headers, h, row) /\ row.id \notin DOMAIN d.headerById
                 /\ e.headerById = Put(d.headerById, row.id, h)
    BY DEF HeaderSealed
<1>2. Drop(e.headers, {h}) = d.headers /\ e.headers[h] = row
    BY <1>1, PutBack DEF HeaderSealed
<1>3. Drop(e.headerById, {row.id}) = d.headerById
    BY <1>1, PutBack DEF HeaderSealed
<1> QED BY <1>2, <1>3 DEF UndoneMeta, MetaSealed

LEMMA SetsBack ==
    ASSUME NEW d, NEW e, NEW u, BoxBase(d, e, u), TreesSince(d, e, u.newTrees),
           NEW x, UndoneRows(e, u, x)
    PROVE  x.registerIdx = d.registerIdx /\ x.ergoTrees = d.ergoTrees
<1>1. d.registerIdx \cap u.registerKeys = {}
    <2>1. \A k \in d.registerIdx : k[3] \in Nat /\ k[3] < d.nextBox
        BY DEF BoxBase, BoxOK, Bounded
    <2>2. \A k \in u.registerKeys : k[3] \in Nat /\ d.nextBox <= k[3]
        BY DEF BoxBase, BoxSince, RegistersSince
    <2>3. d.nextBox \in Nat
        BY DEF BoxBase, BoxOK, Numbered
    <2> QED BY <2>1, <2>2, <2>3
<1>2. Shuffled(d.registerIdx, e.registerIdx, u.registerKeys, {})
    BY DEF BoxBase, BoxSince, RegistersSince
<1>3. x.registerIdx = e.registerIdx \ u.registerKeys /\ x.ergoTrees = e.ergoTrees \ u.newTrees
    BY DEF UndoneRows
<1>4. x.registerIdx = d.registerIdx
    BY <1>1, <1>2, <1>3 DEF Shuffled
<1> QED BY <1>3, <1>4 DEF TreesSince

-----------------------------------------------------------------------------
(* The same tables, but for the undo rows and the transaction counter.     *)

Alike(d, e) ==
    DOMAIN d = TableKeys /\ DOMAIN e = TableKeys
        /\ \A k \in TableKeys \ {"undo", "nextTx"} : d[k] = e[k]

LEMMA SealedAlike ==
    ASSUME NEW d, NEW z, NEW u, NEW h, Sealed(d, z, u, h), NEW e, Alike(e, z)
    PROVE  Sealed(d, e, u, h)
<1>1. /\ e.boxes = z.boxes /\ e.boxByGidx = z.boxByGidx /\ e.nextBox = z.nextBox
      /\ e.registerIdx = z.registerIdx
      /\ \A kind \in Kinds : Open(kind, e) = Open(kind, z) /\ Every(kind, e) = Every(kind, z)
    BY DEF Alike, TableKeys, Open, Every
<1>2. /\ e.txs = z.txs /\ e.txByGidx = z.txByGidx /\ e.treeTxs = z.treeTxs
      /\ e.ergoTrees = z.ergoTrees /\ e.tokensByGidx = z.tokensByGidx
      /\ e.headers = z.headers /\ e.headerById = z.headerById
      /\ e.genesisSeeded = z.genesisSeeded /\ e.genesisToken = z.genesisToken
      /\ e.emissionTree = z.emissionTree
    BY DEF Alike, TableKeys
<1>3. /\ e.treeBalance = z.treeBalance /\ e.rich = z.rich /\ e.tokens = z.tokens
      /\ e.tokensByHolders = z.tokensByHolders /\ e.templates = z.templates
      /\ e.tokenHolderAmt = z.tokenHolderAmt /\ e.tokenHolders = z.tokenHolders
    BY DEF Alike, TableKeys
<1>4. BoxBase(d, e, u)
    <2>1. BoxOK(d, {}) /\ Numbered(z) /\ BoxSince(d, z, u)
        BY DEF Sealed, BoxBase
    <2>2. Numbered(e)
        BY <1>1, <2>1, Zenon DEF Numbered
    <2>3. BoxesSince(d, e, u.createdBoxes, u.spentBoxes) /\ NumbersSince(d, e, u.createdBoxes)
        BY <1>1, <2>1, Zenon DEF BoxSince, BoxesSince, NumbersSince
    <2>4. /\ OpenSince(d, e, u.createdBoxes, u.spentBoxes) /\ EverySince(d, e, u.createdBoxes)
          /\ RegistersSince(d, e, u.registerKeys)
        BY <1>1, <2>1 DEF BoxSince, OpenSince, EverySince, RegistersSince
    <2> QED BY <2>1, <2>2, <2>3, <2>4 DEF BoxBase, BoxSince
<1>5. TxsSealed(d, e, u) /\ TreesSince(d, e, u.newTrees) /\ MintSealed(d, e, u)
    <2>1. TxsSealed(d, e, u)
        BY <1>2 DEF Sealed, TxsSealed
    <2>2. TreesSince(d, e, u.newTrees)
        BY <1>2 DEF Sealed, TreesSince
    <2>3. MintSealed(d, e, u)
        BY <1>2, <1>3 DEF Sealed, MintSealed, MintSince
    <2> QED BY <2>1, <2>2, <2>3
<1>6. RowsSealed(d, e, u) /\ Ranked(d) /\ Ranked(e)
    BY <1>3, Zenon DEF Sealed, RowsSealed, Ranked
<1>7. HeaderSealed(d, e, u, h) /\ MetaSealed(d, e, u)
    BY <1>2, Zenon DEF Sealed, HeaderSealed, MetaSealed
<1> QED BY <1>4, <1>5, <1>6, <1>7 DEF Sealed, Alike

(* A block undone: every table but UNDO is the one it began over.          *)
THEOREM SealedBack ==
    ASSUME NEW d, NEW z, NEW h, NEW e, Alike(e, z), Sealed(d, z, e.undo[h], h)
    PROVE  LET x == UndoBlock(e, h)
           IN  DOMAIN x = TableKeys /\ \A k \in TableKeys \ {"undo"} : x[k] = d[k]
<1> DEFINE x == UndoBlock(e, h)
           u == e.undo[h]
<1>1. Restored(e, u, h, x)
    BY UndoBlockIs DEF Alike
<1>2. Sealed(d, e, u, h)
    BY SealedAlike
<1> HIDE DEF x, u
<1>3. /\ DOMAIN x = TableKeys /\ UndoneBoxes(e, u, x) /\ UndoneTxs(e, u, x)
      /\ UndoneRows(e, u, x) /\ UndoneMeta(e, u, h, x)
    BY <1>1 DEF Restored
<1>4. /\ BoxBase(d, e, u) /\ TxsSealed(d, e, u) /\ TreesSince(d, e, u.newTrees)
      /\ MintSealed(d, e, u) /\ RowsSealed(d, e, u) /\ Ranked(d) /\ Ranked(e)
      /\ HeaderSealed(d, e, u, h) /\ MetaSealed(d, e, u)
    BY <1>2 DEF Sealed
<1>5. /\ x.boxes = d.boxes /\ x.boxByGidx = d.boxByGidx
      /\ \A kind \in Kinds : Every(kind, x) = Every(kind, d) /\ Open(kind, x) = Open(kind, d)
    BY <1>3, <1>4, BoxesBack
<1>6. /\ x.treeBoxes = d.treeBoxes /\ x.templateBoxes = d.templateBoxes
      /\ x.tokenBoxes = d.tokenBoxes /\ x.treeUnspent = d.treeUnspent
      /\ x.templateUnspent = d.templateUnspent /\ x.tokenUnspent = d.tokenUnspent
      /\ x.rentMatures = d.rentMatures
    BY <1>5 DEF Kinds, Every, Open
<1>7. x.txs = d.txs /\ x.txByGidx = d.txByGidx /\ x.treeTxs = d.treeTxs
    BY <1>3, <1>4, TxsBack
<1>8. /\ x.treeBalance = d.treeBalance /\ x.rich = d.rich
      /\ x.tokens = d.tokens /\ x.tokensByHolders = d.tokensByHolders
      /\ x.tokenHolderAmt = d.tokenHolderAmt /\ x.tokenHolders = d.tokenHolders
      /\ x.templates = d.templates /\ x.tokensByGidx = d.tokensByGidx
    <2>1. d.nextBox \in Nat
        BY <1>4 DEF BoxBase, BoxOK, Numbered
    <2> QED BY <1>3, <1>4, <2>1, RowsBack
<1>9. /\ x.headers = d.headers /\ x.headerById = d.headerById
      /\ x.nextBox = d.nextBox /\ x.nextTx = d.nextTx
      /\ x.genesisSeeded = d.genesisSeeded /\ x.genesisToken = d.genesisToken
      /\ x.emissionTree = d.emissionTree
    BY <1>3, <1>4, HeaderBack
<1>10. x.registerIdx = d.registerIdx /\ x.ergoTrees = d.ergoTrees
    BY <1>3, <1>4, SetsBack
<1>11. \A k \in TableKeys \ {"undo"} : x[k] = d[k]
    BY <1>5, <1>6, <1>7, <1>8, <1>9, <1>10 DEF TableKeys
<1> QED BY <1>3, <1>11 DEF x

-----------------------------------------------------------------------------
(* The rows an undo needs.                                                 *)

(* The keys of the records that the helpers update.                        *)
UndoKeys == {"createdBoxes", "spentBoxes", "txIds", "treeTxs", "newBalances",
             "prevBalances", "prevNextBox", "prevNextTx", "newTrees", "newTemplates",
             "prevTemplates", "newTokens", "prevTokens", "prevHolderAmts", "registerKeys"}

CtxKeys == {"d", "h", "bal", "tmpl", "tok", "hold", "undo", "corrupt"}

(* What an undo row touched: these keys must be there to undo it.    *)
Balances(u) == u.newBalances \cup DOMAIN u.prevBalances
TokenIds(u) == u.newTokens \cup DOMAIN u.prevTokens

(* A row of BOXES.                                                         *)
RowOK(row, trees) == /\ {"tree", "tokens", "spent"} \subseteq DOMAIN row
                     /\ row.tree \in trees
                     /\ IsFiniteSet(DOMAIN row.tokens)


Good(c) ==
    /\ DOMAIN c = CtxKeys /\ DOMAIN c.d = TableKeys /\ DOMAIN c.undo = UndoKeys
    /\ IsFiniteSet(DOMAIN c.hold) /\ IsFiniteSet(c.d.registerIdx)
    /\ \A id \in DOMAIN c.d.boxes : RowOK(c.d.boxes[id], c.d.ergoTrees)
    /\ c.undo.spentBoxes \subseteq DOMAIN c.d.boxes
    /\ Balances(c.undo) \subseteq DOMAIN c.d.treeBalance
    /\ TokenIds(c.undo) \subseteq DOMAIN c.d.tokens

(* From c to e a block in progress made the boxes of made, noted those of  *)
(* noted and the transactions of txs in its undo row, and at most n        *)
(* register entries; what it calls new was not there before.               *)
Moves(c, e, made, noted, txs, n) ==
    /\ Good(e)
    /\ e.h = c.h /\ e.d.headers = c.d.headers /\ e.d.undo = c.d.undo
    /\ e.d.genesisSeeded = c.d.genesisSeeded
    /\ DOMAIN e.d.boxes = DOMAIN c.d.boxes \cup made
    /\ \A id \in DOMAIN c.d.boxes \ made : e.d.boxes[id].tree = c.d.boxes[id].tree
    /\ c.d.ergoTrees \subseteq e.d.ergoTrees
    /\ DOMAIN c.d.treeBalance \subseteq DOMAIN e.d.treeBalance
    /\ DOMAIN c.d.tokens \subseteq DOMAIN e.d.tokens
    /\ \A t \in e.undo.newTrees : t \in c.undo.newTrees \/ t \notin c.d.ergoTrees
    /\ \A t \in e.undo.newBalances :
          t \in c.undo.newBalances \/ t \notin DOMAIN c.d.treeBalance
    /\ \A t \in e.undo.newTokens : t \in c.undo.newTokens \/ t \notin DOMAIN c.d.tokens
    /\ e.undo.createdBoxes = c.undo.createdBoxes \cup noted
    /\ e.undo.txIds = c.undo.txIds \cup txs
    /\ DOMAIN e.d.txs = DOMAIN c.d.txs \cup txs
    /\ n \in Nat
    /\ Cardinality(e.d.registerIdx) <= Cardinality(c.d.registerIdx) + n

(* Facts about functions and finite sets. *)
LEMMA OverDomain ==
    ASSUME NEW f, NEW g
    PROVE  /\ DOMAIN Over(f, g) = DOMAIN f \cup DOMAIN g
           /\ \A x \in DOMAIN f : Over(f, g)[x] = f[x]
           /\ \A x \in DOMAIN g \ DOMAIN f : Over(f, g)[x] = g[x]
BY DEF Over

LEMMA RestrictedKeys ==
    ASSUME NEW f, NEW S
    PROVE  /\ DOMAIN Restrict(f, S) = S
           /\ \A x \in S : Restrict(f, S)[x] = f[x]
BY DEF Restrict

LEMMA ImageFinite ==
    ASSUME NEW S, IsFiniteSet(S), NEW f, DOMAIN f = S
    PROVE  LET Image == {f[x] : x \in S}
           IN  IsFiniteSet(Image) /\ Cardinality(Image) <= Cardinality(S)
<1> DEFINE Image == {f[x] : x \in S}
           g == [x \in S |-> f[x]]
<1>1. g \in Surjection(S, Image)
    BY DEF Surjection
<1> HIDE DEF g, Image
<1>2. IsFiniteSet(Image) /\ Cardinality(Image) <= Cardinality(S)
    BY <1>1, FS_Surjection
<1> QED BY <1>2 DEF Image

LEMMA MovesTrans ==
    ASSUME NEW c, NEW e, NEW f, Good(c), NEW made1, NEW made2, NEW noted1, NEW noted2,
           NEW txs1, NEW txs2, NEW n1, NEW n2,
           Moves(c, e, made1, noted1, txs1, n1), Moves(e, f, made2, noted2, txs2, n2)
    PROVE  Moves(c, f, made1 \cup made2, noted1 \cup noted2, txs1 \cup txs2, n1 + n2)
<1>1. /\ Cardinality(c.d.registerIdx) \in Nat /\ Cardinality(e.d.registerIdx) \in Nat
      /\ Cardinality(f.d.registerIdx) \in Nat
    BY FS_CardinalityType DEF Moves, Good
<1>2. /\ n1 + n2 \in Nat
      /\ Cardinality(f.d.registerIdx) <= Cardinality(c.d.registerIdx) + (n1 + n2)
    BY <1>1 DEF Moves
<1>3. Good(f)
    BY DEF Moves
<1> HIDE DEF Good
<1>4. \A id \in DOMAIN c.d.boxes \ (made1 \cup made2) : f.d.boxes[id].tree = c.d.boxes[id].tree
    BY DEF Moves
<1> QED BY <1>2, <1>3, <1>4 DEF Moves

(* What changes none of that moves nothing. *)
SameView(c, e) ==
    /\ DOMAIN e = DOMAIN c /\ DOMAIN e.d = DOMAIN c.d /\ DOMAIN e.undo = DOMAIN c.undo
    /\ IsFiniteSet(DOMAIN e.hold)
    /\ e.h = c.h /\ e.d.headers = c.d.headers /\ e.d.undo = c.d.undo
    /\ e.d.genesisSeeded = c.d.genesisSeeded
    /\ e.d.boxes = c.d.boxes /\ e.d.ergoTrees = c.d.ergoTrees /\ e.d.txs = c.d.txs
    /\ e.d.treeBalance = c.d.treeBalance /\ e.d.tokens = c.d.tokens
    /\ e.d.registerIdx = c.d.registerIdx
    /\ e.undo.createdBoxes = c.undo.createdBoxes /\ e.undo.spentBoxes = c.undo.spentBoxes
    /\ e.undo.txIds = c.undo.txIds /\ e.undo.newTrees = c.undo.newTrees
    /\ e.undo.newBalances = c.undo.newBalances /\ e.undo.prevBalances = c.undo.prevBalances
    /\ e.undo.newTokens = c.undo.newTokens /\ e.undo.prevTokens = c.undo.prevTokens

Quiet(c, e) == Moves(c, e, {}, {}, {}, 0)

LEMMA SameViewQuiet ==
    ASSUME NEW c, NEW e, Good(c), SameView(c, e)
    PROVE  Quiet(c, e)
<1>1. Good(e)
    BY DEF Good, SameView, Balances, TokenIds
<1>2. Cardinality(e.d.registerIdx) \in Nat /\ e.d.registerIdx = c.d.registerIdx
    BY <1>1, FS_CardinalityType DEF Good, SameView
<1> HIDE DEF Good
<1> QED BY <1>1, <1>2 DEF Moves, Quiet, SameView

LEMMA QuietTrans ==
    ASSUME NEW c, NEW e, NEW f, Good(c), Quiet(c, e), Quiet(e, f)
    PROVE  Quiet(c, f)
<1>1. Moves(c, f, {} \cup {}, {} \cup {}, {} \cup {}, 0 + 0)
    BY MovesTrans DEF Quiet
<1> QED BY <1>1 DEF Quiet

LEMMA QuietGood ==
    ASSUME NEW c, NEW e, Quiet(c, e)
    PROVE  Good(e)
BY DEF Quiet, Moves

LEMMA QuietRefl ==
    ASSUME NEW c, Good(c)
    PROVE  Quiet(c, c)
<1>1. SameView(c, c)
    BY DEF SameView, Good
<1> QED BY <1>1, SameViewQuiet

-----------------------------------------------------------------------------
(* The helpers that only touch tables no undo check reads.                 *)

LEMMA CorruptQuiet ==
    ASSUME NEW c, Good(c)
    PROVE  Quiet(c, Corrupt(c))
<1>1. SameView(c, Corrupt(c))
    BY DEF SameView, Good, Corrupt, CtxKeys
<1> QED BY <1>1, SameViewQuiet

LEMMA ExtrasOnSpendQuiet ==
    ASSUME NEW c, Good(c), NEW row
    PROVE  Quiet(c, ExtrasOnSpend(c, row))
<1> DEFINE t == TemplateRow(c, row.tree)
           e == [c EXCEPT
                  !.d.templateUnspent = @ \ {<<Template[row.tree], row.gidx>>},
                  !.tmpl = Put(@, Template[row.tree], [t EXCEPT !.unspentCount = @ - 1])]
<1>1. SameView(c, e)
    BY DEF SameView, Good, CtxKeys, TableKeys
<1>2. Quiet(c, e)
    BY <1>1, SameViewQuiet
<1> QED BY <1>2, CorruptQuiet, Zenon DEF ExtrasOnSpend

LEMMA OnMintQuiet ==
    ASSUME NEW c, Good(c), NEW tx, NEW firstOut
    PROVE  Quiet(c, OnMint(c, tx, firstOut))
<1>1. \A mints, rows :
        SameView(c, [c EXCEPT !.d.tokensByGidx = mints, !.tok = rows])
    BY DEF SameView, Good, CtxKeys, TableKeys
<1>2. \A mints, rows :
        Quiet(c, [c EXCEPT !.d.tokensByGidx = mints, !.tok = rows])
    BY <1>1, SameViewQuiet
<1> QED BY <1>2, QuietRefl, Zenon DEF OnMint

LEMMA TokensOnSpendQuiet ==
    ASSUME NEW c, Good(c), NEW row, IsFiniteSet(DOMAIN row.tokens)
    PROVE  Quiet(c, TokensOnSpend(c, row))
<1> DEFINE keys == {<<t, row.tree>> : t \in BagToSet(row.tokens)}
           after(token) == HolderAmt(c, token, row.tree) - Copies(token, row.tokens)
           hold == Over([k \in keys |-> after(k[1])], c.hold)
           e == [c EXCEPT
                  !.d.tokenUnspent = @ \ {<<t, row.gidx>> : t \in BagToSet(row.tokens)},
                  !.hold = hold]
<1>1. IsFiniteSet(keys)
    <2> DEFINE f == [t \in DOMAIN row.tokens |-> <<t, row.tree>>]
    <2>1. IsFiniteSet({f[t] : t \in DOMAIN row.tokens})
        <3> HIDE DEF f
        <3>1. DOMAIN f = DOMAIN row.tokens
            BY DEF f
        <3> QED BY <3>1, ImageFinite
    <2>2. keys = {f[t] : t \in DOMAIN row.tokens}
        BY DEF BagToSet
    <2> QED BY <2>1, <2>2
<1>2. IsFiniteSet(DOMAIN hold)
    <2> DEFINE left == [k \in keys |-> after(k[1])]
    <2>1. DOMAIN left = keys
        OBVIOUS
    <2> HIDE DEF left, keys
    <2>2. DOMAIN Over(left, c.hold) = keys \cup DOMAIN c.hold
        BY <2>1, OverDomain
    <2>3. IsFiniteSet(keys \cup DOMAIN c.hold)
        BY <1>1, FS_Union DEF Good
    <2> QED BY <2>2, <2>3 DEF left
<1> HIDE DEF keys, hold
<1>3. SameView(c, e)
    BY <1>2 DEF SameView, Good, CtxKeys, TableKeys
<1>4. Quiet(c, e)
    BY <1>3, SameViewQuiet
<1> QED BY <1>4, CorruptQuiet, Zenon DEF TokensOnSpend, hold, keys

LEMMA WithTokenRowQuiet ==
    ASSUME NEW c, Good(c), NEW rows
    PROVE  Quiet(c, [c EXCEPT !.tok = rows])
<1>1. SameView(c, [c EXCEPT !.tok = rows])
    BY DEF SameView, Good, CtxKeys
<1> QED BY <1>1, SameViewQuiet

LEMMA CountBoxQuiet ==
    ASSUME NEW c, Good(c), NEW token
    PROVE  Quiet(c, CountBox(c, token))
BY WithTokenRowQuiet, QuietRefl, Zenon DEF CountBox, WithTokenRow

LEMMA AddBurnedQuiet ==
    ASSUME NEW c, Good(c), NEW token, NEW amount
    PROVE  Quiet(c, AddBurned(c, token, amount))
BY WithTokenRowQuiet, QuietRefl, Zenon DEF AddBurned, WithTokenRow

LEMMA MoveHoldersQuiet ==
    ASSUME NEW c, Good(c), NEW token, NEW delta
    PROVE  Quiet(c, MoveHolders(c, token, delta))
BY WithTokenRowQuiet, QuietRefl, Zenon DEF MoveHolders, WithTokenRow

LEMMA TouchTreesQuiet ==
    ASSUME NEW c, Good(c), NEW trees, NEW gidx
    PROVE  Quiet(c, TouchTrees(c, trees, gidx))
<1>1. SameView(c, TouchTrees(c, trees, gidx))
    BY DEF SameView, Good, CtxKeys, TableKeys, UndoKeys, TouchTrees
<1> QED BY <1>1, SameViewQuiet

LEMMA FlushTemplatesQuiet ==
    ASSUME NEW c, Good(c)
    PROVE  Quiet(c, FlushTemplates(c))
<1>1. SameView(c, FlushTemplates(c))
    BY DEF SameView, Good, CtxKeys, TableKeys, UndoKeys, FlushTemplates
<1> QED BY <1>1, SameViewQuiet

LEMMA FlushHoldersQuiet ==
    ASSUME NEW c, Good(c)
    PROVE  Quiet(c, FlushHolders(c))
<1>1. SameView(c, FlushHolders(c))
    BY DEF SameView, Good, CtxKeys, TableKeys, UndoKeys, FlushHolders
<1> QED BY <1>1, SameViewQuiet

(* Any function on 1..n is a sequence of length n. *)
LEMMA FunctionLength ==
    ASSUME NEW n \in Nat, NEW f, DOMAIN f = 1..n
    PROVE  Len(f) = n
<1> DEFINE g == [i \in 1..n |-> f[i]]
           S == {f[i] : i \in 1..n}
<1>1. g \in Seq(S) /\ Len(g) = n
    OBVIOUS
<1> QED OBVIOUS

(* A nonempty set of naturals has a least element.  FoldTheory needs it.   *)
LEMMA LeastNatural == \A B \in SUBSET Nat : B # {} => \E m \in B : \A k \in B : m <= k
<1> DEFINE R == OpToRel(<, Nat)
<1>1. IsWellFoundedOn(R, Nat)
    BY NatLessThanWellFounded
<1>2. \A k, m \in Nat : k < m => <<k, m>> \in R
    BY DEF OpToRel
<1> HIDE DEF R
<1>3. SUFFICES ASSUME NEW B \in SUBSET Nat, B # {} PROVE \E m \in B : \A k \in B : m <= k
    OBVIOUS
<1>4. PICK m \in B : \A k \in B : ~ (<<k, m>> \in R)
    BY <1>1, <1>3, WFMin
<1>5. \A k \in B : ~ (k < m)
    BY <1>2, <1>4
<1> QED BY <1>4, <1>5

(* Their loops. *)
QuietFrom(p, q, base, n, acc) == Good(base) => Quiet(base, acc)

LOCAL Counting == INSTANCE FoldTheory WITH
    Op <- LAMBDA p, q, acc, t : CountBox(acc, t), Inv <- QuietFrom
LOCAL Burning == INSTANCE FoldTheory WITH
    Op <- LAMBDA p, q, acc, t : AddBurned(acc, t, Burnt(p, q, t)), Inv <- QuietFrom
LOCAL Moving == INSTANCE FoldTheory WITH
    Op <- LAMBDA p, q, acc, t : MoveHolders(acc, t, HolderDelta(p, t)), Inv <- QuietFrom
LOCAL Releasing == INSTANCE FoldTheory WITH
    Op <- LAMBDA p, q, acc, row : TokensOnSpend(acc, row), Inv <- QuietFrom
LOCAL Holding == INSTANCE FoldTheory WITH
    Op <- LAMBDA p, q, acc, i : TokensOnOutput(acc, p + i - 1, q[i]), Inv <- QuietFrom

LEMMA HoldTokensQuiet ==
    ASSUME NEW c, Good(c), NEW gidx, NEW o, IsFiniteSet(BagToSet(o.tokens))
    PROVE  Quiet(c, HoldTokens(c, gidx, o))
<1> DEFINE keys == {<<t, o.tree>> : t \in BagToSet(o.tokens)}
           made == [k \in keys |-> HolderAmt(c, k[1], o.tree) + Copies(k[1], o.tokens)]
           hold == Over(made, c.hold)
           marks == {<<t, gidx>> : t \in BagToSet(o.tokens)}
           e == [c EXCEPT !.d.tokenBoxes = @ \cup marks, !.d.tokenUnspent = @ \cup marks,
                          !.hold = hold]
<1>1. IsFiniteSet(keys)
    <2> DEFINE f == [t \in BagToSet(o.tokens) |-> <<t, o.tree>>]
    <2>1. IsFiniteSet({f[t] : t \in BagToSet(o.tokens)})
        <3> HIDE DEF f
        <3>1. DOMAIN f = BagToSet(o.tokens)
            BY DEF f
        <3> QED BY <3>1, ImageFinite
    <2> QED BY <2>1
<1>2. IsFiniteSet(DOMAIN hold)
    <2>1. DOMAIN made = keys
        OBVIOUS
    <2> HIDE DEF made, keys
    <2>2. DOMAIN hold = keys \cup DOMAIN c.hold
        BY <2>1, OverDomain
    <2>3. IsFiniteSet(keys \cup DOMAIN c.hold)
        BY <1>1, FS_Union DEF Good
    <2> QED BY <2>2, <2>3
<1> HIDE DEF keys, hold, marks
<1>3. SameView(c, e)
    BY <1>2 DEF SameView, Good, CtxKeys, TableKeys
<1>4. Quiet(c, e)
    BY <1>3, SameViewQuiet
<1> QED BY <1>4, Zenon DEF HoldTokens, hold, made, keys, marks

LEMMA TokensOnOutputQuiet ==
    ASSUME NEW c, Good(c), NEW gidx, NEW o, IsFiniteSet(BagToSet(o.tokens))
    PROVE  Quiet(c, TokensOnOutput(c, gidx, o))
<1> DEFINE S == BagToSet(o.tokens)
           e == HoldTokens(c, gidx, o)
           out == Counting!OverSet(0, 0, e, S)
<1>1. Quiet(c, e) /\ Good(e)
    BY HoldTokensQuiet, QuietGood
<1> HIDE DEF e
<1>2. FoldSet(LAMBDA t, acc : CountBox(acc, t), e, S) = out
    BY DEF FoldSet, MapThenFoldSet, Counting!OverSet, Counting!SetFold
<1>3. QuietFrom(0, 0, e, 0, e)
    BY <1>1, QuietRefl DEF QuietFrom
<1>4. \A x \in S : \A acc : QuietFrom(0, 0, e, 0, acc) => QuietFrom(0, 0, e, 0, CountBox(acc, x))
    BY <1>1, CountBoxQuiet, QuietTrans, QuietGood DEF QuietFrom
<1>5. QuietFrom(0, 0, e, 0, out)
    <2>1. Counting!Finite(S)
        BY DEF IsFiniteSet, Counting!Finite
    <2> HIDE DEF S
    <2> QED BY <1>3, <1>4, <2>1, LeastNatural, Counting!SetValue
<1> HIDE DEF out
<1>6. Quiet(c, out)
    BY <1>1, <1>5, QuietTrans DEF QuietFrom
<1> QED BY <1>2, <1>6, CorruptQuiet, Zenon DEF TokensOnOutput, e

(* A box list is finite throughout. *)
FiniteTokens(boxes) == \A i \in DOMAIN boxes : IsFiniteSet(BagToSet(boxes[i].tokens))

LEMMA OnBurnQuiet ==
    ASSUME NEW c, Good(c), NEW inputs, NEW outputs, NEW n \in Nat, DOMAIN inputs = 1..n,
           FiniteTokens(inputs)
    PROVE  Quiet(c, OnBurn(c, inputs, outputs))
<1> DEFINE S == {t \in UNION {BagToSet(inputs[i].tokens) : i \in DOMAIN inputs} :
                    Burnt(inputs, outputs, t) > 0}
           out == Burning!OverSet(inputs, outputs, c, S)
<1>1. FoldSet(LAMBDA t, acc : AddBurned(acc, t, Burnt(inputs, outputs, t)), c, S) = out
    BY DEF FoldSet, MapThenFoldSet, Burning!OverSet, Burning!SetFold
<1>2. IsFiniteSet(S)
    <2> DEFINE held == [i \in 1..n |-> BagToSet(inputs[i].tokens)]
               U == {held[i] : i \in 1..n}
    <2>1. IsFiniteSet(U)
        <3>1. IsFiniteSet(1..n) /\ DOMAIN held = 1..n
            BY FS_Interval
        <3> HIDE DEF held
        <3> QED BY <3>1, ImageFinite
    <2>2. \A s \in U : IsFiniteSet(s)
        BY DEF FiniteTokens
    <2>3. S \in SUBSET UNION U
        OBVIOUS
    <2> HIDE DEF U, S
    <2> QED BY <2>1, <2>2, <2>3, FS_UNION, FS_Subset
<1>3. Burning!Finite(S)
    BY <1>2 DEF IsFiniteSet, Burning!Finite
<1> HIDE DEF S
<1>4. QuietFrom(inputs, outputs, c, 0, c)
    BY QuietRefl DEF QuietFrom
<1>5. \A x \in S : \A acc : QuietFrom(inputs, outputs, c, 0, acc) =>
            QuietFrom(inputs, outputs, c, 0, AddBurned(acc, x, Burnt(inputs, outputs, x)))
    BY AddBurnedQuiet, QuietTrans, QuietGood DEF QuietFrom
<1>6. QuietFrom(inputs, outputs, c, 0, out)
    BY <1>3, <1>4, <1>5, LeastNatural, Burning!SetValue
<1> HIDE DEF out
<1>7. Quiet(c, out)
    BY <1>6 DEF QuietFrom
<1> QED BY <1>1, <1>7, CorruptQuiet, Zenon DEF OnBurn, S

LEMMA TokensApplyTxQuiet ==
    ASSUME NEW c, Good(c), NEW tx, NEW inputs, NEW firstOut,
           NEW n \in Nat, DOMAIN inputs = 1..n, FiniteTokens(inputs),
           NEW m \in Nat, DOMAIN tx.outputs = 1..m, FiniteTokens(tx.outputs)
    PROVE  Quiet(c, TokensApplyTx(c, tx, inputs, firstOut))
<1> DEFINE minted == OnMint(c, tx, firstOut)
           spent == Releasing!Left(0, 0, minted, inputs)
           outs == [i \in DOMAIN tx.outputs |-> i]
           made == Holding!Left(firstOut, tx.outputs, spent, outs)
<1>1. Quiet(c, minted) /\ Good(minted)
    BY OnMintQuiet, QuietGood
<1>2. FoldLeft(LAMBDA acc, row : TokensOnSpend(acc, row), minted, inputs) = spent
    BY DEF FoldLeft, MapThenFoldSet, Max, Releasing!Left, Releasing!LeftFold, Releasing!Greatest
<1>3. FoldLeftDomain(LAMBDA acc, i : TokensOnOutput(acc, firstOut + i - 1, tx.outputs[i]),
                     spent, tx.outputs) = made
    BY DEF FoldLeftDomain, FoldLeft, MapThenFoldSet, Max, Holding!Left, Holding!LeftFold,
           Holding!Greatest
<1>4. TokensApplyTx(c, tx, inputs, firstOut) = OnBurn(made, inputs, tx.outputs)
    BY <1>2, <1>3, Zenon DEF TokensApplyTx
<1> HIDE DEF minted
<1>5. Quiet(minted, spent)
    <2>1. Len(inputs) = n
        BY FunctionLength
    <2>2. QuietFrom(0, 0, minted, 0, minted)
        BY <1>1, QuietRefl DEF QuietFrom
    <2>3. \A i \in 1..n : \A acc : QuietFrom(0, 0, minted, i - 1, acc) =>
            QuietFrom(0, 0, minted, i, TokensOnSpend(acc, inputs[i]))
        BY <1>1, TokensOnSpendQuiet, QuietTrans, QuietGood DEF QuietFrom, FiniteTokens, BagToSet
    <2>4. QuietFrom(0, 0, minted, Len(inputs), spent)
        BY <2>1, <2>2, <2>3, LeastNatural, Releasing!LeftValue
    <2> QED BY <1>1, <2>4 DEF QuietFrom
<1>6. Quiet(c, spent) /\ Good(spent)
    BY <1>1, <1>5, QuietTrans, QuietGood
<1> HIDE DEF spent
<1>7. Quiet(spent, made)
    <2>1. Len(outs) = m /\ DOMAIN outs = 1..m /\ \A i \in 1..m : outs[i] = i
        BY FunctionLength
    <2> HIDE DEF outs
    <2>2. QuietFrom(firstOut, tx.outputs, spent, 0, spent)
        BY <1>6, QuietRefl DEF QuietFrom
    <2>3. \A i \in 1..m : \A acc : QuietFrom(firstOut, tx.outputs, spent, i - 1, acc) =>
            QuietFrom(firstOut, tx.outputs, spent, i,
                      TokensOnOutput(acc, firstOut + outs[i] - 1, tx.outputs[outs[i]]))
        BY <1>6, <2>1, TokensOnOutputQuiet, QuietTrans, QuietGood DEF QuietFrom, FiniteTokens
    <2>4. QuietFrom(firstOut, tx.outputs, spent, Len(outs), made)
        BY <2>1, <2>2, <2>3, LeastNatural, Holding!LeftValue
    <2> QED BY <1>6, <2>4 DEF QuietFrom
<1>8. Quiet(c, made) /\ Good(made)
    BY <1>6, <1>7, QuietTrans, QuietGood
<1> HIDE DEF made
<1>9. Quiet(made, OnBurn(made, inputs, tx.outputs))
    BY <1>8, OnBurnQuiet
<1> QED BY <1>4, <1>8, <1>9, QuietTrans

-----------------------------------------------------------------------------
(* The flush: rows a block writes back are there, new ones were not.       *)

LEMMA WriteTokensQuiet ==
    ASSUME NEW c, Good(c)
    PROVE  Quiet(c, WriteTokens(c))
<1> DEFINE e == WriteTokens(c)
           old == c.d.tokens
<1>1. /\ DOMAIN e = DOMAIN c /\ DOMAIN e.d = DOMAIN c.d /\ DOMAIN e.undo = DOMAIN c.undo
      /\ e.h = c.h /\ e.hold = c.hold
      /\ e.d.headers = c.d.headers /\ e.d.undo = c.d.undo
      /\ e.d.genesisSeeded = c.d.genesisSeeded
      /\ e.d.boxes = c.d.boxes /\ e.d.ergoTrees = c.d.ergoTrees /\ e.d.txs = c.d.txs
      /\ e.d.treeBalance = c.d.treeBalance /\ e.d.registerIdx = c.d.registerIdx
    BY DEF WriteTokens, Good, CtxKeys, TableKeys, UndoKeys
<1>2. /\ e.undo.createdBoxes = c.undo.createdBoxes /\ e.undo.spentBoxes = c.undo.spentBoxes
      /\ e.undo.txIds = c.undo.txIds /\ e.undo.newTrees = c.undo.newTrees
      /\ e.undo.newBalances = c.undo.newBalances /\ e.undo.prevBalances = c.undo.prevBalances
    BY DEF WriteTokens, Good, CtxKeys, TableKeys, UndoKeys
<1>3. /\ e.d.tokens = Over(c.tok, old)
      /\ e.undo.newTokens = DOMAIN c.tok \ DOMAIN old
      /\ e.undo.prevTokens = Restrict(old, DOMAIN c.tok \cap DOMAIN old)
    BY DEF WriteTokens, Good, CtxKeys, TableKeys, UndoKeys
<1> HIDE DEF e
<1>4. /\ DOMAIN e.d.tokens = DOMAIN c.tok \cup DOMAIN old
      /\ DOMAIN e.undo.prevTokens = DOMAIN c.tok \cap DOMAIN old
    <2>1. \A f, g : DOMAIN Over(f, g) = DOMAIN f \cup DOMAIN g
        BY OverDomain, Zenon
    <2>2. \A f, U : DOMAIN Restrict(f, U) = U
        BY RestrictedKeys
    <2> QED BY <1>3, <2>1, <2>2
<1>5. TokenIds(e.undo) \subseteq DOMAIN e.d.tokens /\ Balances(e.undo) = Balances(c.undo)
    BY <1>2, <1>3, <1>4 DEF TokenIds, Balances
<1>6. Cardinality(c.d.registerIdx) \in Nat
    BY FS_CardinalityType DEF Good
<1>7. Good(e)
    BY <1>1, <1>2, <1>5 DEF Good
<1> QED BY <1>1, <1>2, <1>3, <1>4, <1>6, <1>7 DEF Quiet, Moves, e

LEMMA FlushBalancesQuiet ==
    ASSUME NEW c, Good(c)
    PROVE  Quiet(c, FlushBalances(c))
<1> DEFINE e == FlushBalances(c)
           old == c.d.treeBalance
<1>1. /\ DOMAIN e = DOMAIN c /\ DOMAIN e.d = DOMAIN c.d /\ DOMAIN e.undo = DOMAIN c.undo
      /\ e.h = c.h /\ e.hold = c.hold
      /\ e.d.headers = c.d.headers /\ e.d.undo = c.d.undo
      /\ e.d.genesisSeeded = c.d.genesisSeeded
      /\ e.d.boxes = c.d.boxes /\ e.d.ergoTrees = c.d.ergoTrees /\ e.d.txs = c.d.txs
      /\ e.d.tokens = c.d.tokens /\ e.d.registerIdx = c.d.registerIdx
    BY DEF FlushBalances, Good, CtxKeys, TableKeys, UndoKeys
<1>2. /\ e.undo.createdBoxes = c.undo.createdBoxes /\ e.undo.spentBoxes = c.undo.spentBoxes
      /\ e.undo.txIds = c.undo.txIds /\ e.undo.newTrees = c.undo.newTrees
      /\ e.undo.newTokens = c.undo.newTokens /\ e.undo.prevTokens = c.undo.prevTokens
    BY DEF FlushBalances, Good, CtxKeys, TableKeys, UndoKeys
<1>3. /\ e.d.treeBalance = Over(c.bal, old)
      /\ e.undo.newBalances = DOMAIN c.bal \ DOMAIN old
      /\ e.undo.prevBalances = Restrict(old, DOMAIN c.bal \cap DOMAIN old)
    BY DEF FlushBalances, Good, CtxKeys, TableKeys, UndoKeys
<1> HIDE DEF e
<1>4. /\ DOMAIN e.d.treeBalance = DOMAIN c.bal \cup DOMAIN old
      /\ DOMAIN e.undo.prevBalances = DOMAIN c.bal \cap DOMAIN old
    <2>1. \A f, g : DOMAIN Over(f, g) = DOMAIN f \cup DOMAIN g
        BY OverDomain, Zenon
    <2>2. \A f, U : DOMAIN Restrict(f, U) = U
        BY RestrictedKeys
    <2> QED BY <1>3, <2>1, <2>2
<1>5. Balances(e.undo) \subseteq DOMAIN e.d.treeBalance /\ TokenIds(e.undo) = TokenIds(c.undo)
    BY <1>2, <1>3, <1>4 DEF TokenIds, Balances
<1>6. Cardinality(c.d.registerIdx) \in Nat
    BY FS_CardinalityType DEF Good
<1>7. Good(e)
    BY <1>1, <1>2, <1>5 DEF Good
<1> QED BY <1>1, <1>2, <1>3, <1>4, <1>6, <1>7 DEF Quiet, Moves, e

LEMMA FlushTokensQuiet ==
    ASSUME NEW c, Good(c)
    PROVE  Quiet(c, FlushTokens(c))
<1> DEFINE S == {t \in {k[1] : k \in DOMAIN c.hold} : HolderDelta(c, t) # 0}
           out == Moving!OverSet(c, 0, c, S)
<1>1. FoldSet(LAMBDA t, acc : MoveHolders(acc, t, HolderDelta(c, t)), c, S) = out
    BY DEF FoldSet, MapThenFoldSet, Moving!OverSet, Moving!SetFold
<1>2. IsFiniteSet(S)
    <2> DEFINE f == [k \in DOMAIN c.hold |-> k[1]]
               U == {f[k] : k \in DOMAIN c.hold}
    <2>1. DOMAIN f = DOMAIN c.hold /\ IsFiniteSet(DOMAIN c.hold)
        BY DEF Good
    <2>2. IsFiniteSet(U)
        <3> HIDE DEF f
        <3> QED BY <2>1, ImageFinite
    <2>3. S \in SUBSET U
        OBVIOUS
    <2> HIDE DEF S, U
    <2> QED BY <2>2, <2>3, FS_Subset
<1>3. Moving!Finite(S)
    BY <1>2 DEF IsFiniteSet, Moving!Finite
<1> HIDE DEF S
<1>4. QuietFrom(c, 0, c, 0, c)
    BY QuietRefl DEF QuietFrom
<1>5. \A x \in S : \A acc : QuietFrom(c, 0, c, 0, acc) =>
            QuietFrom(c, 0, c, 0, MoveHolders(acc, x, HolderDelta(c, x)))
    BY MoveHoldersQuiet, QuietTrans, QuietGood DEF QuietFrom
<1>6. QuietFrom(c, 0, c, 0, out)
    BY <1>3, <1>4, <1>5, LeastNatural, Moving!SetValue
<1> HIDE DEF out
<1>7. Quiet(c, out) /\ Good(out)
    BY <1>6, QuietGood DEF QuietFrom
<1>8. Quiet(c, WriteTokens(out))
    BY <1>7, WriteTokensQuiet, QuietTrans
<1> QED BY <1>1, <1>8, CorruptQuiet, Zenon DEF FlushTokens, S

-----------------------------------------------------------------------------
(* A spend keeps every box in place. *)

LEMMA SpendBoxQuiet ==
    ASSUME NEW c, Good(c), NEW id \in DOMAIN c.d.boxes, NEW tx
    PROVE  Quiet(c, SpendBox(c, id, tx))
<1> DEFINE row == c.d.boxes[id]
           bal == LoadBalance(c, row.tree)
           mine == Put(c.bal, row.tree, DebitBalance(bal, row, c.h))
           e == [c EXCEPT
            !.d.boxes[id].spent = <<tx, c.h>>,
            !.d.treeUnspent = @ \ {<<row.tree, row.gidx>>},
            !.d.rentMatures = @ \ {<<MaturityHeight(row.creation), row.gidx, id>>},
            !.bal = mine,
            !.undo.spentBoxes = @ \cup {id}]
<1> HIDE DEF mine, bal
<1>1. /\ DOMAIN e = DOMAIN c /\ DOMAIN e.d = DOMAIN c.d /\ DOMAIN e.undo = DOMAIN c.undo
      /\ e.h = c.h /\ e.hold = c.hold
      /\ e.d.headers = c.d.headers /\ e.d.undo = c.d.undo
      /\ e.d.genesisSeeded = c.d.genesisSeeded
      /\ e.d.ergoTrees = c.d.ergoTrees /\ e.d.txs = c.d.txs
      /\ e.d.treeBalance = c.d.treeBalance
      /\ e.d.tokens = c.d.tokens /\ e.d.registerIdx = c.d.registerIdx
    <2>1. /\ DOMAIN e = DOMAIN c /\ DOMAIN e.d = DOMAIN c.d /\ DOMAIN e.undo = DOMAIN c.undo
          /\ e.h = c.h /\ e.hold = c.hold
        BY Zenon DEF Good, CtxKeys, TableKeys, UndoKeys
    <2>2. /\ e.d.headers = c.d.headers /\ e.d.undo = c.d.undo
          /\ e.d.genesisSeeded = c.d.genesisSeeded
          /\ e.d.ergoTrees = c.d.ergoTrees /\ e.d.txs = c.d.txs
        BY Zenon DEF Good, CtxKeys, TableKeys, UndoKeys
    <2>3. /\ e.d.treeBalance = c.d.treeBalance
          /\ e.d.tokens = c.d.tokens /\ e.d.registerIdx = c.d.registerIdx
        BY Zenon DEF Good, CtxKeys, TableKeys, UndoKeys
    <2> QED BY <2>1, <2>2, <2>3
<1>2. /\ e.undo.createdBoxes = c.undo.createdBoxes
      /\ e.undo.spentBoxes = c.undo.spentBoxes \cup {id}
      /\ e.undo.txIds = c.undo.txIds /\ e.undo.newTrees = c.undo.newTrees
      /\ e.undo.newTokens = c.undo.newTokens /\ e.undo.prevTokens = c.undo.prevTokens
      /\ e.undo.newBalances = c.undo.newBalances /\ e.undo.prevBalances = c.undo.prevBalances
    BY DEF Good, CtxKeys, TableKeys, UndoKeys
<1>3. e.d.boxes = [c.d.boxes EXCEPT ![id].spent = <<tx, c.h>>]
    BY DEF Good, CtxKeys, TableKeys
<1> HIDE DEF e
<1>4. /\ DOMAIN e.d.boxes = DOMAIN c.d.boxes
      /\ \A x \in DOMAIN c.d.boxes : /\ e.d.boxes[x].tree = c.d.boxes[x].tree
                                     /\ e.d.boxes[x].tokens = c.d.boxes[x].tokens
                                     /\ DOMAIN e.d.boxes[x] = DOMAIN c.d.boxes[x]
    BY <1>3 DEF Good, RowOK
<1>5. Good(e)
    <2>1. \A x \in DOMAIN e.d.boxes : RowOK(e.d.boxes[x], e.d.ergoTrees)
        BY <1>1, <1>4 DEF Good, RowOK
    <2>2. TokenIds(e.undo) = TokenIds(c.undo) /\ Balances(e.undo) = Balances(c.undo)
        BY <1>2 DEF TokenIds, Balances
    <2> QED BY <1>1, <1>2, <1>4, <2>1, <2>2 DEF Good
<1>6. Cardinality(c.d.registerIdx) \in Nat
    BY FS_CardinalityType DEF Good
<1>7. Quiet(c, e)
    BY <1>1, <1>2, <1>4, <1>5, <1>6 DEF Quiet, Moves
<1>8. Quiet(c, ExtrasOnSpend(e, row))
    BY <1>5, <1>7, ExtrasOnSpendQuiet, QuietTrans
<1> QED BY <1>8, CorruptQuiet, Zenon DEF SpendBox, e, mine, bal

LEMMA SpendInputQuiet ==
    ASSUME NEW c, Good(c), NEW id, NEW tx
    PROVE  Quiet(c, SpendInput(c, id, tx))
<1>1. CASE id \in DOMAIN c.d.boxes
    <2>1. Quiet(c, SpendBox(c, id, tx))
        BY <1>1, SpendBoxQuiet
    <2> QED BY <2>1, CorruptQuiet, Zenon DEF SpendInput
<1>2. CASE id \notin DOMAIN c.d.boxes
    BY <1>2, CorruptQuiet, Zenon DEF SpendInput
<1> QED BY <1>1, <1>2

-----------------------------------------------------------------------------
(* Outputs: one box each, with its registers. *)

LEMMA ExtrasOnOutputMoves ==
    ASSUME NEW c, Good(c), NEW gidx, NEW o, IsFiniteSet(o.registers)
    PROVE  Moves(c, ExtrasOnOutput(c, gidx, o), {}, {}, {}, Cardinality(o.registers))
<1> DEFINE e == ExtrasOnOutput(c, gidx, o)
           regs == {<<r[1], r[2], gidx>> : r \in o.registers}
<1>1. IsFiniteSet(regs) /\ Cardinality(regs) <= Cardinality(o.registers)
    <2> DEFINE f == [r \in o.registers |-> <<r[1], r[2], gidx>>]
               Image == {f[r] : r \in o.registers}
    <2>1. DOMAIN f = o.registers /\ regs = Image
        OBVIOUS
    <2>2. IsFiniteSet(Image) /\ Cardinality(Image) <= Cardinality(o.registers)
        <3> HIDE DEF f
        <3> QED BY <2>1, ImageFinite
    <2> HIDE DEF regs, Image
    <2> QED BY <2>1, <2>2
<1>2. /\ DOMAIN e = DOMAIN c /\ DOMAIN e.d = DOMAIN c.d /\ DOMAIN e.undo = DOMAIN c.undo
      /\ e.h = c.h /\ e.hold = c.hold
      /\ e.d.headers = c.d.headers /\ e.d.undo = c.d.undo
      /\ e.d.genesisSeeded = c.d.genesisSeeded
      /\ e.d.boxes = c.d.boxes /\ e.d.ergoTrees = c.d.ergoTrees /\ e.d.txs = c.d.txs
      /\ e.d.treeBalance = c.d.treeBalance /\ e.d.tokens = c.d.tokens
    BY DEF ExtrasOnOutput, Good, CtxKeys, TableKeys, UndoKeys
<1>3. /\ e.undo.createdBoxes = c.undo.createdBoxes /\ e.undo.spentBoxes = c.undo.spentBoxes
      /\ e.undo.txIds = c.undo.txIds /\ e.undo.newTrees = c.undo.newTrees
      /\ e.undo.newBalances = c.undo.newBalances /\ e.undo.prevBalances = c.undo.prevBalances
      /\ e.undo.newTokens = c.undo.newTokens /\ e.undo.prevTokens = c.undo.prevTokens
    BY DEF ExtrasOnOutput, Good, CtxKeys, TableKeys, UndoKeys
<1>4. e.d.registerIdx = c.d.registerIdx \cup regs
    BY Zenon DEF ExtrasOnOutput, Good, CtxKeys, TableKeys
<1> HIDE DEF e, regs
<1>5. /\ IsFiniteSet(e.d.registerIdx)
      /\ Cardinality(o.registers) \in Nat
      /\ Cardinality(e.d.registerIdx) <= Cardinality(c.d.registerIdx) + Cardinality(o.registers)
    <2>1. IsFiniteSet(c.d.registerIdx)
        BY DEF Good
    <2>2. /\ Cardinality(c.d.registerIdx) \in Nat /\ Cardinality(regs) \in Nat
          /\ Cardinality(o.registers) \in Nat
          /\ IsFiniteSet(c.d.registerIdx \cap regs)
        BY <1>1, <2>1, FS_CardinalityType, FS_Intersection
    <2>3. Cardinality(c.d.registerIdx \cap regs) \in Nat
        BY <2>2, FS_CardinalityType
    <2>4. /\ IsFiniteSet(c.d.registerIdx \cup regs)
          /\ Cardinality(c.d.registerIdx \cup regs)
                = Cardinality(c.d.registerIdx) + Cardinality(regs)
                    - Cardinality(c.d.registerIdx \cap regs)
        BY <1>1, <2>1, FS_Union
    <2> QED BY <1>1, <1>4, <2>2, <2>3, <2>4
<1>6. Good(e)
    <2>1. TokenIds(e.undo) = TokenIds(c.undo) /\ Balances(e.undo) = Balances(c.undo)
        BY <1>3 DEF TokenIds, Balances
    <2> QED BY <1>2, <1>3, <1>5, <2>1 DEF Good
<1> QED BY <1>2, <1>3, <1>5, <1>6 DEF Moves, e

LEMMA CreateOutputMoves ==
    ASSUME NEW c, Good(c), NEW o, NEW tx,
           IsFiniteSet(o.registers), IsFiniteSet(BagToSet(o.tokens))
    PROVE  Moves(c, CreateOutput(c, o, tx), {o.id}, {o.id}, {}, Cardinality(o.registers))
<1> DEFINE gidx == c.d.nextBox
           d == [InsertOutput(c.d, gidx, o, tx) EXCEPT
                    !.nextBox = @ + 1, !.ergoTrees = @ \cup {o.tree}]
           mine == Put(c.bal, o.tree, CreditBalance(LoadBalance(c, o.tree), o, c.h))
           row == [gidx |-> gidx, value |-> o.value, tree |-> o.tree,
                   creation |-> o.creation, tx |-> tx, tokens |-> o.tokens, spent |-> Unspent]
           e == [c EXCEPT !.d = d, !.bal = mine,
                          !.undo.newTrees = @ \cup ({o.tree} \ c.d.ergoTrees),
                          !.undo.createdBoxes = @ \cup {o.id}]
<1>1. /\ DOMAIN d = DOMAIN c.d
      /\ d.headers = c.d.headers /\ d.undo = c.d.undo
      /\ d.genesisSeeded = c.d.genesisSeeded
      /\ d.boxes = Put(c.d.boxes, o.id, row) /\ d.ergoTrees = c.d.ergoTrees \cup {o.tree}
      /\ d.txs = c.d.txs /\ d.treeBalance = c.d.treeBalance /\ d.tokens = c.d.tokens
      /\ d.registerIdx = c.d.registerIdx
    BY DEF InsertOutput, Good, TableKeys
<1>2. /\ {"tree", "tokens", "spent"} \subseteq DOMAIN row
      /\ row.tree = o.tree /\ row.tokens = o.tokens
    OBVIOUS
<1> HIDE DEF d, mine, row
<1>3. /\ DOMAIN d.boxes = {o.id} \cup DOMAIN c.d.boxes
      /\ d.boxes[o.id] = row
      /\ \A id \in DOMAIN c.d.boxes \ {o.id} : d.boxes[id] = c.d.boxes[id]
    BY <1>1 DEF Put
<1>4. /\ DOMAIN e = DOMAIN c /\ e.d = d /\ DOMAIN e.undo = DOMAIN c.undo
      /\ e.h = c.h /\ e.hold = c.hold
      /\ e.undo.createdBoxes = c.undo.createdBoxes \cup {o.id}
      /\ e.undo.spentBoxes = c.undo.spentBoxes
      /\ e.undo.txIds = c.undo.txIds
      /\ e.undo.newTrees = c.undo.newTrees \cup ({o.tree} \ c.d.ergoTrees)
      /\ e.undo.newBalances = c.undo.newBalances /\ e.undo.prevBalances = c.undo.prevBalances
      /\ e.undo.newTokens = c.undo.newTokens /\ e.undo.prevTokens = c.undo.prevTokens
    BY DEF Good, CtxKeys, UndoKeys
<1> HIDE DEF e
<1>5. \A id \in DOMAIN d.boxes : RowOK(d.boxes[id], d.ergoTrees)
    <2> TAKE id \in DOMAIN d.boxes
    <2>1. CASE id = o.id
        BY <1>1, <1>2, <1>3, <2>1 DEF RowOK, BagToSet
    <2>2. CASE id # o.id
        <3>1. id \in DOMAIN c.d.boxes /\ d.boxes[id] = c.d.boxes[id]
            BY <1>3, <2>2
        <3> QED BY <1>1, <3>1 DEF Good, RowOK
    <2> QED BY <2>1, <2>2
<1>6. Good(e)
    <2>1. TokenIds(e.undo) = TokenIds(c.undo) /\ Balances(e.undo) = Balances(c.undo)
        BY <1>4 DEF TokenIds, Balances
    <2> QED BY <1>1, <1>3, <1>4, <1>5, <2>1 DEF Good
<1>7. Moves(c, e, {o.id}, {o.id}, {}, 0)
    <2>1. Cardinality(c.d.registerIdx) \in Nat
        BY FS_CardinalityType DEF Good
    <2> QED BY <1>1, <1>3, <1>4, <1>6, <2>1 DEF Moves
<1>8. Moves(e, ExtrasOnOutput(e, gidx, o), {}, {}, {}, Cardinality(o.registers))
    BY <1>6, ExtrasOnOutputMoves
<1>9. Cardinality(o.registers) \in Nat
    BY FS_CardinalityType
<1>10. Moves(c, ExtrasOnOutput(e, gidx, o), {o.id} \cup {}, {o.id} \cup {}, {} \cup {},
             0 + Cardinality(o.registers))
    BY <1>7, <1>8, MovesTrans
<1>11. CreateOutput(c, o, tx) = ExtrasOnOutput(e, gidx, o)
    BY Zenon DEF CreateOutput, e, d, mine
<1> QED BY <1>9, <1>10, <1>11

(* One transaction. *)

LEMMA BoxList ==
    ASSUME NEW boxes, FiniteBoxes(boxes)
    PROVE  /\ DOMAIN boxes = 1..Len(boxes) /\ Len(boxes) \in Nat
           /\ BoxIds(boxes) = {boxes[k].id : k \in 1..Len(boxes)}
           /\ FiniteTokens(boxes)
           /\ \A k \in 1..Len(boxes) : IsFiniteSet(boxes[k].registers)
<1>1. DOMAIN boxes = 1..Len(boxes) /\ Len(boxes) \in Nat
    BY DEF FiniteBoxes
<1>2. Range(boxes) = {boxes[k] : k \in 1..Len(boxes)}
    BY <1>1 DEF Range
<1> QED BY <1>1, <1>2 DEF FiniteBoxes, BoxIds, FiniteTokens

LOCAL Entries == INSTANCE FoldTheory WITH
    Op <- LAMBDA p, q, acc, o : acc + Cardinality(o.registers),
    Inv <- LAMBDA p, q, base, n, acc : TRUE

(* RegisterCount adds up box by box. *)
LEMMA RegisterCountSteps ==
    ASSUME NEW boxes, FiniteBoxes(boxes)
    PROVE  \E r : /\ r[0] = 0 /\ r[Len(boxes)] = RegisterCount(boxes)
                  /\ \A i \in 1..Len(boxes) : r[i] = r[i - 1] + Cardinality(boxes[i].registers)
<1> DEFINE F(f) == Entries!LeftFold(0, 0, 0, boxes, f)
<1>1. RegisterCount(boxes) = Entries!Left(0, 0, 0, boxes)
    BY DEF RegisterCount, FoldLeft, MapThenFoldSet, Max, Entries!Left, Entries!LeftFold,
           Entries!Greatest
<1>2. DOMAIN boxes = 1..Len(boxes) /\ Len(boxes) \in Nat
    BY BoxList
<1>3. /\ \E f : F(f)
      /\ \A f : F(f) => \E r : /\ Entries!Trace(0, 0, 0, boxes, r)
                               /\ r[Len(boxes)] = f[DOMAIN boxes]
    BY <1>2, LeastNatural, Entries!LeftTrace
<1>4. PICK r : Entries!Trace(0, 0, 0, boxes, r) /\ r[Len(boxes)] = Entries!Left(0, 0, 0, boxes)
    <2>1. F(CHOOSE f : F(f))
        BY <1>3, Zenon
    <2> HIDE DEF F
    <2>2. \E r : /\ Entries!Trace(0, 0, 0, boxes, r)
                 /\ r[Len(boxes)] = (CHOOSE f : F(f))[DOMAIN boxes]
        BY <1>3, <2>1
    <2> QED BY <2>2, Zenon DEF Entries!Left, F
<1> QED BY <1>1, <1>4 DEF Entries!Trace

(* Inv of the loop over outputs: q is the list and the register sums.      *)
MadeFrom(p, q, base, n, acc) ==
    Good(base) => Moves(base, acc, {q.boxes[k].id : k \in 1..n}, {q.boxes[k].id : k \in 1..n},
                        {}, q.sums[n])

LOCAL Making == INSTANCE FoldTheory WITH
    Op <- LAMBDA p, q, acc, o : CreateOutput(acc, o, p), Inv <- MadeFrom

LEMMA CreateOutputsMoves ==
    ASSUME NEW c, Good(c), NEW tx, FiniteBoxes(tx.outputs)
    PROVE  Moves(c, CreateOutputs(c, tx), BoxIds(tx.outputs), BoxIds(tx.outputs), {},
                 RegisterCount(tx.outputs))
<1> DEFINE boxes == tx.outputs
           m == Len(boxes)
<1>1. PICK r : /\ r[0] = 0 /\ r[m] = RegisterCount(boxes)
               /\ \A i \in 1..m : r[i] = r[i - 1] + Cardinality(boxes[i].registers)
    BY RegisterCountSteps
<1> DEFINE q == [boxes |-> boxes, sums |-> r]
           out == Making!Left(tx.id, q, c, boxes)
           ids(n) == {boxes[k].id : k \in 1..n}
<1>2. CreateOutputs(c, tx) = out
    BY DEF CreateOutputs, FoldLeft, MapThenFoldSet, Max, Making!Left, Making!LeftFold,
           Making!Greatest
<1>3. /\ DOMAIN boxes = 1..m /\ m \in Nat /\ BoxIds(boxes) = ids(m)
      /\ FiniteTokens(boxes)
      /\ \A k \in 1..m : IsFiniteSet(boxes[k].registers)
    BY BoxList
<1>4. \A n, acc : MadeFrom(tx.id, q, c, n, acc) <=> Moves(c, acc, ids(n), ids(n), {}, r[n])
    BY DEF MadeFrom
<1>5. MadeFrom(tx.id, q, c, 0, c)
    <2>1. ids(0) = {}
        OBVIOUS
    <2>2. Moves(c, c, {}, {}, {}, 0)
        BY QuietRefl DEF Quiet
    <2> HIDE DEF ids, q
    <2> QED BY <1>1, <1>4, <2>1, <2>2
<1>6. ASSUME NEW i \in 1..m, NEW acc, MadeFrom(tx.id, q, c, i - 1, acc)
      PROVE  MadeFrom(tx.id, q, c, i, CreateOutput(acc, boxes[i], tx.id))
    <2> DEFINE e == CreateOutput(acc, boxes[i], tx.id)
               size == Cardinality(boxes[i].registers)
    <2>1. Moves(c, acc, ids(i - 1), ids(i - 1), {}, r[i - 1]) /\ Good(acc)
        BY <1>4, <1>6 DEF Moves
    <2>2. Moves(acc, e, {boxes[i].id}, {boxes[i].id}, {}, size)
        BY <1>3, <2>1, CreateOutputMoves DEF FiniteTokens
    <2> HIDE DEF e, size, ids, q
    <2>3. Moves(c, e, ids(i - 1) \cup {boxes[i].id}, ids(i - 1) \cup {boxes[i].id},
                {} \cup {}, r[i - 1] + size)
        BY <2>1, <2>2, MovesTrans
    <2>4. ids(i - 1) \cup {boxes[i].id} = ids(i) /\ {} \cup {} = {}
        <3>1. 1..i = 1..(i - 1) \cup {i}
            OBVIOUS
        <3> QED BY <3>1 DEF ids
    <2>5. r[i - 1] + size = r[i]
        BY <1>1 DEF size
    <2>6. Moves(c, e, ids(i), ids(i), {}, r[i])
        BY <2>3, <2>4, <2>5
    <2> QED BY <1>4, <2>6 DEF e
<1> HIDE DEF q
<1>7. MadeFrom(tx.id, q, c, Len(boxes), out)
    <2> HIDE DEF boxes
    <2> QED BY <1>3, <1>5, <1>6, LeastNatural, Making!LeftValue
<1> HIDE DEF ids, out
<1> QED BY <1>1, <1>2, <1>3, <1>4, <1>7

SpentFrom(p, q, base, n, acc) ==
    Good(base) => /\ Quiet(base, acc)
                  /\ acc.corrupt \/ \A k \in 1..n : q[k] \in DOMAIN acc.d.boxes

LOCAL Taking == INSTANCE FoldTheory WITH
    Op <- LAMBDA p, q, acc, id : SpendInput(acc, id, p), Inv <- SpentFrom

LEMMA CorruptIsCorrupt ==
    ASSUME NEW c, Good(c)
    PROVE  Corrupt(c).corrupt
BY DEF Corrupt, Good, CtxKeys

(* The spends move nothing, and find every box or are refused. *)
LEMMA SpendInputsQuiet ==
    ASSUME NEW c, Good(c), NEW tx, DOMAIN tx.inputs = 1..Len(tx.inputs), Len(tx.inputs) \in Nat
    PROVE  LET e == SpendInputs(c, tx)
           IN  /\ Quiet(c, e)
               /\ e.corrupt \/ \A k \in DOMAIN tx.inputs : tx.inputs[k] \in DOMAIN e.d.boxes
<1> DEFINE ids == tx.inputs
           out == Taking!Left(tx.id, ids, c, ids)
<1>1. SpendInputs(c, tx) = out
    BY DEF SpendInputs, FoldLeft, MapThenFoldSet, Max, Taking!Left, Taking!LeftFold,
           Taking!Greatest
<1>2. SpentFrom(tx.id, ids, c, 0, c)
    <2>1. \A k \in 1..0 : FALSE
        OBVIOUS
    <2> QED BY <2>1, QuietRefl DEF SpentFrom
<1>3. ASSUME NEW i \in 1..Len(ids), NEW acc, SpentFrom(tx.id, ids, c, i - 1, acc)
      PROVE  SpentFrom(tx.id, ids, c, i, SpendInput(acc, ids[i], tx.id))
    <2> DEFINE e == SpendInput(acc, ids[i], tx.id)
    <2>1. /\ Quiet(c, acc) /\ Good(acc)
          /\ acc.corrupt \/ \A k \in 1..(i - 1) : ids[k] \in DOMAIN acc.d.boxes
        BY <1>3, QuietGood DEF SpentFrom
    <2>2. Quiet(acc, e)
        BY <2>1, SpendInputQuiet
    <2>3. Quiet(c, e)
        BY <2>1, <2>2, QuietTrans
    <2>4. CASE acc.corrupt \/ ids[i] \notin DOMAIN acc.d.boxes
        <3>1. e = Corrupt(acc)
            BY <2>4 DEF SpendInput
        <3>2. e.corrupt
            BY <2>1, <3>1, CorruptIsCorrupt
        <3> HIDE DEF e
        <3> QED BY <2>3, <3>2 DEF SpentFrom, e
    <2>5. CASE ~ acc.corrupt /\ ids[i] \in DOMAIN acc.d.boxes
        <3>1. DOMAIN e.d.boxes = DOMAIN acc.d.boxes
            BY <2>2 DEF Quiet, Moves
        <3>2. \A k \in 1..i : k = i \/ k \in 1..(i - 1)
            OBVIOUS
        <3>3. \A k \in 1..i : ids[k] \in DOMAIN e.d.boxes
            BY <2>1, <2>5, <3>1, <3>2
        <3> HIDE DEF e
        <3> QED BY <2>3, <3>3 DEF SpentFrom, e
    <2> QED BY <2>4, <2>5
<1>4. SpentFrom(tx.id, ids, c, Len(ids), out)
    <2> HIDE DEF ids
    <2>1. DOMAIN ids = 1..Len(ids) /\ Len(ids) \in Nat
        BY DEF ids
    <2> QED BY <1>2, <1>3, <2>1, LeastNatural, Taking!LeftValue
<1> HIDE DEF out
<1> QED BY <1>1, <1>4 DEF SpentFrom

LEMMA RecordTxMoves ==
    ASSUME NEW c, Good(c), NEW tx, NEW index, NEW gidx, NEW firstOut
    PROVE  Moves(c, RecordTx(c, tx, index, gidx, firstOut), {}, {}, {tx.id}, 0)
<1> DEFINE row == [height |-> c.h, index |-> index, gidx |-> gidx, firstOut |-> firstOut,
                   fee |-> FeeOf(tx), inputs |-> tx.inputs, outputCount |-> Len(tx.outputs)]
           places == Put(c.d.txByGidx, gidx, tx.id)
           e == [c EXCEPT !.d.txs = Put(@, tx.id, row), !.d.txByGidx = places,
                          !.undo.txIds = @ \cup {tx.id}]
<1>1. e = RecordTx(c, tx, index, gidx, firstOut)
    BY DEF RecordTx
<1> HIDE DEF row, places
<1>2. /\ DOMAIN e = DOMAIN c /\ DOMAIN e.d = DOMAIN c.d /\ DOMAIN e.undo = DOMAIN c.undo
      /\ e.h = c.h /\ e.hold = c.hold
      /\ e.d.headers = c.d.headers /\ e.d.undo = c.d.undo
      /\ e.d.genesisSeeded = c.d.genesisSeeded
      /\ e.d.boxes = c.d.boxes /\ e.d.ergoTrees = c.d.ergoTrees
      /\ e.d.treeBalance = c.d.treeBalance /\ e.d.tokens = c.d.tokens
      /\ e.d.registerIdx = c.d.registerIdx
      /\ e.d.txs = Put(c.d.txs, tx.id, row)
    BY DEF Good, CtxKeys, TableKeys, UndoKeys
<1>3. /\ e.undo.createdBoxes = c.undo.createdBoxes /\ e.undo.spentBoxes = c.undo.spentBoxes
      /\ e.undo.txIds = c.undo.txIds \cup {tx.id} /\ e.undo.newTrees = c.undo.newTrees
      /\ e.undo.newBalances = c.undo.newBalances /\ e.undo.prevBalances = c.undo.prevBalances
      /\ e.undo.newTokens = c.undo.newTokens /\ e.undo.prevTokens = c.undo.prevTokens
    BY DEF Good, CtxKeys, TableKeys, UndoKeys
<1> HIDE DEF e
<1>4. DOMAIN e.d.txs = DOMAIN c.d.txs \cup {tx.id}
    BY <1>2 DEF Put
<1>5. Good(e)
    <2>1. TokenIds(e.undo) = TokenIds(c.undo) /\ Balances(e.undo) = Balances(c.undo)
        BY <1>3 DEF TokenIds, Balances
    <2> QED BY <1>2, <1>3, <2>1 DEF Good
<1>6. Cardinality(c.d.registerIdx) \in Nat
    BY FS_CardinalityType DEF Good
<1> QED BY <1>1, <1>2, <1>3, <1>4, <1>5, <1>6 DEF Moves

LEMMA IndexTxMoves ==
    ASSUME NEW c, Good(c), ~ c.corrupt, NEW tx, NEW index,
           DOMAIN tx.inputs = 1..Len(tx.inputs), Len(tx.inputs) \in Nat,
           FiniteBoxes(tx.outputs),
           \A k \in DOMAIN tx.inputs : tx.inputs[k] \in DOMAIN c.d.boxes
    PROVE  Moves(c, IndexTx(c, tx, index), BoxIds(tx.outputs), BoxIds(tx.outputs), {tx.id},
                 RegisterCount(tx.outputs))
<1> DEFINE gidx == c.d.nextTx
           firstOut == c.d.nextBox
           inputs == [i \in DOMAIN tx.inputs |-> c.d.boxes[tx.inputs[i]]]
           trees == {b.tree : b \in Range(inputs)} \cup {o.tree : o \in Range(tx.outputs)}
           c0 == [c EXCEPT !.d.nextTx = @ + 1]
           c1 == CreateOutputs(c0, tx)
           c2 == TokensApplyTx(c1, tx, inputs, firstOut)
           c3 == TouchTrees(c2, trees, gidx)
           c4 == RecordTx(c3, tx, index, gidx, firstOut)
           ids == BoxIds(tx.outputs)
           n == RegisterCount(tx.outputs)
<1>0. IndexTx(c, tx, index) = c4
    BY Zenon DEF IndexTx
<1>1. Quiet(c, c0) /\ Good(c0)
    <2>1. SameView(c, c0)
        BY DEF SameView, Good, CtxKeys, TableKeys
    <2> HIDE DEF c0
    <2> QED BY <2>1, SameViewQuiet, QuietGood
<1>2. FiniteTokens(inputs) /\ DOMAIN inputs = 1..Len(tx.inputs)
    BY DEF FiniteTokens, Good, RowOK, BagToSet
<1>3. DOMAIN tx.outputs = 1..Len(tx.outputs) /\ Len(tx.outputs) \in Nat /\ FiniteTokens(tx.outputs)
    BY BoxList
<1> HIDE DEF c0, inputs, trees
<1>4. Moves(c0, c1, ids, ids, {}, n) /\ Good(c1)
    BY <1>1, CreateOutputsMoves DEF Moves
<1> HIDE DEF c1, ids, n
<1>5. Quiet(c1, c2) /\ Good(c2)
    BY <1>2, <1>3, <1>4, TokensApplyTxQuiet, QuietGood
<1> HIDE DEF c2
<1>6. Quiet(c2, c3) /\ Good(c3)
    BY <1>5, TouchTreesQuiet, QuietGood
<1> HIDE DEF c3
<1>7. Moves(c3, c4, {}, {}, {tx.id}, 0)
    BY <1>6, RecordTxMoves
<1>8. Quiet(c1, c3)
    BY <1>4, <1>5, <1>6, QuietTrans
<1> HIDE DEF c4
<1>9. Moves(c1, c4, {} \cup {}, {} \cup {}, {} \cup {tx.id}, 0 + 0)
    BY <1>4, <1>7, <1>8, MovesTrans DEF Quiet
<1>10. Moves(c, c1, {} \cup ids, {} \cup ids, {} \cup {}, 0 + n)
    BY <1>1, <1>4, MovesTrans DEF Quiet
<1>11. n \in Nat
    BY <1>4 DEF Moves
<1>12. /\ {} \cup {} = {} /\ {} \cup ids = ids /\ {} \cup {tx.id} = {tx.id}
       /\ 0 + n = n /\ 0 + 0 = 0
    BY <1>11
<1>13. Moves(c1, c4, {}, {}, {tx.id}, 0) /\ Moves(c, c1, ids, ids, {}, n)
    BY <1>9, <1>10, <1>12, Zenon
<1>14. Moves(c, c4, ids \cup {}, ids \cup {}, {} \cup {tx.id}, n + 0)
    BY <1>13, MovesTrans
<1>15. ids \cup {} = ids /\ n + 0 = n
    BY <1>11
<1>16. Moves(c, c4, ids, ids, {tx.id}, n)
    BY <1>12, <1>14, <1>15, Zenon
<1> QED BY <1>0, <1>16 DEF ids, n

(* What a chain guarantees of each transaction. *)
LEMMA TxContent ==
    ASSUME NEW b \in Block
    PROVE  /\ DOMAIN Txs[b] = 1..Len(Txs[b]) /\ Len(Txs[b]) \in Nat
           /\ \A i \in 1..Len(Txs[b]) :
                /\ DOMAIN Txs[b][i].inputs = 1..Len(Txs[b][i].inputs)
                /\ Len(Txs[b][i].inputs) \in Nat
                /\ FiniteBoxes(Txs[b][i].outputs)
<1>1. /\ Txs[b] \in Seq(Range(Txs[b]))
      /\ \A i \in DOMAIN Txs[b] : /\ Txs[b][i].inputs \in Seq(Range(Txs[b][i].inputs))
                                  /\ FiniteBoxes(Txs[b][i].outputs)
    BY ContentAssumption
<1>2. DOMAIN Txs[b] = 1..Len(Txs[b]) /\ Len(Txs[b]) \in Nat
    BY <1>1
<1> QED BY <1>1, <1>2

LEMMA ApplyTxMoves ==
    ASSUME NEW c, Good(c), NEW tx, NEW index,
           DOMAIN tx.inputs = 1..Len(tx.inputs), Len(tx.inputs) \in Nat,
           FiniteBoxes(tx.outputs)
    PROVE  LET e == ApplyTx(c, tx, index)
           IN  \/ e.corrupt
               \/ Moves(c, e, BoxIds(tx.outputs), BoxIds(tx.outputs), {tx.id},
                        RegisterCount(tx.outputs))
<1> DEFINE s == SpendInputs(c, tx)
           e == IndexTx(s, tx, index)
           ids == BoxIds(tx.outputs)
           n == RegisterCount(tx.outputs)
<1>0. ApplyTx(c, tx, index) = e
    BY DEF ApplyTx
<1>1. /\ Quiet(c, s) /\ Good(s)
      /\ s.corrupt \/ \A k \in DOMAIN tx.inputs : tx.inputs[k] \in DOMAIN s.d.boxes
    BY SpendInputsQuiet, QuietGood
<1> HIDE DEF s
<1>2. CASE s.corrupt
    <2>1. e = s
        BY <1>2 DEF IndexTx
    <2> QED BY <1>0, <1>2, <2>1
<1>3. CASE ~ s.corrupt
    <2>1. Moves(s, e, ids, ids, {tx.id}, n)
        BY <1>1, <1>3, IndexTxMoves
    <2> HIDE DEF e, ids, n
    <2>2. Moves(c, e, {} \cup ids, {} \cup ids, {} \cup {tx.id}, 0 + n)
        BY <1>1, <2>1, MovesTrans DEF Quiet
    <2>3. n \in Nat
        BY <2>1 DEF Moves
    <2>4. {} \cup ids = ids /\ {} \cup {tx.id} = {tx.id} /\ 0 + n = n
        BY <2>3
    <2>5. Moves(c, e, ids, ids, {tx.id}, n)
        BY <2>2, <2>4, Zenon
    <2> QED BY <1>0, <2>5 DEF ids, n
<1> QED BY <1>2, <1>3

-----------------------------------------------------------------------------
(* One block. *)

LOCAL BlockEntries == INSTANCE FoldTheory WITH
    Op <- LAMBDA p, q, acc, tx : acc + RegisterCount(tx.outputs),
    Inv <- LAMBDA p, q, base, n, acc : TRUE

LEMMA RegistersOfBlockSteps ==
    ASSUME NEW b \in Block
    PROVE  \E r : /\ r[0] = 0 /\ r[Len(Txs[b])] = RegistersOfBlock(b)
                  /\ \A i \in 1..Len(Txs[b]) :
                        r[i] = r[i - 1] + RegisterCount(Txs[b][i].outputs)
<1> DEFINE txs == Txs[b]
           F(f) == BlockEntries!LeftFold(0, 0, 0, txs, f)
           total == BlockEntries!Left(0, 0, 0, txs)
<1>1. RegistersOfBlock(b) = total
    BY DEF RegistersOfBlock, FoldLeft, MapThenFoldSet, Max, BlockEntries!Left,
           BlockEntries!LeftFold, BlockEntries!Greatest
<1>2. DOMAIN txs = 1..Len(txs) /\ Len(txs) \in Nat
    BY TxContent
<1> HIDE DEF txs
<1>3. /\ \E f : F(f)
      /\ \A f : F(f) => \E r : /\ BlockEntries!Trace(0, 0, 0, txs, r)
                               /\ r[Len(txs)] = f[DOMAIN txs]
    BY <1>2, LeastNatural, BlockEntries!LeftTrace
<1>4. PICK r : BlockEntries!Trace(0, 0, 0, txs, r) /\ r[Len(txs)] = total
    <2>1. F(CHOOSE f : F(f))
        BY <1>3, Zenon
    <2> HIDE DEF F
    <2>2. \E r : /\ BlockEntries!Trace(0, 0, 0, txs, r)
                 /\ r[Len(txs)] = (CHOOSE f : F(f))[DOMAIN txs]
        BY <1>3, <2>1
    <2> QED BY <2>2, Zenon DEF BlockEntries!Left, F
<1> HIDE DEF total
<1> QED BY <1>1, <1>4 DEF BlockEntries!Trace, txs

OutsBy(b, n) == UNION {BoxIds(Txs[b][i].outputs) : i \in 1..n}
TxsOf(b, n) == {Txs[b][i].id : i \in 1..n}

(* Inv of the loop over transactions: q holds the register sums. *)
IndexedFrom(p, q, base, n, acc) ==
    Good(base) => \/ acc.corrupt
                  \/ Moves(base, acc, OutsBy(p, n), OutsBy(p, n), TxsOf(p, n), q[n])

LOCAL Indexing == INSTANCE FoldTheory WITH
    Op <- LAMBDA p, q, acc, i : IF acc.corrupt THEN acc ELSE ApplyTx(acc, Txs[p][i], i - 1),
    Inv <- IndexedFrom

LEMMA ApplyTxsMoves ==
    ASSUME NEW c, Good(c), NEW b \in Block
    PROVE  LET e == ApplyTxs(c, b)
           IN  e.corrupt \/ Moves(c, e, OutIds(b), OutIds(b), TxIds(b), RegistersOfBlock(b))
<1> DEFINE m == Len(Txs[b])
           places == [i \in DOMAIN Txs[b] |-> i]
<1>1. PICK r : /\ r[0] = 0 /\ r[m] = RegistersOfBlock(b)
               /\ \A i \in 1..m : r[i] = r[i - 1] + RegisterCount(Txs[b][i].outputs)
    BY RegistersOfBlockSteps
<1> DEFINE out == Indexing!Left(b, r, c, places)
           moved(n, acc) == acc.corrupt \/ Moves(c, acc, OutsBy(b, n), OutsBy(b, n), TxsOf(b, n), r[n])
<1>2. ApplyTxs(c, b) = out
    BY DEF ApplyTxs, FoldLeftDomain, FoldLeft, MapThenFoldSet, Max, Indexing!Left,
           Indexing!LeftFold, Indexing!Greatest
<1>3. /\ DOMAIN Txs[b] = 1..m /\ m \in Nat
      /\ \A i \in 1..m : /\ DOMAIN Txs[b][i].inputs = 1..Len(Txs[b][i].inputs)
                         /\ Len(Txs[b][i].inputs) \in Nat
                         /\ FiniteBoxes(Txs[b][i].outputs)
    BY TxContent
<1>4. Len(places) = m /\ DOMAIN places = 1..m /\ \A i \in 1..m : places[i] = i
    BY <1>3, FunctionLength
<1> HIDE DEF m, places
<1>5. \A n, acc : IndexedFrom(b, r, c, n, acc) <=> moved(n, acc)
    BY DEF IndexedFrom
<1>6. moved(0, c)
    <2>1. OutsBy(b, 0) = {} /\ TxsOf(b, 0) = {}
        BY DEF OutsBy, TxsOf
    <2>2. Moves(c, c, {}, {}, {}, 0)
        BY QuietRefl DEF Quiet
    <2> QED BY <1>1, <2>1, <2>2
<1>7. ASSUME NEW i \in 1..m, NEW acc, moved(i - 1, acc), ~ acc.corrupt
      PROVE  moved(i, ApplyTx(acc, Txs[b][i], i - 1))
    <2> DEFINE tx == Txs[b][i]
               e == ApplyTx(acc, tx, i - 1)
               ids == BoxIds(tx.outputs)
               k == RegisterCount(tx.outputs)
    <2>1. Moves(c, acc, OutsBy(b, i - 1), OutsBy(b, i - 1), TxsOf(b, i - 1), r[i - 1]) /\ Good(acc)
        BY <1>7 DEF Moves
    <2>2. e.corrupt \/ Moves(acc, e, ids, ids, {tx.id}, k)
        BY <1>3, <2>1, ApplyTxMoves
    <2>3. SUFFICES ASSUME Moves(acc, e, ids, ids, {tx.id}, k)
                   PROVE  Moves(c, e, OutsBy(b, i), OutsBy(b, i), TxsOf(b, i), r[i])
        BY <2>2, Zenon
    <2>4. r[i - 1] + k = r[i]
        BY <1>1
    <2>5. /\ OutsBy(b, i - 1) \cup ids = OutsBy(b, i)
          /\ TxsOf(b, i - 1) \cup {tx.id} = TxsOf(b, i)
        <3>1. 1..i = 1..(i - 1) \cup {i}
            BY <1>3
        <3> QED BY <3>1 DEF OutsBy, TxsOf
    <2> HIDE DEF e, ids, k, tx
    <2>6. Moves(c, e, OutsBy(b, i - 1) \cup ids, OutsBy(b, i - 1) \cup ids,
                TxsOf(b, i - 1) \cup {tx.id}, r[i - 1] + k)
        BY <2>1, <2>3, MovesTrans
    <2> QED BY <2>4, <2>5, <2>6, Zenon
<1> HIDE DEF moved
<1>8. IndexedFrom(b, r, c, Len(places), out)
    <2>1. IndexedFrom(b, r, c, 0, c)
        BY <1>5, <1>6
    <2>2. \A i \in 1..m : \A acc : IndexedFrom(b, r, c, i - 1, acc) =>
            IndexedFrom(b, r, c, i,
                IF acc.corrupt THEN acc ELSE ApplyTx(acc, Txs[b][places[i]], places[i] - 1))
        <3> SUFFICES ASSUME NEW i \in 1..m, NEW acc, moved(i - 1, acc)
                     PROVE  moved(i, IF acc.corrupt THEN acc ELSE ApplyTx(acc, Txs[b][i], i - 1))
            BY <1>4, <1>5
        <3>1. CASE acc.corrupt
            BY <3>1 DEF moved
        <3>2. CASE ~ acc.corrupt
            BY <1>7, <3>2
        <3> QED BY <3>1, <3>2
    <2> QED BY <1>3, <1>4, <2>1, <2>2, LeastNatural, Indexing!LeftValue
<1> HIDE DEF out
<1>9. OutsBy(b, m) = OutIds(b) /\ TxsOf(b, m) = TxIds(b)
    BY <1>3 DEF OutsBy, TxsOf, OutIds, TxIds
<1> QED BY <1>1, <1>2, <1>4, <1>5, <1>8, <1>9 DEF moved

(* Tables a block may be applied to. *)
Base(d) == /\ DOMAIN d = TableKeys
           /\ IsFiniteSet(d.registerIdx)
           /\ \A id \in DOMAIN d.boxes : RowOK(d.boxes[id], d.ergoTrees)

LEMMA NewCtxGood ==
    ASSUME NEW d, Base(d), NEW h
    PROVE  Good(NewCtx(d, h))
<1> DEFINE c == NewCtx(d, h)
<1>1. /\ DOMAIN c = CtxKeys /\ c.d = d /\ c.hold = <<>> /\ c.undo = NoUndo
    BY DEF NewCtx, CtxKeys
<1>2. DOMAIN NoUndo = UndoKeys
    BY DEF NoUndo, UndoKeys
<1>3. /\ NoUndo.spentBoxes = {} /\ NoUndo.newBalances = {} /\ NoUndo.newTokens = {}
      /\ NoUndo.prevBalances = <<>> /\ NoUndo.prevTokens = <<>>
    BY DEF NoUndo
<1>4. DOMAIN <<>> = {} /\ IsFiniteSet({})
    BY FS_EmptySet
<1>5. Balances(NoUndo) = {} /\ TokenIds(NoUndo) = {}
    BY <1>3, <1>4 DEF Balances, TokenIds
<1> HIDE DEF c
<1> QED BY <1>1, <1>2, <1>3, <1>4, <1>5 DEF Good, Base, c

Flushed(c) == FlushBalances(FlushTokens(FlushHolders(FlushTemplates(c))))

LEMMA FlushedQuiet ==
    ASSUME NEW c, Good(c)
    PROVE  Quiet(c, Flushed(c))
<1> DEFINE c1 == FlushTemplates(c)
           c2 == FlushHolders(c1)
           c3 == FlushTokens(c2)
<1>1. Quiet(c, c1) /\ Good(c1)
    BY FlushTemplatesQuiet, QuietGood
<1> HIDE DEF c1
<1>2. Quiet(c1, c2) /\ Good(c2)
    BY <1>1, FlushHoldersQuiet, QuietGood
<1> HIDE DEF c2
<1>3. Quiet(c2, c3) /\ Good(c3)
    BY <1>2, FlushTokensQuiet, QuietGood
<1> HIDE DEF c3
<1>4. Quiet(c3, FlushBalances(c3))
    BY <1>3, FlushBalancesQuiet
<1>5. Quiet(c, c3)
    BY <1>1, <1>2, <1>3, QuietTrans
<1>6. Quiet(c, FlushBalances(c3))
    BY <1>4, <1>5, QuietTrans
<1> QED BY <1>6 DEF Flushed, c1, c2, c3

(* The context a block starts from: its own undo row, no other.            *)
LEMMA BlockCtxGood ==
    ASSUME NEW d, Base(d), NEW b
    PROVE  LET c == BlockCtx(d, b)
           IN  /\ Good(c) /\ c.h = Height[b] /\ c.undo = NoUndo
               /\ c.d.headers = d.headers /\ c.d.genesisSeeded = d.genesisSeeded
               /\ c.d.boxes = d.boxes /\ c.d.ergoTrees = d.ergoTrees /\ c.d.txs = d.txs
               /\ c.d.treeBalance = d.treeBalance /\ c.d.tokens = d.tokens
               /\ c.d.registerIdx = d.registerIdx
<1> DEFINE d1 == [Opened(d) EXCEPT !.undo = <<>>]
<1>1. /\ DOMAIN d1 = TableKeys
      /\ d1.headers = d.headers /\ d1.genesisSeeded = d.genesisSeeded
      /\ d1.boxes = d.boxes /\ d1.ergoTrees = d.ergoTrees /\ d1.txs = d.txs
      /\ d1.treeBalance = d.treeBalance /\ d1.tokens = d.tokens
      /\ d1.registerIdx = d.registerIdx
    BY DEF Base, Opened, TableKeys
<1>2. BlockCtx(d, b) = NewCtx(d1, Height[b])
    BY DEF BlockCtx
<1> HIDE DEF d1
<1>3. Base(d1)
    BY <1>1 DEF Base
<1>4. LET c == NewCtx(d1, Height[b]) IN c.d = d1 /\ c.h = Height[b] /\ c.undo = NoUndo
    BY DEF NewCtx
<1> QED BY <1>1, <1>2, <1>3, <1>4, NewCtxGood

(* An applied block is a move from a fresh context, sealed.                *)
LEMMA ApplyBlockMoves ==
    ASSUME NEW d, Base(d), NEW b \in Block
    PROVE  LET c == ApplyBlock(d, b)
               base == BlockCtx(d, b)
           IN  \/ c.corrupt
               \/ \E e : /\ Moves(base, e, OutIds(b), OutIds(b), TxIds(b), RegistersOfBlock(b))
                         /\ c = SealBlock(e, b, Opened(d))
<1> DEFINE d1 == Opened(d)
           base == BlockCtx(d, b)
           run == ApplyTxs(base, b)
           e == Flushed(run)
           n == RegistersOfBlock(b)
<1>2. Good(base)
    BY BlockCtxGood
<1> HIDE DEF base
<1>3. run.corrupt \/ Moves(base, run, OutIds(b), OutIds(b), TxIds(b), n)
    BY <1>2, ApplyTxsMoves
<1>4. ApplyBlock(d, b) = FinishBlock(run, b, d1)
    BY DEF ApplyBlock, base
<1> HIDE DEF run, d1, n
<1>5. CASE run.corrupt
    <2>1. ApplyBlock(d, b) = run
        BY <1>4, <1>5 DEF FinishBlock
    <2> QED BY <1>5, <2>1
<1>6. CASE ~ run.corrupt
    <2>1. ApplyBlock(d, b) = SealBlock(e, b, d1)
        BY <1>4, <1>6 DEF FinishBlock, Flushed
    <2>2. Moves(base, run, OutIds(b), OutIds(b), TxIds(b), n) /\ Good(run)
        BY <1>3, <1>6 DEF Moves
    <2>3. Quiet(run, e)
        BY <2>2, FlushedQuiet
    <2> HIDE DEF e
    <2>4. Moves(base, e, OutIds(b) \cup {}, OutIds(b) \cup {}, TxIds(b) \cup {}, n + 0)
        BY <1>2, <2>2, <2>3, MovesTrans DEF Quiet
    <2>5. n \in Nat
        BY <2>2 DEF Moves
    <2>6. OutIds(b) \cup {} = OutIds(b) /\ TxIds(b) \cup {} = TxIds(b) /\ n + 0 = n
        BY <2>5
    <2>7. Moves(base, e, OutIds(b), OutIds(b), TxIds(b), n)
        BY <2>4, <2>6, Zenon
    <2> QED BY <2>1, <2>7 DEF base, d1, n
<1> QED BY <1>5, <1>6

(* With no boxes the first block finds nothing to spend. *)
NoneFound(p, q, base, n, acc) ==
    Good(base) /\ DOMAIN base.d.boxes = {} => Quiet(base, acc) /\ (n > 0 => acc.corrupt)

NoneIndexed(p, q, base, n, acc) ==
    Good(base) /\ DOMAIN base.d.boxes = {} => IF n = 0 THEN acc = base ELSE acc.corrupt

LOCAL Missing == INSTANCE FoldTheory WITH
    Op <- LAMBDA p, q, acc, id : SpendInput(acc, id, p), Inv <- NoneFound
LOCAL Refusing == INSTANCE FoldTheory WITH
    Op <- LAMBDA p, q, acc, i : IF acc.corrupt THEN acc ELSE ApplyTx(acc, Txs[p][i], i - 1),
    Inv <- NoneIndexed

LEMMA NoBoxesNoSpends ==
    ASSUME NEW c, Good(c), DOMAIN c.d.boxes = {}, NEW tx,
           DOMAIN tx.inputs = 1..Len(tx.inputs), Len(tx.inputs) \in Nat, Len(tx.inputs) > 0
    PROVE  SpendInputs(c, tx).corrupt
<1> DEFINE ids == tx.inputs
           out == Missing!Left(tx.id, 0, c, ids)
<1>1. SpendInputs(c, tx) = out
    BY DEF SpendInputs, FoldLeft, MapThenFoldSet, Max, Missing!Left, Missing!LeftFold,
           Missing!Greatest
<1>2. NoneFound(tx.id, 0, c, 0, c)
    BY QuietRefl DEF NoneFound
<1>3. ASSUME NEW i \in 1..Len(ids), NEW acc, NoneFound(tx.id, 0, c, i - 1, acc)
      PROVE  NoneFound(tx.id, 0, c, i, SpendInput(acc, ids[i], tx.id))
    <2>1. Quiet(c, acc) /\ Good(acc)
        BY <1>3, QuietGood DEF NoneFound
    <2>2. DOMAIN acc.d.boxes = {}
        BY <2>1 DEF Quiet, Moves
    <2>3. SpendInput(acc, ids[i], tx.id) = Corrupt(acc)
        BY <2>2 DEF SpendInput
    <2>4. Quiet(c, Corrupt(acc)) /\ Corrupt(acc).corrupt
        BY <2>1, CorruptQuiet, QuietTrans, CorruptIsCorrupt
    <2> QED BY <2>3, <2>4 DEF NoneFound
<1>4. NoneFound(tx.id, 0, c, Len(ids), out)
    <2> HIDE DEF ids
    <2>1. DOMAIN ids = 1..Len(ids) /\ Len(ids) \in Nat
        BY DEF ids
    <2> QED BY <1>2, <1>3, <2>1, LeastNatural, Missing!LeftValue
<1> HIDE DEF out
<1> QED BY <1>1, <1>4 DEF NoneFound

LEMMA FirstBlockRefused ==
    ASSUME NEW d, Base(d), DOMAIN d.boxes = {}, NEW b \in Block, Height[b] = 1
    PROVE  ApplyBlock(d, b).corrupt
<1> DEFINE d1 == Opened(d)
           c == BlockCtx(d, b)
           m == Len(Txs[b])
           places == [i \in DOMAIN Txs[b] |-> i]
           out == Refusing!Left(b, 0, c, places)
<1>2. Good(c) /\ DOMAIN c.d.boxes = {}
    BY BlockCtxGood
<1>3. ApplyBlock(d, b) = FinishBlock(ApplyTxs(c, b), b, d1)
    BY DEF ApplyBlock
<1> HIDE DEF c, d1
<1>4. /\ DOMAIN Txs[b] = 1..m /\ m \in Nat
      /\ \A i \in 1..m : /\ DOMAIN Txs[b][i].inputs = 1..Len(Txs[b][i].inputs)
                         /\ Len(Txs[b][i].inputs) \in Nat
    BY TxContent
<1>5. m > 0 /\ Len(Txs[b][1].inputs) > 0
    <2>1. Txs[b] # <<>> /\ Txs[b][1].inputs # <<>>
        BY EmissionAssumption
    <2>2. /\ Txs[b] \in Seq(Range(Txs[b]))
          /\ \A i \in DOMAIN Txs[b] : Txs[b][i].inputs \in Seq(Range(Txs[b][i].inputs))
        BY ContentAssumption
    <2>3. m > 0
        BY <2>1, <2>2
    <2>4. Txs[b][1].inputs \in Seq(Range(Txs[b][1].inputs))
        BY <1>4, <2>2, <2>3
    <2> QED BY <2>1, <2>3, <2>4
<1>6. ApplyTxs(c, b) = out
    BY DEF ApplyTxs, FoldLeftDomain, FoldLeft, MapThenFoldSet, Max, Refusing!Left,
           Refusing!LeftFold, Refusing!Greatest
<1>7. Len(places) = m /\ DOMAIN places = 1..m /\ \A i \in 1..m : places[i] = i
    BY <1>4, FunctionLength
<1> HIDE DEF m, places
<1>8. NoneIndexed(b, 0, c, 0, c)
    BY DEF NoneIndexed
<1>9. ASSUME NEW i \in 1..m, NEW acc, NoneIndexed(b, 0, c, i - 1, acc)
      PROVE  NoneIndexed(b, 0, c, i,
                IF acc.corrupt THEN acc ELSE ApplyTx(acc, Txs[b][places[i]], places[i] - 1))
    <2>1. CASE acc.corrupt
        BY <2>1 DEF NoneIndexed
    <2>2. CASE ~ acc.corrupt
        <3>1. i = 1 /\ acc = c
            BY <1>2, <1>4, <1>9, <2>2 DEF NoneIndexed
        <3> DEFINE s == SpendInputs(c, Txs[b][1])
        <3>2. s.corrupt
            BY <1>2, <1>4, <1>5, NoBoxesNoSpends
        <3>3. ApplyTx(c, Txs[b][1], 0) = s
            BY <3>2 DEF ApplyTx, IndexTx
        <3>4. places[i] = 1 /\ places[i] - 1 = 0
            BY <1>7, <3>1
        <3> HIDE DEF s
        <3> QED BY <2>2, <3>1, <3>2, <3>3, <3>4 DEF NoneIndexed
    <2> QED BY <2>1, <2>2
<1>10. NoneIndexed(b, 0, c, Len(places), out)
    BY <1>4, <1>7, <1>8, <1>9, LeastNatural, Refusing!LeftValue
<1> HIDE DEF out
<1>11. out.corrupt
    BY <1>2, <1>4, <1>5, <1>7, <1>10 DEF NoneIndexed
<1> QED BY <1>3, <1>6, <1>11 DEF FinishBlock

-----------------------------------------------------------------------------
(* The boxes made up to height n, chain-spec boxes among them.             *)
MadeBy(d, n) ==
    (IF d.genesisSeeded THEN BoxIds(Genesis) ELSE {})
        \cup UNION {OutIds(d.headers[j].id) : j \in 1..n}

TxsBy(d, n) == UNION {TxIds(d.headers[j].id) : j \in 1..n}

(* The undo row of height h can be undone once the blocks above it are.    *)
UndoRowOK(d, h, u) ==
    /\ u.createdBoxes = OutIds(d.headers[h].id)
    /\ u.spentBoxes \subseteq MadeBy(d, h)
    /\ u.txIds = TxIds(d.headers[h].id)
    /\ Balances(u) \subseteq DOMAIN d.treeBalance
    /\ TokenIds(u) \subseteq DOMAIN d.tokens
    /\ \A id \in MadeBy(d, h - 1) : d.boxes[id].tree \notin u.newTrees

UndoSound(d) ==
    /\ DOMAIN d.undo \subseteq DOMAIN d.headers
    /\ \A h \in DOMAIN d.undo : UndoRowOK(d, h, d.undo[h])
    /\ \A h, k \in DOMAIN d.undo :
          h < k => /\ Balances(d.undo[h]) \cap d.undo[k].newBalances = {}
                   /\ TokenIds(d.undo[h]) \cap d.undo[k].newTokens = {}

HeadersSound(d) ==
    LET n == IndexedHeight(d)
    IN  /\ n \in Nat
        /\ d.headers = [h \in 1..n |-> d.headers[h]]
        /\ Chain(d) \in Seq(Block)
        /\ Abs!Linked(Chain(d))
        /\ d.genesisSeeded \in BOOLEAN
        /\ n > 0 => d.genesisSeeded

BoxesSound(d) ==
    /\ DOMAIN d.boxes = MadeBy(d, IndexedHeight(d))
    /\ DOMAIN d.txs = TxsBy(d, IndexedHeight(d))
    /\ \A id \in DOMAIN d.boxes : RowOK(d.boxes[id], d.ergoTrees)

TablesInv(d) == /\ DOMAIN d = TableKeys
                /\ HeadersSound(d) /\ BoxesSound(d) /\ UndoSound(d)
                /\ IsFiniteSet(d.registerIdx)

Roomy(d) == Ceiling # NoRow => d.registerIdx = {} \/ Cardinality(d.registerIdx) < Ceiling

DatabaseInv(d) == /\ DOMAIN d = {"tables", "peak"}
                  /\ TablesInv(d.tables) /\ Roomy(d.tables)
                  /\ d.peak \in Nat /\ IndexedHeight(d.tables) <= d.peak

StoreInv == DatabaseInv(db) /\ DatabaseInv(disk)

-----------------------------------------------------------------------------
(* The chain in the tables. *)

LEMMA ChainOf ==
    ASSUME NEW d, HeadersSound(d)
    PROVE  LET n == IndexedHeight(d)
           IN  /\ n \in Nat /\ DOMAIN d.headers = 1..n /\ Len(Chain(d)) = n
               /\ Chain(d) = [h \in 1..n |-> d.headers[h].id]
               /\ \A h \in 1..n : d.headers[h].id \in Block /\ Height[d.headers[h].id] = h
               /\ d.headers = <<>> <=> n = 0
<1> DEFINE n == IndexedHeight(d)
           s == Chain(d)
<1>1. /\ n \in Nat /\ DOMAIN d.headers = 1..n
    BY DEF HeadersSound
<1>2. s = [h \in 1..n |-> d.headers[h].id]
    BY DEF Chain, IndexedHeight
<1>3. s \in Seq(Block) /\ Abs!Linked(s)
    BY DEF HeadersSound
<1> HIDE DEF s
<1>4. Len(s) = n
    BY <1>1, <1>2, FunctionLength
<1> HIDE DEF n
<1>5. \A h \in 1..n : d.headers[h].id \in Block /\ Height[d.headers[h].id] = h
    <2> TAKE h \in 1..n
    <2>1. s[h] = d.headers[h].id /\ s[h] \in Block
        BY <1>1, <1>2, <1>3, <1>4
    <2>2. Height[s[h]] = h
        BY <1>1, <1>3, <1>4 DEF Abs!Linked, Abs!LinkedAt
    <2> QED BY <2>1, <2>2
<1>6. d.headers = <<>> <=> n = 0
    <2>1. d.headers = [h \in 1..n |-> d.headers[h]]
        BY DEF HeadersSound, n
    <2>2. n = 0 => 1..n = {}
        OBVIOUS
    <2>3. n # 0 => 1 \in 1..n
        BY <1>1
    <2>4. \A f : f = [h \in {} |-> f[h]] => f = <<>>
        OBVIOUS
    <2>5. n = 0 => d.headers = <<>>
        BY <2>1, <2>2, <2>4
    <2>6. d.headers = <<>> => n = 0
        BY <1>1, <2>3
    <2> QED BY <2>5, <2>6
<1> QED BY <1>1, <1>2, <1>4, <1>5, <1>6 DEF n, s

(* No block of the chain makes again what is below it. *)
LEMMA ChainApart ==
    ASSUME NEW d, HeadersSound(d), NEW h \in Nat, NEW j \in 1..IndexedHeight(d), h < j
    PROVE  /\ OutIds(d.headers[j].id) \cap MadeBy(d, h) = {}
           /\ TxIds(d.headers[j].id) \cap TxsBy(d, h) = {}
<1> DEFINE n == IndexedHeight(d)
           s == Chain(d)
<1>1. /\ n \in Nat /\ Len(s) = n /\ s = [k \in 1..n |-> d.headers[k].id]
      /\ \A k \in 1..n : s[k] \in Block /\ Height[s[k]] = k
    BY ChainOf
<1>2. s \in Seq(Block) /\ Abs!Linked(s)
    BY DEF HeadersSound
<1>3. j \in 1..n /\ n \in 1..n
    BY <1>1
<1> HIDE DEF n, s
<1>4. n \in {Height[b] : b \in Block} /\ s \in [1..n -> Block]
    BY <1>1, <1>2, <1>3
<1>5. /\ OutIds(s[j]) \cap BoxIds(Genesis) = {}
      /\ \A i \in 1..(j - 1) : /\ OutIds(s[i]) \cap OutIds(s[j]) = {}
                               /\ TxIds(s[i]) \cap TxIds(s[j]) = {}
    BY <1>2, <1>3, <1>4, IdAssumption
<1>6. \A i \in 1..h : i \in 1..(j - 1) /\ i \in 1..n
    BY <1>1, <1>3
<1>7. \A i \in 1..n : s[i] = d.headers[i].id
    BY <1>1
<1>8. \A i \in 1..h : /\ OutIds(d.headers[i].id) \cap OutIds(d.headers[j].id) = {}
                      /\ TxIds(d.headers[i].id) \cap TxIds(d.headers[j].id) = {}
    BY <1>3, <1>5, <1>6, <1>7
<1>9. OutIds(d.headers[j].id) \cap BoxIds(Genesis) = {}
    BY <1>3, <1>5, <1>7
<1> QED BY <1>8, <1>9 DEF MadeBy, TxsBy

-----------------------------------------------------------------------------
(* Applying a block to sound tables.                                       *)

(* What t is after b was indexed over d; at most k register entries more.  *)
Extended(d, t, b, k) ==
    LET n == IndexedHeight(d) + 1
        u == t.undo[n]
    IN  /\ DOMAIN t = TableKeys
        /\ t.headers = Put(d.headers, n, t.headers[n]) /\ t.headers[n].id = b
        /\ t.undo = Put(d.undo, n, u)
        /\ t.genesisSeeded = d.genesisSeeded
        /\ DOMAIN t.boxes = DOMAIN d.boxes \cup OutIds(b)
        /\ \A id \in DOMAIN d.boxes \ OutIds(b) : t.boxes[id].tree = d.boxes[id].tree
        /\ \A id \in DOMAIN t.boxes : RowOK(t.boxes[id], t.ergoTrees)
        /\ DOMAIN t.txs = DOMAIN d.txs \cup TxIds(b)
        /\ DOMAIN d.treeBalance \subseteq DOMAIN t.treeBalance
        /\ DOMAIN d.tokens \subseteq DOMAIN t.tokens
        /\ IsFiniteSet(t.registerIdx)
        /\ k \in Nat /\ Cardinality(t.registerIdx) <= Cardinality(d.registerIdx) + k
        /\ u.createdBoxes = OutIds(b) /\ u.txIds = TxIds(b)
        /\ u.spentBoxes \subseteq DOMAIN t.boxes
        /\ Balances(u) \subseteq DOMAIN t.treeBalance
        /\ TokenIds(u) \subseteq DOMAIN t.tokens
        /\ u.newTrees \cap d.ergoTrees = {}
        /\ u.newBalances \cap DOMAIN d.treeBalance = {}
        /\ u.newTokens \cap DOMAIN d.tokens = {}

LEMMA ApplyBlockExtends ==
    ASSUME NEW d, TablesInv(d), NEW b \in Block, ~ ParentMismatch(d, b),
           ~ ApplyBlock(d, b).corrupt
    PROVE  LET c == ApplyBlock(d, b)
           IN  /\ c.h = IndexedHeight(d) + 1
               /\ d.genesisSeeded
               /\ Extended(d, c.d, b, RegistersOfBlock(b))
<1> DEFINE c == ApplyBlock(d, b)
           n == IndexedHeight(d) + 1
           d1 == Opened(d)
           base == BlockCtx(d, b)
           k == RegistersOfBlock(b)
<1>1. Base(d) /\ Height[b] = n
    BY DEF TablesInv, BoxesSound, Base, ParentMismatch
<1>2. d.genesisSeeded
    <2> SUFFICES ASSUME ~ d.genesisSeeded PROVE FALSE
        OBVIOUS
    <2>1. IndexedHeight(d) = 0
        BY DEF TablesInv, HeadersSound
    <2>2. MadeBy(d, 0) = {}
        BY DEF MadeBy
    <2>3. DOMAIN d.boxes = {} /\ Height[b] = 1
        BY <1>1, <2>1, <2>2 DEF TablesInv, BoxesSound
    <2> QED BY <1>1, <2>3, FirstBlockRefused
<1>3. PICK e : /\ Moves(base, e, OutIds(b), OutIds(b), TxIds(b), k)
               /\ c = SealBlock(e, b, d1)
    BY <1>1, ApplyBlockMoves
<1>4. d1.undo = d.undo
    BY <1>1 DEF Opened, Base, TableKeys
<1>5. /\ base.h = n /\ base.undo = NoUndo
      /\ base.d.headers = d.headers /\ base.d.genesisSeeded = d.genesisSeeded
      /\ base.d.boxes = d.boxes /\ base.d.ergoTrees = d.ergoTrees /\ base.d.txs = d.txs
      /\ base.d.treeBalance = d.treeBalance /\ base.d.tokens = d.tokens
      /\ base.d.registerIdx = d.registerIdx
    BY <1>1, BlockCtxGood
<1>6. /\ NoUndo.createdBoxes = {} /\ NoUndo.txIds = {} /\ NoUndo.newTrees = {}
      /\ NoUndo.newBalances = {} /\ NoUndo.newTokens = {}
    BY DEF NoUndo
<1> HIDE DEF c, d1, base, k, n
<1>7. Good(e)
    BY <1>3 DEF Moves
<1>8. /\ e.h = n /\ e.d.headers = d.headers
      /\ e.d.genesisSeeded = d.genesisSeeded
      /\ DOMAIN e.d.boxes = DOMAIN d.boxes \cup OutIds(b)
      /\ \A id \in DOMAIN d.boxes \ OutIds(b) : e.d.boxes[id].tree = d.boxes[id].tree
      /\ DOMAIN e.d.txs = DOMAIN d.txs \cup TxIds(b)
      /\ DOMAIN d.treeBalance \subseteq DOMAIN e.d.treeBalance
      /\ DOMAIN d.tokens \subseteq DOMAIN e.d.tokens
      /\ k \in Nat /\ Cardinality(e.d.registerIdx) <= Cardinality(d.registerIdx) + k
    BY <1>3, <1>5 DEF Moves
<1>9. /\ e.undo.createdBoxes = OutIds(b) /\ e.undo.txIds = TxIds(b)
      /\ e.undo.newTrees \cap d.ergoTrees = {}
      /\ e.undo.newBalances \cap DOMAIN d.treeBalance = {}
      /\ e.undo.newTokens \cap DOMAIN d.tokens = {}
    BY <1>3, <1>5, <1>6 DEF Moves
<1> DEFINE head == HeaderRow(e.d, b, d1.nextTx)
           u == [e.undo EXCEPT !.prevNextBox = d1.nextBox, !.prevNextTx = d1.nextTx]
           places == Put(e.d.headerById, b, e.h)
<1>10. head.id = b
    BY Zenon DEF HeaderRow
<1>11. /\ u.createdBoxes = e.undo.createdBoxes /\ u.spentBoxes = e.undo.spentBoxes
       /\ u.txIds = e.undo.txIds /\ u.newTrees = e.undo.newTrees
       /\ u.newBalances = e.undo.newBalances /\ u.prevBalances = e.undo.prevBalances
       /\ u.newTokens = e.undo.newTokens /\ u.prevTokens = e.undo.prevTokens
    BY <1>7 DEF Good, UndoKeys
<1>12. c = [e EXCEPT !.d.headers = Put(@, e.h, head), !.d.headerById = places,
                     !.d.undo = Put(d.undo, e.h, u)]
    BY <1>3, <1>4 DEF SealBlock
<1> HIDE DEF head, u, places
<1>13. /\ c.h = e.h /\ DOMAIN c.d = TableKeys
       /\ c.d.headers = Put(e.d.headers, e.h, head) /\ c.d.undo = Put(d.undo, e.h, u)
       /\ c.d.genesisSeeded = e.d.genesisSeeded
       /\ c.d.boxes = e.d.boxes /\ c.d.ergoTrees = e.d.ergoTrees /\ c.d.txs = e.d.txs
       /\ c.d.treeBalance = e.d.treeBalance /\ c.d.tokens = e.d.tokens
       /\ c.d.registerIdx = e.d.registerIdx
    BY <1>7, <1>12 DEF Good, CtxKeys, TableKeys
<1>14. /\ c.d.headers = Put(d.headers, n, head) /\ c.d.headers[n] = head
       /\ c.d.undo = Put(d.undo, n, u) /\ c.d.undo[n] = u
    BY <1>8, <1>13 DEF Put
<1>15. Balances(u) = Balances(e.undo) /\ TokenIds(u) = TokenIds(e.undo)
    BY <1>11 DEF Balances, TokenIds
<1>16. Extended(d, c.d, b, k)
    BY <1>7, <1>8, <1>9, <1>10, <1>11, <1>13, <1>14, <1>15 DEF Extended, Good, n
<1> QED BY <1>2, <1>8, <1>13, <1>16 DEF c, k, n

LEMMA ExtendedHeaders ==
    ASSUME NEW d, HeadersSound(d), NEW b \in Block, ~ ParentMismatch(d, b),
           d.genesisSeeded, NEW t, NEW k, Extended(d, t, b, k)
    PROVE  LET n == IndexedHeight(d)
           IN  /\ HeadersSound(t)
               /\ IndexedHeight(t) = n + 1
               /\ \A j \in 1..n : t.headers[j] = d.headers[j]
               /\ t.headers[n + 1].id = b
               /\ Chain(t) = Append(Chain(d), b)
<1> DEFINE n == IndexedHeight(d)
           s == Chain(d)
<1>1. /\ n \in Nat /\ DOMAIN d.headers = 1..n /\ Len(s) = n
      /\ s = [h \in 1..n |-> d.headers[h].id]
    BY ChainOf
<1>2. s \in Seq(Block) /\ Abs!Linked(s)
    BY DEF HeadersSound
<1>3. Height[b] = n + 1 /\ (n > 0 => d.headers[n].id = Parent[b])
    BY DEF ParentMismatch
<1>4. /\ t.headers = Put(d.headers, n + 1, t.headers[n + 1]) /\ t.headers[n + 1].id = b
      /\ t.genesisSeeded = d.genesisSeeded
    BY DEF Extended
<1> HIDE DEF n, s
<1>5. DOMAIN t.headers = 1..(n + 1)
    <2>1. DOMAIN t.headers = {n + 1} \cup 1..n
        BY <1>1, <1>4 DEF Put
    <2> QED BY <1>1, <2>1
<1>6. \A j \in 1..n : t.headers[j] = d.headers[j]
    BY <1>1, <1>4 DEF Put
<1>7. IndexedHeight(t) = n + 1
    BY <1>1, <1>5, FS_Interval DEF IndexedHeight
<1>8. t.headers = [h \in 1..(n + 1) |-> t.headers[h]]
    BY <1>1, <1>4, <1>5 DEF Put
<1>9. Chain(t) = Append(s, b)
    <2>1. Chain(t) = [h \in 1..(n + 1) |-> t.headers[h].id]
        BY <1>7 DEF Chain, IndexedHeight
    <2>2. Append(s, b) = [h \in 1..(n + 1) |-> IF h = n + 1 THEN b ELSE s[h]]
        BY <1>1, <1>2
    <2>3. \A h \in 1..(n + 1) : t.headers[h].id = IF h = n + 1 THEN b ELSE s[h]
        <3> TAKE h \in 1..(n + 1)
        <3>1. CASE h = n + 1
            BY <1>4, <3>1
        <3>2. CASE h # n + 1
            <4>1. h \in 1..n
                BY <1>1, <3>2
            <4> QED BY <1>1, <1>6, <3>2, <4>1
        <3> QED BY <3>1, <3>2
    <2> QED BY <2>1, <2>2, <2>3
<1>10. Append(s, b) \in Seq(Block) /\ Len(Append(s, b)) = n + 1
    BY <1>1, <1>2
<1>11. Abs!Linked(Append(s, b))
    <2> DEFINE r == Append(s, b)
    <2>1. \A h \in 1..n : r[h] = s[h]
        BY <1>1, <1>2
    <2>2. r[n + 1] = b
        BY <1>1, <1>2
    <2>3. \A h \in 1..n : Height[s[h]] = h /\ (h > 1 => Parent[s[h]] = s[h - 1])
        BY <1>1, <1>2 DEF Abs!Linked, Abs!LinkedAt
    <2> HIDE DEF r
    <2>4. ASSUME NEW h \in 1..(n + 1) PROVE Height[r[h]] = h /\ (h > 1 => Parent[r[h]] = r[h - 1])
        <3>1. CASE h = n + 1
            <4>1. h > 1 => n \in 1..n /\ h - 1 = n /\ n > 0
                BY <1>1, <3>1
            <4>2. n \in 1..n => s[n] = d.headers[n].id
                BY <1>1
            <4> QED BY <1>3, <2>1, <2>2, <3>1, <4>1, <4>2
        <3>2. CASE h # n + 1
            <4>1. h \in 1..n /\ (h > 1 => h - 1 \in 1..n)
                BY <1>1, <3>2
            <4> QED BY <2>1, <2>3, <4>1
        <3> QED BY <3>1, <3>2
    <2>5. Len(r) = n + 1
        BY <1>10 DEF r
    <2> QED BY <2>4, <2>5 DEF Abs!Linked, Abs!LinkedAt, r
<1>12. n + 1 \in Nat
    BY <1>1
<1>13. d.genesisSeeded \in BOOLEAN
    BY DEF HeadersSound
<1>14. HeadersSound(t)
    BY <1>4, <1>7, <1>8, <1>9, <1>10, <1>11, <1>12, <1>13 DEF HeadersSound
<1> QED BY <1>4, <1>6, <1>7, <1>9, <1>14 DEF n, s

LEMMA ExtendedSound ==
    ASSUME NEW d, TablesInv(d), NEW b \in Block, ~ ParentMismatch(d, b),
           d.genesisSeeded, NEW t, NEW k, Extended(d, t, b, k)
    PROVE  TablesInv(t)
<1> DEFINE n == IndexedHeight(d)
           u == t.undo[n + 1]
<1>1. /\ HeadersSound(t)
      /\ IndexedHeight(t) = n + 1
      /\ \A j \in 1..n : t.headers[j] = d.headers[j]
      /\ t.headers[n + 1].id = b
    BY ExtendedHeaders DEF TablesInv
<1>2. n \in Nat /\ DOMAIN d.headers = 1..n /\ DOMAIN t.headers = 1..(n + 1)
    BY <1>1, ChainOf DEF TablesInv
<1>3. /\ DOMAIN t = TableKeys
      /\ t.undo = Put(d.undo, n + 1, u)
      /\ t.genesisSeeded = d.genesisSeeded
      /\ DOMAIN t.boxes = DOMAIN d.boxes \cup OutIds(b)
      /\ \A id \in DOMAIN d.boxes \ OutIds(b) : t.boxes[id].tree = d.boxes[id].tree
      /\ \A id \in DOMAIN t.boxes : RowOK(t.boxes[id], t.ergoTrees)
      /\ DOMAIN t.txs = DOMAIN d.txs \cup TxIds(b)
      /\ DOMAIN d.treeBalance \subseteq DOMAIN t.treeBalance
      /\ DOMAIN d.tokens \subseteq DOMAIN t.tokens
      /\ IsFiniteSet(t.registerIdx)
    BY DEF Extended
<1>4. /\ u.createdBoxes = OutIds(b) /\ u.txIds = TxIds(b)
      /\ u.spentBoxes \subseteq DOMAIN t.boxes
      /\ Balances(u) \subseteq DOMAIN t.treeBalance
      /\ TokenIds(u) \subseteq DOMAIN t.tokens
      /\ u.newTrees \cap d.ergoTrees = {}
      /\ u.newBalances \cap DOMAIN d.treeBalance = {}
      /\ u.newTokens \cap DOMAIN d.tokens = {}
    BY DEF Extended
<1> HIDE DEF n, u
<1>5. /\ \A h \in 0..n : MadeBy(t, h) = MadeBy(d, h) /\ TxsBy(t, h) = TxsBy(d, h)
      /\ MadeBy(t, n + 1) = MadeBy(d, n) \cup OutIds(b)
      /\ TxsBy(t, n + 1) = TxsBy(d, n) \cup TxIds(b)
    <2>1. \A h \in 0..n : \A j \in 1..h : t.headers[j] = d.headers[j]
        BY <1>1, <1>2
    <2>2. 1..(n + 1) = 1..n \cup {n + 1}
        BY <1>2
    <2>3. n \in 0..n
        BY <1>2
    <2>4. \A h \in 0..n : MadeBy(t, h) = MadeBy(d, h) /\ TxsBy(t, h) = TxsBy(d, h)
        BY <1>3, <2>1 DEF MadeBy, TxsBy
    <2>5. /\ MadeBy(t, n + 1) = MadeBy(t, n) \cup OutIds(b)
          /\ TxsBy(t, n + 1) = TxsBy(t, n) \cup TxIds(b)
        BY <1>1, <2>2 DEF MadeBy, TxsBy
    <2> QED BY <2>3, <2>4, <2>5
<1>6. DOMAIN d.boxes = MadeBy(d, n) /\ DOMAIN d.txs = TxsBy(d, n)
    BY DEF TablesInv, BoxesSound, n
<1>7. BoxesSound(t)
    BY <1>1, <1>3, <1>5, <1>6 DEF BoxesSound
<1>8. DOMAIN t.undo = DOMAIN d.undo \cup {n + 1} /\ \A h \in DOMAIN d.undo : t.undo[h] = d.undo[h]
    <2>1. n + 1 \notin DOMAIN d.undo
        BY <1>2 DEF TablesInv, UndoSound
    <2> QED BY <1>3, <2>1 DEF Put
<1>9. /\ DOMAIN d.undo \subseteq 1..n
      /\ \A h \in DOMAIN d.undo : UndoRowOK(d, h, d.undo[h])
      /\ \A h, j \in DOMAIN d.undo :
            h < j => /\ Balances(d.undo[h]) \cap d.undo[j].newBalances = {}
                     /\ TokenIds(d.undo[h]) \cap d.undo[j].newTokens = {}
    BY <1>2 DEF TablesInv, UndoSound
<1>10. ASSUME NEW h \in DOMAIN d.undo PROVE UndoRowOK(t, h, t.undo[h])
    <2>1. h \in 1..n /\ h \in 0..n /\ h - 1 \in 0..n
        BY <1>2, <1>9
    <2>2. /\ MadeBy(t, h) = MadeBy(d, h) /\ MadeBy(t, h - 1) = MadeBy(d, h - 1)
          /\ t.headers[h] = d.headers[h] /\ t.undo[h] = d.undo[h]
        BY <1>1, <1>5, <1>8, <2>1
    <2>3. MadeBy(d, h - 1) \subseteq DOMAIN d.boxes
        <3>1. \A j \in 1..(h - 1) : j \in 1..n
            BY <1>2, <2>1
        <3> QED BY <1>6, <3>1 DEF MadeBy
    <2>4. MadeBy(t, n) \cap OutIds(b) = {}
        <3>1. n + 1 \in 1..(n + 1) /\ n < n + 1
            BY <1>2
        <3> QED BY <1>1, <1>2, <3>1, ChainApart
    <2>5. n \in 0..n
        BY <1>2
    <2>6. \A id \in MadeBy(d, h - 1) : t.boxes[id].tree = d.boxes[id].tree
        BY <1>3, <1>5, <1>6, <2>3, <2>4, <2>5
    <2>7. UndoRowOK(d, h, d.undo[h])
        BY <1>9
    <2> QED BY <1>3, <2>2, <2>6, <2>7 DEF UndoRowOK
<1>11. UndoRowOK(t, n + 1, u)
    <2>1. \A id \in DOMAIN d.boxes : d.boxes[id].tree \in d.ergoTrees
        BY DEF TablesInv, BoxesSound, RowOK
    <2>2. MadeBy(t, n) = DOMAIN d.boxes /\ n \in 0..n
        BY <1>2, <1>5, <1>6
    <2>3. MadeBy(t, n) \cap OutIds(b) = {}
        <3>1. n + 1 \in 1..(n + 1) /\ n < n + 1
            BY <1>2
        <3> QED BY <1>1, <1>2, <3>1, ChainApart
    <2>4. \A id \in MadeBy(t, n) : t.boxes[id].tree \notin u.newTrees
        BY <1>3, <1>4, <2>1, <2>2, <2>3
    <2>5. MadeBy(t, n + 1) = DOMAIN t.boxes /\ (n + 1) - 1 = n
        BY <1>2, <1>3, <1>5, <1>6
    <2> QED BY <1>1, <1>4, <2>4, <2>5 DEF UndoRowOK
<1>12. UndoSound(t)
    <2>1. t.undo[n + 1] = u
        BY <1>3 DEF Put
    <2>2. DOMAIN t.undo \subseteq DOMAIN t.headers
        BY <1>2, <1>8, <1>9
    <2>3. \A h \in DOMAIN t.undo : UndoRowOK(t, h, t.undo[h])
        BY <1>8, <1>10, <1>11, <2>1
    <2>4. ASSUME NEW h \in DOMAIN t.undo, NEW j \in DOMAIN t.undo, h < j
          PROVE  /\ Balances(t.undo[h]) \cap t.undo[j].newBalances = {}
                 /\ TokenIds(t.undo[h]) \cap t.undo[j].newTokens = {}
        <3>1. h \in DOMAIN d.undo /\ t.undo[h] = d.undo[h]
            BY <1>2, <1>8, <1>9, <2>2, <2>4
        <3>2. CASE j \in DOMAIN d.undo
            BY <1>8, <1>9, <2>4, <3>1, <3>2
        <3>3. CASE j = n + 1
            <4>1. /\ Balances(d.undo[h]) \subseteq DOMAIN d.treeBalance
                  /\ TokenIds(d.undo[h]) \subseteq DOMAIN d.tokens
                BY <1>9, <3>1 DEF UndoRowOK
            <4> QED BY <1>4, <2>1, <3>1, <3>3, <4>1
        <3> QED BY <1>8, <3>2, <3>3
    <2> QED BY <2>2, <2>3, <2>4 DEF UndoSound
<1> QED BY <1>1, <1>3, <1>7, <1>12 DEF TablesInv

-----------------------------------------------------------------------------
(* Undoing the tip of sound tables.                                        *)

(* What t is after the undo row u of the tip n was undone over d.          *)
Shrunk(d, t, n, u) ==
    /\ DOMAIN t = TableKeys
    /\ t.headers = Drop(d.headers, {n}) /\ t.undo = Drop(d.undo, {n})
    /\ t.genesisSeeded = d.genesisSeeded
    /\ DOMAIN t.boxes = DOMAIN d.boxes \ u.createdBoxes
    /\ \A id \in DOMAIN t.boxes : /\ DOMAIN t.boxes[id] = DOMAIN d.boxes[id]
                                  /\ t.boxes[id].tree = d.boxes[id].tree
                                  /\ t.boxes[id].tokens = d.boxes[id].tokens
    /\ t.ergoTrees = d.ergoTrees \ u.newTrees
    /\ DOMAIN t.txs = DOMAIN d.txs \ u.txIds
    /\ DOMAIN t.treeBalance = DOMAIN u.prevBalances \cup (DOMAIN d.treeBalance \ u.newBalances)
    /\ DOMAIN t.tokens = DOMAIN u.prevTokens \cup (DOMAIN d.tokens \ u.newTokens)
    /\ t.registerIdx \subseteq d.registerIdx

LEMMA DropKeys ==
    ASSUME NEW table, NEW keys
    PROVE  /\ DOMAIN Drop(table, keys) = DOMAIN table \ keys
           /\ \A k \in DOMAIN table \ keys : Drop(table, keys)[k] = table[k]
<1> DEFINE left == DOMAIN table \ keys
<1>1. Drop(table, keys) = Restrict(table, left)
    BY DEF Drop
<1> HIDE DEF left
<1>2. DOMAIN Restrict(table, left) = left /\ \A k \in left : Restrict(table, left)[k] = table[k]
    BY RestrictedKeys
<1> QED BY <1>1, <1>2 DEF left

(* What no step of the rollback of one height changes, but the one named.  *)
Rest(d, t) ==
    /\ DOMAIN t = TableKeys /\ t.headers = d.headers /\ t.undo = d.undo
    /\ t.genesisSeeded = d.genesisSeeded
    /\ t.ergoTrees = d.ergoTrees

RowsKept(d, t) ==
    \A id \in DOMAIN t.boxes : /\ id \in DOMAIN d.boxes
                               /\ DOMAIN t.boxes[id] = DOMAIN d.boxes[id]
                               /\ t.boxes[id].tree = d.boxes[id].tree
                               /\ t.boxes[id].tokens = d.boxes[id].tokens

LEMMA UncreateKeeps ==
    ASSUME NEW d, DOMAIN d = TableKeys, NEW u
    PROVE  LET t == UncreateBoxes(d, u)
           IN  /\ Rest(d, t) /\ RowsKept(d, t)
               /\ DOMAIN t.boxes = DOMAIN d.boxes \ u.createdBoxes
               /\ t.txs = d.txs /\ t.treeBalance = d.treeBalance /\ t.tokens = d.tokens
               /\ t.registerIdx = d.registerIdx
<1> DEFINE t == UncreateBoxes(d, u)
<1>1. /\ Rest(d, t)
      /\ t.txs = d.txs /\ t.treeBalance = d.treeBalance /\ t.tokens = d.tokens
      /\ t.registerIdx = d.registerIdx
      /\ t.boxes = Drop(d.boxes, u.createdBoxes)
    BY Zenon DEF UncreateBoxes, Rest, TableKeys
<1> HIDE DEF t
<1>2. /\ DOMAIN t.boxes = DOMAIN d.boxes \ u.createdBoxes
      /\ \A id \in DOMAIN t.boxes : t.boxes[id] = d.boxes[id]
    <2>1. /\ DOMAIN Drop(d.boxes, u.createdBoxes) = DOMAIN d.boxes \ u.createdBoxes
          /\ \A k \in DOMAIN d.boxes \ u.createdBoxes :
                Drop(d.boxes, u.createdBoxes)[k] = d.boxes[k]
        BY DropKeys
    <2>2. t.boxes = Drop(d.boxes, u.createdBoxes)
        BY <1>1
    <2>3. DOMAIN t.boxes = DOMAIN d.boxes \ u.createdBoxes
        BY <2>1, <2>2, Zenon
    <2>4. ASSUME NEW id \in DOMAIN d.boxes \ u.createdBoxes PROVE t.boxes[id] = d.boxes[id]
        <3>1. Drop(d.boxes, u.createdBoxes)[id] = d.boxes[id]
            BY <2>1
        <3> QED BY <2>2, <3>1
    <2> QED BY <2>3, <2>4
<1> QED BY <1>1, <1>2 DEF RowsKept, t

LEMMA UnspendKeeps ==
    ASSUME NEW d, DOMAIN d = TableKeys, NEW u,
           \A id \in DOMAIN d.boxes : {"tree", "tokens", "spent"} \subseteq DOMAIN d.boxes[id]
    PROVE  LET t == UnspendBoxes(d, u)
           IN  /\ Rest(d, t) /\ RowsKept(d, t) /\ DOMAIN t.boxes = DOMAIN d.boxes
               /\ t.txs = d.txs /\ t.treeBalance = d.treeBalance /\ t.tokens = d.tokens
               /\ t.registerIdx = d.registerIdx
<1> DEFINE t == UnspendBoxes(d, u)
           ids == u.spentBoxes \cap DOMAIN d.boxes
<1>1. /\ Rest(d, t)
      /\ t.txs = d.txs /\ t.treeBalance = d.treeBalance /\ t.tokens = d.tokens
      /\ t.registerIdx = d.registerIdx
    BY DEF UnspendBoxes, Rest, TableKeys
<1>2. t.boxes = [id \in DOMAIN d.boxes |->
                    IF id \in ids THEN [d.boxes[id] EXCEPT !.spent = Unspent] ELSE d.boxes[id]]
    BY DEF UnspendBoxes, TableKeys
<1> HIDE DEF t, ids
<1>3. DOMAIN t.boxes = DOMAIN d.boxes
    BY <1>2
<1>4. ASSUME NEW id \in DOMAIN d.boxes
      PROVE  /\ DOMAIN t.boxes[id] = DOMAIN d.boxes[id]
             /\ t.boxes[id].tree = d.boxes[id].tree /\ t.boxes[id].tokens = d.boxes[id].tokens
    <2>1. {"tree", "tokens", "spent"} \subseteq DOMAIN d.boxes[id]
        OBVIOUS
    <2>2. CASE id \in ids
        <3>1. t.boxes[id] = [d.boxes[id] EXCEPT !.spent = Unspent]
            BY <1>2, <2>2
        <3> QED BY <2>1, <3>1
    <2>3. CASE id \notin ids
        BY <1>2, <2>3
    <2> QED BY <2>2, <2>3
<1> QED BY <1>1, <1>3, <1>4 DEF RowsKept, t

LEMMA UndoBlockShrinks ==
    ASSUME NEW d, DOMAIN d = TableKeys, NEW n,
           \A id \in DOMAIN d.boxes : {"tree", "tokens", "spent"} \subseteq DOMAIN d.boxes[id]
    PROVE  Shrunk(d, UndoBlock(d, n), n, d.undo[n])
<1> DEFINE u  == d.undo[n]
           a1 == UncreateBoxes(d, u)
           a2 == UnspendBoxes(a1, u)
           a3 == RemoveTxs(a2, u)
           a4 == RestoreBalances(a3, u)
           a5 == [a4 EXCEPT !.registerIdx = @ \ u.registerKeys]
           a6 == RestoreHolders(a5, u)
           a7 == RestoreTokens(a6, u)
           a8 == RestoreTemplates(a7, u)
           a9 == [a8 EXCEPT !.ergoTrees = @ \ u.newTrees]
           t  == RemoveHeader(a9, u, n)
<1>0. UndoBlock(d, n) = t
    BY Zenon DEF UndoBlock
<1> HIDE DEF u
<1>1. /\ Rest(d, a1) /\ RowsKept(d, a1)
      /\ DOMAIN a1.boxes = DOMAIN d.boxes \ u.createdBoxes
      /\ a1.txs = d.txs /\ a1.treeBalance = d.treeBalance /\ a1.tokens = d.tokens
      /\ a1.registerIdx = d.registerIdx
    BY UncreateKeeps
<1> HIDE DEF a1
<1>2. /\ Rest(a1, a2) /\ RowsKept(a1, a2) /\ DOMAIN a2.boxes = DOMAIN a1.boxes
      /\ a2.txs = a1.txs /\ a2.treeBalance = a1.treeBalance /\ a2.tokens = a1.tokens
      /\ a2.registerIdx = a1.registerIdx
    <2>1. /\ DOMAIN a1 = TableKeys
          /\ \A id \in DOMAIN a1.boxes : {"tree", "tokens", "spent"} \subseteq DOMAIN a1.boxes[id]
        BY <1>1 DEF Rest, RowsKept
    <2> QED BY <2>1, UnspendKeeps
<1> HIDE DEF a2
<1>3. /\ Rest(d, a2) /\ RowsKept(d, a2)
      /\ DOMAIN a2.boxes = DOMAIN d.boxes \ u.createdBoxes
      /\ a2.txs = d.txs /\ a2.treeBalance = d.treeBalance /\ a2.tokens = d.tokens
      /\ a2.registerIdx = d.registerIdx
    BY <1>1, <1>2 DEF Rest, RowsKept
<1>4. /\ Rest(a2, a3) /\ a3.boxes = a2.boxes
      /\ DOMAIN a3.txs = DOMAIN a2.txs \ u.txIds
      /\ a3.treeBalance = a2.treeBalance /\ a3.tokens = a2.tokens
      /\ a3.registerIdx = a2.registerIdx
    <2>1. /\ Rest(a2, a3) /\ a3.boxes = a2.boxes
          /\ a3.txs = Drop(a2.txs, u.txIds)
          /\ a3.treeBalance = a2.treeBalance /\ a3.tokens = a2.tokens
          /\ a3.registerIdx = a2.registerIdx
        <3> DEFINE left == Drop(a2.txs, u.txIds)
        <3>1. PICK places, members : a3 = [a2 EXCEPT !.txs = left, !.txByGidx = places,
                                                     !.treeTxs = members]
            BY Zenon DEF RemoveTxs
        <3> HIDE DEF a3, left
        <3>2. /\ Rest(a2, a3) /\ a3.boxes = a2.boxes /\ a3.txs = left
              /\ a3.treeBalance = a2.treeBalance /\ a3.tokens = a2.tokens
              /\ a3.registerIdx = a2.registerIdx
            BY <1>3, <3>1 DEF Rest, TableKeys
        <3> QED BY <3>2 DEF left
    <2> HIDE DEF a3
    <2>2. \A f, ks : DOMAIN Drop(f, ks) = DOMAIN f \ ks
        BY DropKeys, Zenon
    <2>3. DOMAIN a3.txs = DOMAIN a2.txs \ u.txIds
        BY <2>1, <2>2
    <2> QED BY <2>1, <2>3
<1> HIDE DEF a3
<1>5. /\ Rest(a3, a4) /\ a4.boxes = a3.boxes /\ a4.txs = a3.txs
      /\ DOMAIN a4.treeBalance = DOMAIN u.prevBalances \cup (DOMAIN a3.treeBalance \ u.newBalances)
      /\ a4.tokens = a3.tokens /\ a4.registerIdx = a3.registerIdx
    <2>1. /\ Rest(a3, a4) /\ a4.boxes = a3.boxes /\ a4.txs = a3.txs
          /\ a4.treeBalance = Over(u.prevBalances, Drop(a3.treeBalance, u.newBalances))
          /\ a4.tokens = a3.tokens /\ a4.registerIdx = a3.registerIdx
        <3> DEFINE over == Over(u.prevBalances, Drop(a3.treeBalance, u.newBalances))
        <3>1. PICK rich : a4 = [a3 EXCEPT !.rich = rich, !.treeBalance = over]
            BY Zenon DEF RestoreBalances
        <3> HIDE DEF a4, over
        <3>2. /\ Rest(a3, a4) /\ a4.boxes = a3.boxes /\ a4.txs = a3.txs
              /\ a4.treeBalance = over
              /\ a4.tokens = a3.tokens /\ a4.registerIdx = a3.registerIdx
            BY <1>4, <3>1 DEF Rest, TableKeys
        <3> QED BY <3>2 DEF over
    <2> HIDE DEF a4
    <2>2. DOMAIN Drop(a3.treeBalance, u.newBalances) = DOMAIN a3.treeBalance \ u.newBalances
        BY DropKeys
    <2>3. \A f, g : DOMAIN Over(f, g) = DOMAIN f \cup DOMAIN g
        BY OverDomain, Zenon
    <2>4. DOMAIN a4.treeBalance = DOMAIN u.prevBalances \cup (DOMAIN a3.treeBalance \ u.newBalances)
        BY <2>1, <2>2, <2>3, Zenon
    <2> QED BY <2>1, <2>4
<1> HIDE DEF a4
<1>6. /\ Rest(a4, a5) /\ a5.boxes = a4.boxes /\ a5.txs = a4.txs
      /\ a5.treeBalance = a4.treeBalance /\ a5.tokens = a4.tokens
      /\ a5.registerIdx \subseteq a4.registerIdx
    BY <1>5 DEF Rest, TableKeys
<1> HIDE DEF a5
<1>7. /\ Rest(a5, a6) /\ a6.boxes = a5.boxes /\ a6.txs = a5.txs
      /\ a6.treeBalance = a5.treeBalance /\ a6.tokens = a5.tokens
      /\ a6.registerIdx = a5.registerIdx
    BY <1>6 DEF RestoreHolders, Rest, TableKeys
<1> HIDE DEF a6
<1>8. /\ Rest(a6, a7) /\ a7.boxes = a6.boxes /\ a7.txs = a6.txs
      /\ a7.treeBalance = a6.treeBalance /\ a7.registerIdx = a6.registerIdx
      /\ DOMAIN a7.tokens = DOMAIN u.prevTokens \cup (DOMAIN a6.tokens \ u.newTokens)
    <2>1. /\ Rest(a6, a7) /\ a7.boxes = a6.boxes /\ a7.txs = a6.txs
          /\ a7.treeBalance = a6.treeBalance /\ a7.registerIdx = a6.registerIdx
          /\ a7.tokens = Over(u.prevTokens, Drop(a6.tokens, u.newTokens))
        <3> DEFINE over == Over(u.prevTokens, Drop(a6.tokens, u.newTokens))
        <3>1. PICK ranks, places : a7 = [a6 EXCEPT !.tokensByHolders = ranks,
                                                   !.tokensByGidx = places, !.tokens = over]
            BY Zenon DEF RestoreTokens
        <3> HIDE DEF a7, over
        <3>2. /\ Rest(a6, a7) /\ a7.boxes = a6.boxes /\ a7.txs = a6.txs
              /\ a7.treeBalance = a6.treeBalance /\ a7.registerIdx = a6.registerIdx
              /\ a7.tokens = over
            BY <1>7, <3>1 DEF Rest, TableKeys
        <3> QED BY <3>2 DEF over
    <2> HIDE DEF a7
    <2>2. DOMAIN Drop(a6.tokens, u.newTokens) = DOMAIN a6.tokens \ u.newTokens
        BY DropKeys
    <2>3. \A f, g : DOMAIN Over(f, g) = DOMAIN f \cup DOMAIN g
        BY OverDomain, Zenon
    <2>4. DOMAIN a7.tokens = DOMAIN u.prevTokens \cup (DOMAIN a6.tokens \ u.newTokens)
        BY <2>1, <2>2, <2>3, Zenon
    <2> QED BY <2>1, <2>4
<1> HIDE DEF a7
<1>9. /\ Rest(a7, a8) /\ a8.boxes = a7.boxes /\ a8.txs = a7.txs
      /\ a8.treeBalance = a7.treeBalance /\ a8.tokens = a7.tokens
      /\ a8.registerIdx = a7.registerIdx
    BY <1>8 DEF RestoreTemplates, Rest, TableKeys
<1> HIDE DEF a8
<1>10. /\ DOMAIN a9 = TableKeys /\ a9.headers = a8.headers /\ a9.undo = a8.undo
       /\ a9.genesisSeeded = a8.genesisSeeded /\ a9.ergoTrees = a8.ergoTrees \ u.newTrees
       /\ a9.boxes = a8.boxes /\ a9.txs = a8.txs
       /\ a9.treeBalance = a8.treeBalance /\ a9.tokens = a8.tokens
       /\ a9.registerIdx = a8.registerIdx
    BY <1>9 DEF Rest, TableKeys
<1> HIDE DEF a9
<1>11. /\ DOMAIN t = TableKeys /\ t.headers = Drop(a9.headers, {n}) /\ t.undo = Drop(a9.undo, {n})
       /\ t.genesisSeeded = a9.genesisSeeded /\ t.ergoTrees = a9.ergoTrees
       /\ t.boxes = a9.boxes /\ t.txs = a9.txs
       /\ t.treeBalance = a9.treeBalance /\ t.tokens = a9.tokens
       /\ t.registerIdx = a9.registerIdx
    BY <1>10 DEF RemoveHeader, TableKeys
<1> HIDE DEF t
<1>12. /\ DOMAIN t = TableKeys
       /\ t.headers = Drop(d.headers, {n}) /\ t.undo = Drop(d.undo, {n})
       /\ t.genesisSeeded = d.genesisSeeded
       /\ t.ergoTrees = d.ergoTrees \ u.newTrees
       /\ t.boxes = a2.boxes
    BY <1>3, <1>4, <1>5, <1>6, <1>7, <1>8, <1>9, <1>10, <1>11 DEF Rest
<1>13. /\ DOMAIN t.txs = DOMAIN d.txs \ u.txIds
       /\ DOMAIN t.treeBalance = DOMAIN u.prevBalances \cup (DOMAIN d.treeBalance \ u.newBalances)
       /\ DOMAIN t.tokens = DOMAIN u.prevTokens \cup (DOMAIN d.tokens \ u.newTokens)
       /\ t.registerIdx \subseteq d.registerIdx
    BY <1>3, <1>4, <1>5, <1>6, <1>7, <1>8, <1>9, <1>10, <1>11
<1>14. Shrunk(d, t, n, u)
    BY <1>3, <1>12, <1>13 DEF Shrunk, RowsKept
<1> QED BY <1>0, <1>14 DEF u

LEMMA ShrunkHeaders ==
    ASSUME NEW d, HeadersSound(d), NEW n, n = IndexedHeight(d), n > 0,
           NEW t, NEW u, Shrunk(d, t, n, u)
    PROVE  /\ HeadersSound(t)
           /\ IndexedHeight(t) = n - 1
           /\ \A j \in 1..(n - 1) : t.headers[j] = d.headers[j]
           /\ Chain(t) = SubSeq(Chain(d), 1, n - 1)
<1> DEFINE s == Chain(d)
           r == SubSeq(s, 1, n - 1)
<1>1. /\ n \in Nat /\ DOMAIN d.headers = 1..n /\ Len(s) = n
      /\ s = [h \in 1..n |-> d.headers[h].id]
    BY ChainOf
<1>2. s \in Seq(Block) /\ Abs!Linked(s) /\ d.genesisSeeded \in BOOLEAN /\ d.genesisSeeded
    BY DEF HeadersSound
<1> HIDE DEF s
<1>3. t.headers = Drop(d.headers, {n}) /\ t.genesisSeeded = d.genesisSeeded
    BY DEF Shrunk
<1>4. \A f, ks : /\ DOMAIN Drop(f, ks) = DOMAIN f \ ks
                 /\ \A k \in DOMAIN f \ ks : Drop(f, ks)[k] = f[k]
    BY DropKeys, Zenon
<1>5. DOMAIN d.headers \ {n} = 1..(n - 1) /\ n - 1 \in Nat
    BY <1>1
<1>6. DOMAIN t.headers = 1..(n - 1)
    <2>1. DOMAIN Drop(d.headers, {n}) = DOMAIN d.headers \ {n}
        BY <1>4
    <2> QED BY <1>3, <1>5, <2>1
<1>7. ASSUME NEW j \in 1..(n - 1) PROVE t.headers[j] = d.headers[j]
    <2>1. Drop(d.headers, {n})[j] = d.headers[j]
        BY <1>4, <1>5
    <2> QED BY <1>3, <2>1
<1>8. IndexedHeight(t) = n - 1
    <2>1. Cardinality(1..(n - 1)) = n - 1
        BY <1>5, FS_Interval
    <2> QED BY <1>6, <2>1 DEF IndexedHeight
<1>9. t.headers = [h \in 1..(n - 1) |-> t.headers[h]]
    <2>1. Drop(d.headers, {n}) = [h \in DOMAIN d.headers \cap (DOMAIN d.headers \ {n}) |-> d.headers[h]]
        BY DEF Drop, Restrict
    <2>2. DOMAIN d.headers \cap (DOMAIN d.headers \ {n}) = 1..(n - 1)
        BY <1>5
    <2>3. t.headers = [h \in 1..(n - 1) |-> d.headers[h]]
        BY <1>3, <2>1, <2>2
    <2> QED BY <2>3
<1>10. Chain(t) = r
    <2>1. Chain(t) = [h \in 1..(n - 1) |-> t.headers[h].id]
        BY <1>8 DEF Chain, IndexedHeight
    <2>2. r = [h \in 1..(n - 1) |-> s[h]]
        BY <1>1, <1>2, <1>5
    <2>3. \A h \in 1..(n - 1) : h \in 1..n
        BY <1>1
    <2>4. \A h \in 1..(n - 1) : s[h] = t.headers[h].id
        BY <1>1, <1>7, <2>3
    <2> QED BY <2>1, <2>2, <2>4
<1>11. r \in Seq(Block) /\ Len(r) = n - 1 /\ \A h \in 1..(n - 1) : r[h] = s[h]
    <2>1. r = [h \in 1..(n - 1) |-> s[h]]
        BY <1>1, <1>2, <1>5
    <2>2. \A h \in 1..(n - 1) : s[h] \in Block
        BY <1>1, <1>2
    <2> HIDE DEF r
    <2> QED BY <1>5, <2>1, <2>2
<1> HIDE DEF r
<1>12. Abs!Linked(r)
    <2>1. ASSUME NEW h \in 1..(n - 1) PROVE Height[r[h]] = h /\ (h > 1 => Parent[r[h]] = r[h - 1])
        <3>1. h \in 1..n /\ (h > 1 => h - 1 \in 1..(n - 1))
            BY <1>1
        <3>2. Height[s[h]] = h /\ (h > 1 => Parent[s[h]] = s[h - 1])
            BY <1>1, <1>2, <3>1 DEF Abs!Linked, Abs!LinkedAt
        <3> QED BY <1>11, <3>1, <3>2
    <2> QED BY <1>11, <2>1 DEF Abs!Linked, Abs!LinkedAt
<1>13. HeadersSound(t)
    BY <1>2, <1>3, <1>5, <1>8, <1>9, <1>10, <1>11, <1>12 DEF HeadersSound
<1> QED BY <1>7, <1>8, <1>10, <1>13 DEF r, s

LEMMA ShrunkSound ==
    ASSUME NEW d, TablesInv(d), NEW n, n = IndexedHeight(d), n \in DOMAIN d.undo,
           NEW t, Shrunk(d, t, n, d.undo[n])
    PROVE  TablesInv(t)
<1> DEFINE u == d.undo[n]
<1>1. n \in Nat /\ n > 0 /\ DOMAIN d.headers = 1..n
    <2>1. n \in Nat /\ DOMAIN d.headers = 1..n
        BY ChainOf DEF TablesInv
    <2> QED BY <2>1 DEF TablesInv, UndoSound
<1>2. /\ HeadersSound(t) /\ IndexedHeight(t) = n - 1
      /\ \A j \in 1..(n - 1) : t.headers[j] = d.headers[j]
    BY <1>1, ShrunkHeaders DEF TablesInv
<1>3. /\ DOMAIN t = TableKeys
      /\ t.undo = Drop(d.undo, {n}) /\ t.genesisSeeded = d.genesisSeeded
      /\ DOMAIN t.boxes = DOMAIN d.boxes \ u.createdBoxes
      /\ \A id \in DOMAIN t.boxes : /\ DOMAIN t.boxes[id] = DOMAIN d.boxes[id]
                                    /\ t.boxes[id].tree = d.boxes[id].tree
                                    /\ t.boxes[id].tokens = d.boxes[id].tokens
      /\ t.ergoTrees = d.ergoTrees \ u.newTrees
      /\ DOMAIN t.txs = DOMAIN d.txs \ u.txIds
      /\ DOMAIN t.treeBalance = DOMAIN u.prevBalances \cup (DOMAIN d.treeBalance \ u.newBalances)
      /\ DOMAIN t.tokens = DOMAIN u.prevTokens \cup (DOMAIN d.tokens \ u.newTokens)
      /\ t.registerIdx \subseteq d.registerIdx
    BY DEF Shrunk
<1> HIDE DEF u
<1>4. \A h \in 0..(n - 1) : MadeBy(t, h) = MadeBy(d, h) /\ TxsBy(t, h) = TxsBy(d, h)
    <2>1. \A h \in 0..(n - 1) : \A j \in 1..h : t.headers[j] = d.headers[j]
        BY <1>1, <1>2
    <2> QED BY <1>3, <2>1 DEF MadeBy, TxsBy
<1>5. UndoRowOK(d, n, u)
    BY DEF TablesInv, UndoSound, u
<1>6. /\ DOMAIN d.boxes = MadeBy(d, n - 1) \cup u.createdBoxes
      /\ DOMAIN d.txs = TxsBy(d, n - 1) \cup u.txIds
    <2>1. 1..n = 1..(n - 1) \cup {n}
        BY <1>1
    <2>2. /\ MadeBy(d, n) = MadeBy(d, n - 1) \cup OutIds(d.headers[n].id)
          /\ TxsBy(d, n) = TxsBy(d, n - 1) \cup TxIds(d.headers[n].id)
        BY <2>1 DEF MadeBy, TxsBy
    <2> QED BY <1>5, <2>2 DEF TablesInv, BoxesSound, UndoRowOK
<1>7. /\ u.createdBoxes \cap MadeBy(d, n - 1) = {}
      /\ u.txIds \cap TxsBy(d, n - 1) = {}
    <2>1. n - 1 \in Nat /\ n - 1 < n /\ n \in 1..n
        BY <1>1
    <2>2. /\ OutIds(d.headers[n].id) \cap MadeBy(d, n - 1) = {}
          /\ TxIds(d.headers[n].id) \cap TxsBy(d, n - 1) = {}
        BY <2>1, ChainApart DEF TablesInv
    <2> QED BY <1>5, <2>2 DEF UndoRowOK
<1>8. DOMAIN t.boxes = MadeBy(d, n - 1) /\ DOMAIN t.txs = TxsBy(d, n - 1) /\ n - 1 \in 0..(n - 1)
    BY <1>1, <1>3, <1>6, <1>7
<1>9. ASSUME NEW id \in DOMAIN t.boxes PROVE RowOK(t.boxes[id], t.ergoTrees)
    <2>1. id \in DOMAIN d.boxes /\ RowOK(d.boxes[id], d.ergoTrees)
        BY <1>3 DEF TablesInv, BoxesSound
    <2>2. d.boxes[id].tree \notin u.newTrees
        BY <1>5, <1>8 DEF UndoRowOK
    <2> QED BY <1>3, <2>1, <2>2 DEF RowOK
<1>10. BoxesSound(t)
    BY <1>2, <1>4, <1>8, <1>9 DEF BoxesSound
<1>11. DOMAIN t.undo = DOMAIN d.undo \ {n} /\ \A h \in DOMAIN t.undo : t.undo[h] = d.undo[h]
    <2>1. \A f, ks : /\ DOMAIN Drop(f, ks) = DOMAIN f \ ks
                     /\ \A k \in DOMAIN f \ ks : Drop(f, ks)[k] = f[k]
        BY DropKeys, Zenon
    <2>2. DOMAIN Drop(d.undo, {n}) = DOMAIN d.undo \ {n}
        BY <2>1
    <2>3. \A h \in DOMAIN d.undo \ {n} : Drop(d.undo, {n})[h] = d.undo[h]
        BY <2>1
    <2> QED BY <1>3, <2>2, <2>3
<1>12. /\ DOMAIN d.undo \subseteq 1..n
       /\ \A h \in DOMAIN d.undo : UndoRowOK(d, h, d.undo[h])
       /\ \A h, j \in DOMAIN d.undo :
            h < j => /\ Balances(d.undo[h]) \cap d.undo[j].newBalances = {}
                     /\ TokenIds(d.undo[h]) \cap d.undo[j].newTokens = {}
    BY <1>1 DEF TablesInv, UndoSound
<1>13. DOMAIN t.undo \subseteq 1..(n - 1)
    BY <1>1, <1>11, <1>12
<1>14. ASSUME NEW h \in DOMAIN t.undo PROVE UndoRowOK(t, h, t.undo[h])
    <2>1. /\ h \in 1..(n - 1) /\ h \in 0..(n - 1) /\ h - 1 \in 0..(n - 1)
          /\ h \in DOMAIN d.undo /\ h < n
        BY <1>1, <1>11, <1>13
    <2>2. /\ MadeBy(t, h) = MadeBy(d, h) /\ MadeBy(t, h - 1) = MadeBy(d, h - 1)
          /\ t.headers[h] = d.headers[h] /\ t.undo[h] = d.undo[h]
        BY <1>2, <1>4, <1>11, <2>1
    <2>3. UndoRowOK(d, h, d.undo[h])
        BY <1>12, <2>1
    <2>4. /\ Balances(d.undo[h]) \cap u.newBalances = {}
          /\ TokenIds(d.undo[h]) \cap u.newTokens = {}
        BY <1>12, <2>1 DEF u
    <2>5. /\ Balances(d.undo[h]) \subseteq DOMAIN t.treeBalance
          /\ TokenIds(d.undo[h]) \subseteq DOMAIN t.tokens
        BY <1>3, <2>3, <2>4 DEF UndoRowOK
    <2>6. MadeBy(d, h - 1) \subseteq MadeBy(d, n - 1)
        <3>1. \A j \in 1..(h - 1) : j \in 1..(n - 1)
            BY <1>1, <2>1
        <3> QED BY <3>1 DEF MadeBy
    <2>7. \A id \in MadeBy(d, h - 1) : t.boxes[id].tree = d.boxes[id].tree
        BY <1>3, <1>8, <2>6
    <2> QED BY <2>2, <2>3, <2>5, <2>7 DEF UndoRowOK
<1>15. UndoSound(t)
    <2>1. DOMAIN t.headers = 1..(n - 1)
        BY <1>2, ChainOf
    <2> QED BY <1>11, <1>12, <1>13, <1>14, <2>1 DEF UndoSound
<1>16. IsFiniteSet(t.registerIdx)
    BY <1>3, FS_Subset DEF TablesInv
<1> QED BY <1>2, <1>3, <1>10, <1>15, <1>16 DEF TablesInv

(* The tip of sound tables whose undo row is there is undone, and nothing  *)
(* the row names is missing.                                               *)
LEMMA UndoTip ==
    ASSUME NEW d, TablesInv(d), NEW n, n = IndexedHeight(d), n \in DOMAIN d.undo
    PROVE  LET t == UndoBlock(d, n)
           IN  /\ ~ UndoCorrupt(d, d.undo[n])
               /\ TablesInv(t) /\ IndexedHeight(t) = n - 1
               /\ Chain(t) = SubSeq(Chain(d), 1, n - 1)
               /\ DOMAIN t.undo = DOMAIN d.undo \ {n}
               /\ t.genesisSeeded = d.genesisSeeded
               /\ t.registerIdx \subseteq d.registerIdx
<1> DEFINE t == UndoBlock(d, n)
           u == d.undo[n]
<1>1. \A id \in DOMAIN d.boxes : RowOK(d.boxes[id], d.ergoTrees)
    BY DEF TablesInv, BoxesSound
<1>2. Shrunk(d, t, n, u)
    <2>1. \A id \in DOMAIN d.boxes : {"tree", "tokens", "spent"} \subseteq DOMAIN d.boxes[id]
        BY <1>1 DEF RowOK
    <2> QED BY <2>1, UndoBlockShrinks DEF TablesInv
<1> HIDE DEF t
<1>3. n > 0 /\ n \in Nat
    <2>1. n \in Nat /\ DOMAIN d.headers = 1..n
        BY ChainOf DEF TablesInv
    <2> QED BY <2>1 DEF TablesInv, UndoSound
<1>4. IndexedHeight(t) = n - 1 /\ Chain(t) = SubSeq(Chain(d), 1, n - 1)
    BY <1>2, <1>3, ShrunkHeaders DEF TablesInv
<1>5. TablesInv(t)
    BY <1>2, ShrunkSound
<1>6. UndoRowOK(d, n, u)
    BY DEF TablesInv, UndoSound
<1>7. ~ UndoCorrupt(d, u)
    <2>1. DOMAIN d.boxes = MadeBy(d, n) /\ DOMAIN d.txs = TxsBy(d, n)
        BY DEF TablesInv, BoxesSound
    <2>2. n \in 1..n
        BY <1>3
    <2>3. OutIds(d.headers[n].id) \subseteq MadeBy(d, n) /\ TxIds(d.headers[n].id) \subseteq TxsBy(d, n)
        BY <2>2 DEF MadeBy, TxsBy
    <2>4. /\ u.createdBoxes \subseteq DOMAIN d.boxes /\ u.spentBoxes \subseteq DOMAIN d.boxes
          /\ u.txIds \subseteq DOMAIN d.txs
          /\ Balances(u) \subseteq DOMAIN d.treeBalance /\ TokenIds(u) \subseteq DOMAIN d.tokens
        BY <1>6, <2>1, <2>3 DEF UndoRowOK
    <2>5. \A id \in u.createdBoxes \cup u.spentBoxes : d.boxes[id].tree \in d.ergoTrees
        BY <1>1, <2>4 DEF RowOK
    <2> HIDE DEF u
    <2> QED BY <2>4, <2>5 DEF UndoCorrupt, Balances, TokenIds
<1>8. /\ t.undo = Drop(d.undo, {n}) /\ t.genesisSeeded = d.genesisSeeded
      /\ t.registerIdx \subseteq d.registerIdx
    BY <1>2 DEF Shrunk
<1>9. DOMAIN t.undo = DOMAIN d.undo \ {n}
    <2>1. DOMAIN Drop(d.undo, {n}) = DOMAIN d.undo \ {n}
        BY DropKeys
    <2> QED BY <1>8, <2>1
<1> QED BY <1>4, <1>5, <1>7, <1>8, <1>9 DEF t, u

-----------------------------------------------------------------------------
(* The whole rollback. *)

(* What t is after the n highest blocks of d were undone. *)
Undone(d, t, n) ==
    LET p == IndexedHeight(d)
    IN  /\ TablesInv(t) /\ IndexedHeight(t) = p - n
        /\ Chain(t) = SubSeq(Chain(d), 1, p - n)
        /\ p - n + 1 .. p \subseteq DOMAIN d.undo
        /\ DOMAIN t.undo = DOMAIN d.undo \ (p - n + 1 .. p)
        /\ t.genesisSeeded = d.genesisSeeded
        /\ t.registerIdx \subseteq d.registerIdx

UndoneFrom(p, q, base, n, acc) ==
    \/ /\ DOMAIN acc = {"tables", "result"}
       /\ acc.result = "Ok" /\ Undone(base.tables, acc.tables, n)
    \/ acc.result = "ReindexRequired" /\ ~ (p - n + 1 .. p \subseteq DOMAIN base.tables.undo)

LOCAL Undoing == INSTANCE FoldTheory WITH
    Op <- LAMBDA p, q, acc, k : UndoNext(acc, p + 1 - k), Inv <- UndoneFrom

LEMMA PrefixOfPrefix ==
    ASSUME NEW S, NEW s \in Seq(S), NEW k \in Nat, NEW m \in Nat, m <= k, k <= Len(s)
    PROVE  SubSeq(SubSeq(s, 1, k), 1, m) = SubSeq(s, 1, m)
<1> DEFINE r == SubSeq(s, 1, k)
<1>1. Len(r) = k /\ r \in Seq(S) /\ \A i \in 1..k : r[i] = s[i]
    OBVIOUS
<1> HIDE DEF r
<1>2. /\ SubSeq(r, 1, m) = [i \in 1..m |-> r[i]]
      /\ SubSeq(s, 1, m) = [i \in 1..m |-> s[i]]
    BY <1>1
<1>3. \A i \in 1..m : r[i] = s[i]
    BY <1>1
<1> QED BY <1>2, <1>3 DEF r

LEMMA UndoNextKeeps ==
    ASSUME NEW d, TablesInv(d), NEW n \in Nat, NEW target \in Nat,
           n < IndexedHeight(d) - target,
           NEW acc, UndoneFrom(IndexedHeight(d), target, [tables |-> d, result |-> "Ok"], n, acc)
    PROVE  UndoneFrom(IndexedHeight(d), target, [tables |-> d, result |-> "Ok"], n + 1,
                      UndoNext(acc, IndexedHeight(d) + 1 - (n + 1)))
<1> DEFINE p == IndexedHeight(d)
           h == p + 1 - (n + 1)
           e == UndoNext(acc, h)
           base == [tables |-> d, result |-> "Ok"]
<1>1. /\ p \in Nat /\ Len(Chain(d)) = p /\ Chain(d) \in Seq(Block)
    BY ChainOf DEF TablesInv, HeadersSound
<1> HIDE DEF p
<1>2. /\ h = p - n /\ h \in Nat /\ h - 1 = p - (n + 1) /\ h - 1 \in Nat /\ h <= p
      /\ p - (n + 1) + 1 .. p = {h} \cup (p - n + 1 .. p)
      /\ h \notin p - n + 1 .. p
    BY <1>1 DEF p
<1> HIDE DEF h
<1>3. CASE acc.result # "Ok"
    <2>1. acc.result = "ReindexRequired" /\ ~ (p - n + 1 .. p \subseteq DOMAIN d.undo)
        BY <1>3 DEF UndoneFrom, p
    <2>2. e = acc
        BY <1>3 DEF UndoNext
    <2>3. ~ (p - (n + 1) + 1 .. p \subseteq DOMAIN d.undo)
        BY <1>2, <2>1
    <2> QED BY <2>1, <2>2, <2>3 DEF UndoneFrom, p, h
<1>4. CASE acc.result = "Ok"
    <2>1. DOMAIN acc = {"tables", "result"} /\ Undone(d, acc.tables, n)
        BY <1>4 DEF UndoneFrom
    <2> DEFINE t == acc.tables
    <2>2. /\ TablesInv(t) /\ IndexedHeight(t) = h
          /\ Chain(t) = SubSeq(Chain(d), 1, h)
          /\ p - n + 1 .. p \subseteq DOMAIN d.undo
          /\ DOMAIN t.undo = DOMAIN d.undo \ (p - n + 1 .. p)
          /\ t.genesisSeeded = d.genesisSeeded
          /\ t.registerIdx \subseteq d.registerIdx
        BY <1>2, <2>1 DEF Undone, p
    <2>3. CASE h \notin DOMAIN t.undo
        <3>1. e = [acc EXCEPT !.result = "ReindexRequired"]
            BY <1>4, <2>3 DEF UndoNext
        <3>2. e.result = "ReindexRequired"
            BY <2>1, <3>1
        <3>3. h \notin DOMAIN d.undo
            BY <1>2, <2>2, <2>3
        <3>4. ~ (p - (n + 1) + 1 .. p \subseteq DOMAIN d.undo)
            BY <1>2, <3>3
        <3> QED BY <3>2, <3>4 DEF UndoneFrom, p, h
    <2>4. CASE h \in DOMAIN t.undo
        <3> DEFINE t1 == UndoBlock(t, h)
        <3> HIDE DEF t
        <3>1. /\ ~ UndoCorrupt(t, t.undo[h])
              /\ TablesInv(t1) /\ IndexedHeight(t1) = h - 1
              /\ Chain(t1) = SubSeq(Chain(t), 1, h - 1)
              /\ DOMAIN t1.undo = DOMAIN t.undo \ {h}
              /\ t1.genesisSeeded = t.genesisSeeded
              /\ t1.registerIdx \subseteq t.registerIdx
            BY <2>2, <2>4, UndoTip
        <3>2. e = [acc EXCEPT !.tables = t1]
            BY <1>4, <2>4, <3>1 DEF UndoNext, t
        <3> HIDE DEF t1
        <3>3. DOMAIN e = {"tables", "result"} /\ e.result = "Ok" /\ e.tables = t1
            BY <1>4, <2>1, <3>2
        <3>4. Chain(t1) = SubSeq(Chain(d), 1, h - 1)
            <4>1. h - 1 <= h /\ h <= Len(Chain(d))
                BY <1>1, <1>2
            <4>2. SubSeq(SubSeq(Chain(d), 1, h), 1, h - 1) = SubSeq(Chain(d), 1, h - 1)
                BY <1>1, <1>2, <4>1, PrefixOfPrefix
            <4> QED BY <2>2, <3>1, <4>2
        <3>5. /\ p - (n + 1) + 1 .. p \subseteq DOMAIN d.undo
              /\ DOMAIN t1.undo = DOMAIN d.undo \ (p - (n + 1) + 1 .. p)
            BY <1>2, <2>2, <2>4, <3>1
        <3>6. t1.genesisSeeded = d.genesisSeeded /\ t1.registerIdx \subseteq d.registerIdx
            BY <2>2, <3>1
        <3>7. Undone(d, t1, n + 1)
            BY <1>2, <3>1, <3>4, <3>5, <3>6 DEF Undone, p
        <3> QED BY <3>3, <3>7 DEF UndoneFrom, p, h
    <2> QED BY <2>3, <2>4
<1> QED BY <1>3, <1>4 DEF p, h

(* A rollback ends at the target, or there was no undo row for a height it *)
(* had to undo; no sound table is ever found corrupt.                      *)
LEMMA RolledBackIs ==
    ASSUME NEW d, TablesInv(d), NEW target \in Nat, target < IndexedHeight(d)
    PROVE  LET p == RolledBack(d, target)
               tip == IndexedHeight(d)
           IN  \/ p.result = "Ok" /\ Undone(d, p.tables, tip - target)
               \/ p.result = "ReindexRequired" /\ ~ (target + 1 .. tip \subseteq DOMAIN d.undo)
<1> DEFINE tip == IndexedHeight(d)
           m == tip - target
           places == [k \in 1..m |-> k]
           base == [tables |-> d, result |-> "Ok"]
           out == Undoing!Left(tip, target, base, places)
<1>1. tip \in Nat /\ Len(Chain(d)) = tip /\ Chain(d) \in Seq(Block)
    BY ChainOf DEF TablesInv, HeadersSound
<1>2. RolledBack(d, target) = out
    BY DEF RolledBack, FoldLeft, MapThenFoldSet, Max, Undoing!Left, Undoing!LeftFold,
           Undoing!Greatest
<1>3. m \in Nat /\ m = tip - target /\ tip - m = target
    BY <1>1
<1> HIDE DEF m
<1>4. Len(places) = m /\ DOMAIN places = 1..m /\ \A i \in 1..m : places[i] = i
    BY <1>3, FunctionLength
<1> HIDE DEF places
<1>5. UndoneFrom(tip, target, base, 0, base)
    <2>1. tip - 0 + 1 .. tip = {} /\ tip - 0 = tip
        BY <1>1
    <2>2. SubSeq(Chain(d), 1, tip) = Chain(d)
        BY <1>1
    <2>3. Undone(d, d, 0)
        BY <2>1, <2>2 DEF Undone
    <2> QED BY <2>3 DEF UndoneFrom
<1>6. ASSUME NEW i \in 1..m, NEW acc, UndoneFrom(tip, target, base, i - 1, acc)
      PROVE  UndoneFrom(tip, target, base, i, UndoNext(acc, tip + 1 - places[i]))
    <2>1. i - 1 \in Nat /\ i - 1 < tip - target /\ (i - 1) + 1 = i /\ places[i] = i
        BY <1>3, <1>4
    <2>2. UndoneFrom(tip, target, base, (i - 1) + 1, UndoNext(acc, tip + 1 - ((i - 1) + 1)))
        BY <1>6, <2>1, UndoNextKeeps
    <2> QED BY <2>1, <2>2
<1> HIDE DEF tip, base
<1>7. UndoneFrom(tip, target, base, m, out)
    <2> HIDE DEF out
    <2>1. UndoneFrom(tip, target, base, Len(places), Undoing!Left(tip, target, base, places))
        BY <1>3, <1>4, <1>5, <1>6, LeastNatural, Undoing!LeftValue
    <2> QED BY <1>4, <2>1 DEF out
<1> HIDE DEF out
<1>8. base.tables = d
    BY DEF base
<1> QED BY <1>2, <1>3, <1>7, <1>8 DEF UndoneFrom, tip, m

-----------------------------------------------------------------------------
(* The whole batch. *)

LEMMA PrunedSound ==
    ASSUME NEW d, TablesInv(d), NEW h \in Nat
    PROVE  LET t == PruneUndo(d, h)
           IN  /\ TablesInv(t) /\ t.headers = d.headers
               /\ DOMAIN t.undo = DOMAIN d.undo \ Abs!PrunedBy({h})
               /\ t.genesisSeeded = d.genesisSeeded /\ t.registerIdx = d.registerIdx
<1> DEFINE t == PruneUndo(d, h)
<1>1. Window \in Nat
    BY BlockAssumption
<1>2. CASE ~ h > Window
    <2>1. t = d
        BY <1>2 DEF PruneUndo
    <2>2. Abs!PrunedBy({h}) = {}
        BY <1>2 DEF Abs!PrunedBy
    <2> QED BY <2>1, <2>2
<1>3. CASE h > Window
    <2> DEFINE rows == Drop(d.undo, {h - Window - 1})
    <2>1. t = [d EXCEPT !.undo = rows]
        BY <1>3 DEF PruneUndo
    <2>2. Abs!PrunedBy({h}) = {h - Window - 1}
        BY <1>3 DEF Abs!PrunedBy
    <2>3. \A f, ks : /\ DOMAIN Drop(f, ks) = DOMAIN f \ ks
                     /\ \A k \in DOMAIN f \ ks : Drop(f, ks)[k] = f[k]
        BY DropKeys, Zenon
    <2>4. /\ DOMAIN rows = DOMAIN d.undo \ {h - Window - 1}
          /\ \A k \in DOMAIN rows : rows[k] = d.undo[k]
        <3>1. DOMAIN Drop(d.undo, {h - Window - 1}) = DOMAIN d.undo \ {h - Window - 1}
            BY <2>3
        <3>2. \A k \in DOMAIN d.undo \ {h - Window - 1} :
                Drop(d.undo, {h - Window - 1})[k] = d.undo[k]
            BY <2>3
        <3> QED BY <3>1, <3>2
    <2> HIDE DEF rows, t
    <2>5. /\ DOMAIN t = TableKeys /\ t.undo = rows
          /\ t.headers = d.headers /\ t.genesisSeeded = d.genesisSeeded
          /\ t.boxes = d.boxes /\ t.ergoTrees = d.ergoTrees /\ t.txs = d.txs
          /\ t.treeBalance = d.treeBalance /\ t.tokens = d.tokens
          /\ t.registerIdx = d.registerIdx
        BY <2>1 DEF TablesInv, TableKeys
    <2>6. IndexedHeight(t) = IndexedHeight(d) /\ Chain(t) = Chain(d)
        BY <2>5 DEF IndexedHeight, Chain
    <2>7. \A n : MadeBy(t, n) = MadeBy(d, n) /\ TxsBy(t, n) = TxsBy(d, n)
        BY <2>5 DEF MadeBy, TxsBy
    <2>8. HeadersSound(t)
        BY <2>5, <2>6 DEF TablesInv, HeadersSound
    <2>9. BoxesSound(t)
        BY <2>5, <2>6, <2>7 DEF TablesInv, BoxesSound
    <2>10. \A k \in DOMAIN t.undo : UndoRowOK(d, k, d.undo[k]) /\ k \in DOMAIN d.undo /\ t.undo[k] = d.undo[k]
        BY <2>4, <2>5 DEF TablesInv, UndoSound
    <2>11. \A k \in DOMAIN t.undo : UndoRowOK(t, k, t.undo[k])
        BY <2>5, <2>7, <2>10 DEF UndoRowOK
    <2>12. UndoSound(t)
        BY <2>4, <2>5, <2>10, <2>11 DEF TablesInv, UndoSound
    <2>13. TablesInv(t)
        BY <2>5, <2>8, <2>9, <2>12 DEF TablesInv
    <2> QED BY <2>2, <2>4, <2>5, <2>13 DEF t
<1> QED BY <1>2, <1>3

LEMMA NextPrefix ==
    ASSUME NEW S, NEW s \in Seq(S), NEW r \in Seq(S), NEW n \in Nat, n < Len(r)
    PROVE  /\ Append(s \o SubSeq(r, 1, n), r[n + 1]) = s \o SubSeq(r, 1, n + 1)
           /\ \A i \in 1..(Len(s) + n) : (s \o SubSeq(r, 1, n))[i] = (s \o r)[i]
           /\ (s \o r)[Len(s) + n + 1] = r[n + 1] /\ r[n + 1] \in S
           /\ Len(s \o r) \in Nat /\ Len(s) + n + 1 \in 1..Len(s \o r)
<1> DEFINE m == Len(s)
           a == SubSeq(r, 1, n)
           b == SubSeq(r, 1, n + 1)
<1>1. /\ m \in Nat /\ Len(r) \in Nat /\ n + 1 \in 1..Len(r) /\ n + 1 \in Nat /\ n + 1 <= Len(r)
      /\ \A i \in 1..Len(r) : r[i] \in S
    OBVIOUS
<1>2. /\ a = [i \in 1..n |-> r[i]] /\ a \in Seq(S) /\ Len(a) = n
      /\ b = [i \in 1..(n + 1) |-> r[i]] /\ b \in Seq(S) /\ Len(b) = n + 1
    <2>1. /\ SubSeq(r, 1, n) = [i \in 1..n |-> r[i]] /\ SubSeq(r, 1, n) \in Seq(S)
          /\ Len(SubSeq(r, 1, n)) = n
        BY <1>1
    <2>2. /\ SubSeq(r, 1, n + 1) = [i \in 1..(n + 1) |-> r[i]] /\ SubSeq(r, 1, n + 1) \in Seq(S)
          /\ Len(SubSeq(r, 1, n + 1)) = n + 1
        BY <1>1
    <2> QED BY <2>1, <2>2
<1> HIDE DEF a, b
<1>3. /\ s \o a \in Seq(S) /\ Len(s \o a) = m + n
      /\ \A i \in 1..(m + n) : (s \o a)[i] = IF i <= m THEN s[i] ELSE a[i - m]
    BY <1>2, ConcatProperties
<1>4. /\ s \o b \in Seq(S) /\ Len(s \o b) = m + (n + 1)
      /\ \A i \in 1..(m + (n + 1)) : (s \o b)[i] = IF i <= m THEN s[i] ELSE b[i - m]
    BY <1>2, ConcatProperties
<1>5. /\ s \o r \in Seq(S) /\ Len(s \o r) = m + Len(r)
      /\ \A i \in 1..(m + Len(r)) : (s \o r)[i] = IF i <= m THEN s[i] ELSE r[i - m]
    BY ConcatProperties
<1> DEFINE c == Append(s \o a, r[n + 1])
<1>6. /\ c \in Seq(S) /\ Len(c) = m + (n + 1)
      /\ \A i \in 1..(m + n) : c[i] = (s \o a)[i]
      /\ c[m + (n + 1)] = r[n + 1]
    <2> DEFINE x == s \o a
    <2>1. x \in Seq(S) /\ Len(x) = m + n /\ m \in Nat
        BY <1>1, <1>3
    <2> HIDE DEF x, m
    <2>2. /\ Append(x, r[n + 1]) \in Seq(S) /\ Len(Append(x, r[n + 1])) = (m + n) + 1
          /\ \A i \in 1..(m + n) : Append(x, r[n + 1])[i] = x[i]
          /\ Append(x, r[n + 1])[(m + n) + 1] = r[n + 1]
        BY <1>1, <2>1
    <2>3. (m + n) + 1 = m + (n + 1)
        BY <1>1, <2>1
    <2> QED BY <2>2, <2>3 DEF x
<1> HIDE DEF c, m
<1>7. c = s \o b
    <2>1. ASSUME NEW i \in 1..(m + (n + 1)) PROVE c[i] = (s \o b)[i]
        <3>1. CASE i = m + (n + 1)
            <4>1. ~ i <= m /\ i - m = n + 1 /\ n + 1 \in 1..(n + 1)
                BY <1>1, <3>1
            <4> QED BY <1>2, <1>4, <1>6, <3>1, <4>1
        <3>2. CASE i # m + (n + 1)
            <4>1. i \in 1..(m + n) /\ (~ i <= m => i - m \in 1..n /\ i - m \in 1..(n + 1))
                BY <1>1, <3>2
            <4> QED BY <1>2, <1>3, <1>4, <1>6, <4>1
        <3> QED BY <3>1, <3>2
    <2> QED BY <1>4, <1>6, <2>1, SeqEqual
<1>8. ASSUME NEW i \in 1..(m + n) PROVE (s \o a)[i] = (s \o r)[i]
    <2>1. i \in 1..(m + Len(r)) /\ (~ i <= m => i - m \in 1..n)
        BY <1>1
    <2> QED BY <1>2, <1>3, <1>5, <2>1
<1>9. /\ (s \o r)[m + n + 1] = r[n + 1]
      /\ Len(s \o r) \in Nat /\ m + n + 1 \in 1..Len(s \o r)
    <2>1. /\ m + n + 1 \in 1..(m + Len(r)) /\ ~ m + n + 1 <= m /\ (m + n + 1) - m = n + 1
          /\ m + Len(r) \in Nat
        BY <1>1
    <2> QED BY <1>5, <2>1
<1>10. r[n + 1] \in S
    BY <1>1
<1> QED BY <1>7, <1>8, <1>9, <1>10 DEF a, b, c, m

LEMMA PruningApart ==
    ASSUME NEW D, NEW A, NEW x, NEW P, NEW Q, x \notin P
    PROVE  (((D \cup A) \ P) \cup {x}) \ Q = (D \cup (A \cup {x})) \ (P \cup Q)
OBVIOUS

(* The undo rows after one more height, and after n more.                  *)
WithRow(D, h) == (D \cup {h}) \ Abs!PrunedBy({h})
WithRows(D, tip, n) == (D \cup (tip + 1 .. tip + n)) \ Abs!PrunedBy(tip + 1 .. tip + n)

LEMMA PrunedStep ==
    ASSUME NEW tip \in Nat, NEW n \in Nat, NEW D
    PROVE  WithRow(WithRows(D, tip, n), tip + n + 1) = WithRows(D, tip, n + 1)
<1>1. Window \in Nat
    BY BlockAssumption
<1>2. tip + 1 .. tip + (n + 1) = (tip + 1 .. tip + n) \cup {tip + n + 1}
    OBVIOUS
<1>3. \A A, B : Abs!PrunedBy(A \cup B) = Abs!PrunedBy(A) \cup Abs!PrunedBy(B)
    BY DEF Abs!PrunedBy
<1>4. tip + n + 1 \notin Abs!PrunedBy(tip + 1 .. tip + n)
    BY <1>1 DEF Abs!PrunedBy
<1> DEFINE A == tip + 1 .. tip + n
           x == tip + n + 1
<1>5. Abs!PrunedBy(A \cup {x}) = Abs!PrunedBy(A) \cup Abs!PrunedBy({x})
    BY <1>3
<1>6. tip + 1 .. tip + (n + 1) = A \cup {x} /\ x \notin Abs!PrunedBy(A)
    BY <1>2, <1>4
<1> HIDE DEF A, x
<1>7. (((D \cup A) \ Abs!PrunedBy(A)) \cup {x}) \ Abs!PrunedBy({x})
        = (D \cup (A \cup {x})) \ (Abs!PrunedBy(A) \cup Abs!PrunedBy({x}))
    BY <1>6, PruningApart, Zenon
<1> QED BY <1>5, <1>6, <1>7, Zenon DEF A, x, WithRow, WithRows

(* What t is after the first n blocks of the batch were indexed over d,    *)
(* with at most k register entries.                                        *)
Gone(d, t, batch, n, k) ==
    LET tip == IndexedHeight(d)
        new == tip + 1 .. tip + n
    IN  /\ TablesInv(t) /\ IndexedHeight(t) = tip + n
        /\ Chain(t) = Chain(d) \o SubSeq(batch, 1, n)
        /\ DOMAIN t.undo = (DOMAIN d.undo \cup new) \ Abs!PrunedBy(new)
        /\ t.genesisSeeded = d.genesisSeeded
        /\ k \in Nat /\ Cardinality(t.registerIdx) <= Cardinality(d.registerIdx) + k

AppliedFrom(p, q, base, n, acc) ==
    \/ /\ DOMAIN acc = {"tables", "result"} /\ acc.result = "Ok"
       /\ Gone(base.tables, acc.tables, p, n, q[n])
    \/ acc.result = "Corrupt"
    \/ acc.result = "ParentMismatch" /\ ~ Abs!Linked(Chain(base.tables) \o p)

LOCAL Applying == INSTANCE FoldTheory WITH
    Op <- LAMBDA p, q, acc, b : ApplyNext(acc, b), Inv <- AppliedFrom

LEMMA ApplyNextKeeps ==
    ASSUME NEW d, TablesInv(d), NEW batch \in Seq(Block), NEW r,
           NEW n \in Nat, n < Len(batch), r[n + 1] = r[n] + RegistersOfBlock(batch[n + 1]),
           NEW acc, AppliedFrom(batch, r, [tables |-> d, result |-> "Ok"], n, acc)
    PROVE  AppliedFrom(batch, r, [tables |-> d, result |-> "Ok"], n + 1,
                       ApplyNext(acc, batch[n + 1]))
<1> DEFINE tip == IndexedHeight(d)
           s == Chain(d)
           b == batch[n + 1]
           e == ApplyNext(acc, b)
           t == acc.tables
<1>1. tip \in Nat /\ Len(s) = tip /\ s \in Seq(Block)
    BY ChainOf DEF TablesInv, HeadersSound
<1> HIDE DEF tip, s
<1>2. /\ Append(s \o SubSeq(batch, 1, n), b) = s \o SubSeq(batch, 1, n + 1)
      /\ \A i \in 1..(tip + n) : (s \o SubSeq(batch, 1, n))[i] = (s \o batch)[i]
      /\ (s \o batch)[tip + n + 1] = b /\ b \in Block
      /\ Len(s \o batch) \in Nat /\ tip + n + 1 \in 1..Len(s \o batch)
    <2>1. s \in Seq(Block) /\ Len(s) = tip
        BY <1>1
    <2>2. /\ Append(s \o SubSeq(batch, 1, n), batch[n + 1]) = s \o SubSeq(batch, 1, n + 1)
          /\ \A i \in 1..(Len(s) + n) : (s \o SubSeq(batch, 1, n))[i] = (s \o batch)[i]
          /\ (s \o batch)[Len(s) + n + 1] = batch[n + 1] /\ batch[n + 1] \in Block
          /\ Len(s \o batch) \in Nat /\ Len(s) + n + 1 \in 1..Len(s \o batch)
        BY <2>1, NextPrefix, Zenon
    <2> HIDE DEF b
    <2>3. b = batch[n + 1]
        BY DEF b
    <2> QED BY <2>1, <2>2, <2>3, Zenon
<1> HIDE DEF b
<1>3. CASE acc.result # "Ok"
    <2>1. e = acc
        BY <1>3 DEF ApplyNext
    <2> HIDE DEF e
    <2>2. \/ acc.result = "Corrupt"
          \/ acc.result = "ParentMismatch" /\ ~ Abs!Linked(s \o batch)
        BY <1>3 DEF AppliedFrom, s
    <2> QED BY <2>1, <2>2 DEF AppliedFrom, s, e, b
<1>4. CASE acc.result = "Ok"
    <2>1. DOMAIN acc = {"tables", "result"} /\ Gone(d, t, batch, n, r[n])
        BY <1>4 DEF AppliedFrom
    <2>2. /\ TablesInv(t) /\ IndexedHeight(t) = tip + n
          /\ Chain(t) = s \o SubSeq(batch, 1, n)
          /\ DOMAIN t.undo = (DOMAIN d.undo \cup (tip + 1 .. tip + n)) \ Abs!PrunedBy(tip + 1 .. tip + n)
          /\ t.genesisSeeded = d.genesisSeeded
          /\ r[n] \in Nat /\ Cardinality(t.registerIdx) <= Cardinality(d.registerIdx) + r[n]
        BY <2>1 DEF Gone, tip, s
    <2> HIDE DEF t
    <2>3. CASE ParentMismatch(t, b)
        <3>1. e = [acc EXCEPT !.result = "ParentMismatch"]
            BY <1>4, <2>3 DEF ApplyNext, t
        <3>2. e.result = "ParentMismatch"
            BY <2>1, <3>1
        <3> HIDE DEF e
        <3>3. ASSUME Abs!Linked(s \o batch) PROVE FALSE
            <4> DEFINE k == tip + n
                       all == s \o batch
            <4>1. k \in Nat /\ k + 1 \in 1..Len(all) /\ (k > 0 => k \in 1..k /\ k + 1 > 1 /\ (k + 1) - 1 = k)
                BY <1>1, <1>2
            <4>2. all[k + 1] = b
                BY <1>2
            <4>3. k > 0 => t.headers[k].id = all[k]
                <5>1. k > 0 => Chain(t)[k] = t.headers[k].id
                    <6>1. HeadersSound(t)
                        BY <2>2 DEF TablesInv
                    <6>2. Chain(t) = [h \in 1..IndexedHeight(t) |-> t.headers[h].id]
                        BY <6>1, ChainOf
                    <6>3. IndexedHeight(t) = k
                        BY <2>2
                    <6> QED BY <4>1, <6>2, <6>3
                <5>2. k > 0 => (s \o SubSeq(batch, 1, n))[k] = all[k]
                    BY <1>2, <4>1
                <5> QED BY <2>2, <5>1, <5>2
            <4> HIDE DEF all, k
            <4>4. Height[all[k + 1]] = k + 1 /\ (k + 1 > 1 => Parent[all[k + 1]] = all[(k + 1) - 1])
                BY <3>3, <4>1 DEF Abs!Linked, Abs!LinkedAt, all
            <4>5. Height[b] = k + 1 /\ (k > 0 => Parent[b] = t.headers[k].id)
                BY <4>1, <4>2, <4>3, <4>4
            <4>6. IndexedHeight(t) = k
                BY <2>2 DEF k
            <4> QED BY <2>3, <4>5, <4>6 DEF ParentMismatch
        <3> QED BY <3>2, <3>3 DEF AppliedFrom, s, e, b
    <2>4. CASE ~ ParentMismatch(t, b)
        <3> DEFINE c == ApplyBlock(t, b)
                   k == RegistersOfBlock(b)
        <3>1. e = Advance(acc, c)
            BY <1>4, <2>4 DEF ApplyNext, t
        <3> HIDE DEF e
        <3>2. CASE c.corrupt
            <4> HIDE DEF c
            <4>1. e = [acc EXCEPT !.result = "Corrupt"]
                BY <3>1, <3>2 DEF Advance
            <4>2. e.result = "Corrupt"
                BY <2>1, <4>1
            <4> QED BY <4>2 DEF AppliedFrom, e, b
        <3>3. CASE ~ c.corrupt
            <4>1. c.h = tip + n + 1 /\ t.genesisSeeded /\ Extended(t, c.d, b, k)
                <5>1. TablesInv(t) /\ b \in Block /\ ~ ParentMismatch(t, b)
                    BY <1>2, <2>2, <2>4
                <5>2. ~ ApplyBlock(t, b).corrupt
                    BY <3>3
                <5>3. /\ c.h = IndexedHeight(t) + 1 /\ t.genesisSeeded
                      /\ Extended(t, c.d, b, k)
                    BY <5>1, <5>2, ApplyBlockExtends
                <5> HIDE DEF c, k
                <5> QED BY <2>2, <5>3
            <4> HIDE DEF c, k
            <4> DEFINE t1 == c.d
                       t2 == PruneUndo(t1, c.h)
            <4>2. TablesInv(t1)
                BY <1>2, <2>2, <2>4, <4>1, ExtendedSound
            <4>3. IndexedHeight(t1) = tip + n + 1 /\ Chain(t1) = Append(Chain(t), b)
                <5>1. HeadersSound(t) /\ b \in Block /\ ~ ParentMismatch(t, b) /\ t.genesisSeeded
                    BY <1>2, <2>2, <2>4, <4>1 DEF TablesInv
                <5>2. Extended(t, t1, b, k)
                    BY <4>1
                <5> HIDE DEF t1
                <5>3. IndexedHeight(t1) = IndexedHeight(t) + 1 /\ Chain(t1) = Append(Chain(t), b)
                    BY <5>1, <5>2, ExtendedHeaders
                <5>4. IndexedHeight(t) = tip + n
                    BY <2>2
                <5> QED BY <5>3, <5>4
            <4>4. /\ t1.undo = Put(t.undo, tip + n + 1, t1.undo[tip + n + 1])
                  /\ t1.genesisSeeded = t.genesisSeeded
                  /\ k \in Nat /\ Cardinality(t1.registerIdx) <= Cardinality(t.registerIdx) + k
                BY <2>2, <4>1 DEF Extended
            <4>5. DOMAIN t1.undo = DOMAIN t.undo \cup {tip + n + 1}
                BY <4>4 DEF Put
            <4> HIDE DEF t1
            <4>6. tip + n + 1 \in Nat
                BY <1>1
            <4>7. /\ TablesInv(t2) /\ t2.headers = t1.headers
                  /\ DOMAIN t2.undo = DOMAIN t1.undo \ Abs!PrunedBy({tip + n + 1})
                  /\ t2.genesisSeeded = t1.genesisSeeded /\ t2.registerIdx = t1.registerIdx
                <5>1. c.h = tip + n + 1
                    BY <4>1
                <5>2. t2 = PruneUndo(t1, tip + n + 1)
                    BY <5>1
                <5> HIDE DEF t2
                <5> QED BY <4>2, <4>6, <5>2, PrunedSound, Zenon
            <4>8. e = [acc EXCEPT !.tables = t2]
                BY <3>1, <3>3 DEF Advance, t1
            <4> HIDE DEF t2
            <4>9. DOMAIN e = {"tables", "result"} /\ e.result = "Ok" /\ e.tables = t2
                BY <1>4, <2>1, <4>8
            <4>10. IndexedHeight(t2) = tip + (n + 1) /\ Chain(t2) = s \o SubSeq(batch, 1, n + 1)
                <5>1. IndexedHeight(t2) = IndexedHeight(t1) /\ Chain(t2) = Chain(t1)
                    BY <4>7 DEF IndexedHeight, Chain
                <5>2. tip + n + 1 = tip + (n + 1)
                    BY <1>1
                <5> QED BY <1>2, <2>2, <4>3, <5>1, <5>2
            <4>11. DOMAIN t2.undo = (DOMAIN d.undo \cup (tip + 1 .. tip + (n + 1)))
                                        \ Abs!PrunedBy(tip + 1 .. tip + (n + 1))
                <5>1. DOMAIN t2.undo = WithRow(DOMAIN t.undo, tip + n + 1)
                    BY <4>5, <4>7, Zenon DEF WithRow
                <5>2. DOMAIN t.undo = WithRows(DOMAIN d.undo, tip, n)
                    BY <2>2, Zenon DEF WithRows
                <5>3. WithRow(WithRows(DOMAIN d.undo, tip, n), tip + n + 1)
                        = WithRows(DOMAIN d.undo, tip, n + 1)
                    BY <1>1, PrunedStep
                <5> QED BY <5>1, <5>2, <5>3, Zenon DEF WithRows
            <4>12. /\ r[n + 1] = r[n] + k /\ r[n + 1] \in Nat
                   /\ Cardinality(t2.registerIdx) <= Cardinality(d.registerIdx) + r[n + 1]
                <5>1. r[n + 1] = r[n] + k
                    BY DEF k, b
                <5>2. /\ Cardinality(t2.registerIdx) \in Nat /\ Cardinality(t.registerIdx) \in Nat
                      /\ Cardinality(d.registerIdx) \in Nat
                    <6>1. /\ IsFiniteSet(t2.registerIdx) /\ IsFiniteSet(t.registerIdx)
                          /\ IsFiniteSet(d.registerIdx)
                        BY <2>2, <4>7 DEF TablesInv
                    <6> QED BY <6>1, FS_CardinalityType
                <5>3. /\ Cardinality(t2.registerIdx) <= Cardinality(t.registerIdx) + k
                      /\ Cardinality(t.registerIdx) <= Cardinality(d.registerIdx) + r[n]
                      /\ r[n] \in Nat /\ k \in Nat
                    BY <2>2, <4>4, <4>7
                <5> QED BY <5>1, <5>2, <5>3
            <4>13. t2.genesisSeeded = d.genesisSeeded
                BY <2>2, <4>4, <4>7
            <4>14. Gone(d, t2, batch, n + 1, r[n + 1])
                BY <4>7, <4>10, <4>11, <4>12, <4>13 DEF Gone, tip, s
            <4> QED BY <4>9, <4>14 DEF AppliedFrom, e, b
        <3> QED BY <3>2, <3>3
    <2> QED BY <2>3, <2>4
<1> QED BY <1>3, <1>4 DEF e, b

LOCAL BatchEntries == INSTANCE FoldTheory WITH
    Op <- LAMBDA p, q, acc, b : acc + RegistersOfBlock(b),
    Inv <- LAMBDA p, q, base, n, acc : TRUE

LEMMA RegistersOfBatchSteps ==
    ASSUME NEW batch \in Seq(Block)
    PROVE  \E r : /\ r[0] = 0 /\ r[Len(batch)] = RegistersOfBatch(batch)
                  /\ \A i \in 1..Len(batch) : r[i] = r[i - 1] + RegistersOfBlock(batch[i])
<1> DEFINE F(f) == BatchEntries!LeftFold(0, 0, 0, batch, f)
           total == BatchEntries!Left(0, 0, 0, batch)
<1>1. RegistersOfBatch(batch) = total
    BY DEF RegistersOfBatch, FoldLeft, MapThenFoldSet, Max, BatchEntries!Left,
           BatchEntries!LeftFold, BatchEntries!Greatest
<1>2. DOMAIN batch = 1..Len(batch) /\ Len(batch) \in Nat
    OBVIOUS
<1>3. /\ \E f : F(f)
      /\ \A f : F(f) => \E r : /\ BatchEntries!Trace(0, 0, 0, batch, r)
                               /\ r[Len(batch)] = f[DOMAIN batch]
    BY <1>2, LeastNatural, BatchEntries!LeftTrace
<1>4. PICK r : BatchEntries!Trace(0, 0, 0, batch, r) /\ r[Len(batch)] = total
    <2>1. F(CHOOSE f : F(f))
        BY <1>3, Zenon
    <2> HIDE DEF F
    <2>2. \E r : /\ BatchEntries!Trace(0, 0, 0, batch, r)
                 /\ r[Len(batch)] = (CHOOSE f : F(f))[DOMAIN batch]
        BY <1>3, <2>1
    <2> QED BY <2>2, Zenon DEF BatchEntries!Left, F
<1> HIDE DEF total
<1> QED BY <1>1, <1>4 DEF BatchEntries!Trace

(* A batch is indexed as a whole, or something in it does not follow what  *)
(* is below it, or a block does not fit the tables.                        *)
LEMMA AppliedIs ==
    ASSUME NEW d, TablesInv(d), NEW batch \in Seq(Block)
    PROVE  LET p == Applied(d, batch)
           IN  \/ p.result = "Ok" /\ Gone(d, p.tables, batch, Len(batch), RegistersOfBatch(batch))
               \/ p.result = "Corrupt"
               \/ p.result = "ParentMismatch" /\ ~ Abs!Linked(Chain(d) \o batch)
<1>1. PICK r : /\ r[0] = 0 /\ r[Len(batch)] = RegistersOfBatch(batch)
               /\ \A i \in 1..Len(batch) : r[i] = r[i - 1] + RegistersOfBlock(batch[i])
    BY RegistersOfBatchSteps
<1> DEFINE base == [tables |-> d, result |-> "Ok"]
           out == Applying!Left(batch, r, base, batch)
           tip == IndexedHeight(d)
<1>2. Applied(d, batch) = out
    BY DEF Applied, FoldLeft, MapThenFoldSet, Max, Applying!Left, Applying!LeftFold,
           Applying!Greatest
<1>3. DOMAIN batch = 1..Len(batch) /\ Len(batch) \in Nat
    OBVIOUS
<1>4. AppliedFrom(batch, r, base, 0, base)
    <2>1. tip \in Nat /\ Chain(d) \in Seq(Block)
        BY ChainOf DEF TablesInv, HeadersSound
    <2>2. SubSeq(batch, 1, 0) = <<>>
        BY SubSeqEmpty
    <2>3. Chain(d) \o SubSeq(batch, 1, 0) = Chain(d)
        BY <2>1, <2>2, ConcatEmptySeq
    <2>4. tip + 1 .. tip + 0 = {} /\ tip + 0 = tip
        BY <2>1
    <2>5. Abs!PrunedBy({}) = {}
        BY DEF Abs!PrunedBy
    <2>6. Cardinality(d.registerIdx) \in Nat
        BY FS_CardinalityType DEF TablesInv
    <2>7. Cardinality(d.registerIdx) <= Cardinality(d.registerIdx) + r[0] /\ r[0] \in Nat
        BY <1>1, <2>6
    <2>8. DOMAIN d.undo = (DOMAIN d.undo \cup (tip + 1 .. tip + 0)) \ Abs!PrunedBy(tip + 1 .. tip + 0)
        BY <2>4, <2>5
    <2> HIDE DEF tip
    <2>9. Gone(d, d, batch, 0, r[0])
        BY <2>3, <2>4, <2>7, <2>8 DEF Gone, tip
    <2> QED BY <2>9 DEF AppliedFrom
<1>5. ASSUME NEW i \in 1..Len(batch), NEW acc, AppliedFrom(batch, r, base, i - 1, acc)
      PROVE  AppliedFrom(batch, r, base, i, ApplyNext(acc, batch[i]))
    <2>1. i - 1 \in Nat /\ i - 1 < Len(batch) /\ (i - 1) + 1 = i
        BY <1>3
    <2>2. r[(i - 1) + 1] = r[i - 1] + RegistersOfBlock(batch[(i - 1) + 1])
        BY <1>1, <2>1
    <2>3. AppliedFrom(batch, r, base, (i - 1) + 1, ApplyNext(acc, batch[(i - 1) + 1]))
        BY <1>5, <2>1, <2>2, ApplyNextKeeps
    <2> QED BY <2>1, <2>3
<1> HIDE DEF base
<1>6. AppliedFrom(batch, r, base, Len(batch), out)
    <2> HIDE DEF out
    <2>1. AppliedFrom(batch, r, base, Len(batch), Applying!Left(batch, r, base, batch))
        BY <1>3, <1>4, <1>5, LeastNatural, Applying!LeftValue
    <2> QED BY <2>1 DEF out
<1> HIDE DEF out
<1>7. base.tables = d
    BY DEF base
<1> QED BY <1>1, <1>2, <1>6, <1>7 DEF AppliedFrom

-----------------------------------------------------------------------------
(* The chain-spec boxes. *)

LEMMA SeedBoxMoves ==
    ASSUME NEW c, Good(c), NEW o,
           IsFiniteSet(o.registers), IsFiniteSet(BagToSet(o.tokens))
    PROVE  Moves(c, SeedBox(c, o), {o.id}, {}, {}, Cardinality(o.registers))
<1> DEFINE gidx == c.d.nextBox
           d0 == InsertOutput(c.d, gidx, o, "genesis")
           d1 == SeedBalance(d0, o)
           d == [d1 EXCEPT !.nextBox = @ + 1, !.ergoTrees = @ \cup {o.tree}]
           row == [gidx |-> gidx, value |-> o.value, tree |-> o.tree,
                   creation |-> o.creation, tx |-> "genesis", tokens |-> o.tokens,
                   spent |-> Unspent]
           e == [c EXCEPT !.d = d]
           k == Cardinality(o.registers)
<1>0. DOMAIN c.d = TableKeys /\ DOMAIN c = CtxKeys /\ DOMAIN c.undo = UndoKeys
    BY DEF Good
<1>1. /\ DOMAIN d0 = TableKeys
      /\ d0.headers = c.d.headers /\ d0.undo = c.d.undo
      /\ d0.genesisSeeded = c.d.genesisSeeded
      /\ d0.boxes = Put(c.d.boxes, o.id, row) /\ d0.ergoTrees = c.d.ergoTrees
      /\ d0.txs = c.d.txs /\ d0.treeBalance = c.d.treeBalance /\ d0.tokens = c.d.tokens
      /\ d0.registerIdx = c.d.registerIdx
    BY <1>0 DEF InsertOutput, TableKeys
<1>2. /\ {"tree", "tokens", "spent"} \subseteq DOMAIN row
      /\ row.tree = o.tree /\ row.tokens = o.tokens
    OBVIOUS
<1> HIDE DEF d0, row
<1>3. /\ DOMAIN d1 = TableKeys
      /\ d1.headers = d0.headers /\ d1.undo = d0.undo
      /\ d1.genesisSeeded = d0.genesisSeeded
      /\ d1.boxes = d0.boxes /\ d1.ergoTrees = d0.ergoTrees /\ d1.txs = d0.txs
      /\ d1.tokens = d0.tokens /\ d1.registerIdx = d0.registerIdx
    BY <1>1 DEF SeedBalance, TableKeys
<1>4. DOMAIN d0.treeBalance \subseteq DOMAIN d1.treeBalance
    <2> DEFINE old == Lookup(d0.treeBalance, o.tree,
                        [nano |-> 0, tokens |-> EmptyBag, boxCount |-> 0,
                         firstSeen |-> 0, lastSeen |-> 0, txCount |-> 0])
               new == [old EXCEPT !.nano = @ + o.value, !.boxCount = @ + 1,
                                  !.tokens = @ (+) o.tokens]
    <2>1. d1.treeBalance = Put(d0.treeBalance, o.tree, new)
        BY <1>1 DEF SeedBalance, TableKeys
    <2> HIDE DEF new, old, d1
    <2> QED BY <2>1 DEF Put
<1> HIDE DEF d1
<1>5. /\ DOMAIN d = TableKeys
      /\ d.headers = c.d.headers /\ d.undo = c.d.undo
      /\ d.genesisSeeded = c.d.genesisSeeded
      /\ d.boxes = Put(c.d.boxes, o.id, row) /\ d.ergoTrees = c.d.ergoTrees \cup {o.tree}
      /\ d.txs = c.d.txs /\ DOMAIN c.d.treeBalance \subseteq DOMAIN d.treeBalance
      /\ d.tokens = c.d.tokens /\ d.registerIdx = c.d.registerIdx
    BY <1>1, <1>3, <1>4 DEF TableKeys
<1> HIDE DEF d
<1>6. /\ DOMAIN d.boxes = {o.id} \cup DOMAIN c.d.boxes
      /\ d.boxes[o.id] = row
      /\ \A id \in DOMAIN c.d.boxes \ {o.id} : d.boxes[id] = c.d.boxes[id]
    BY <1>5 DEF Put
<1>7. /\ DOMAIN e = CtxKeys /\ e.d = d /\ e.undo = c.undo /\ e.h = c.h /\ e.hold = c.hold
    BY <1>0 DEF CtxKeys
<1> HIDE DEF e
<1>8. \A id \in DOMAIN d.boxes : RowOK(d.boxes[id], d.ergoTrees)
    <2> TAKE id \in DOMAIN d.boxes
    <2>1. CASE id = o.id
        BY <1>2, <1>5, <1>6, <2>1 DEF RowOK, BagToSet
    <2>2. CASE id # o.id
        <3>1. id \in DOMAIN c.d.boxes /\ d.boxes[id] = c.d.boxes[id]
            BY <1>6, <2>2
        <3> QED BY <1>5, <3>1 DEF Good, RowOK
    <2> QED BY <2>1, <2>2
<1>9. Good(e)
    BY <1>0, <1>5, <1>6, <1>7, <1>8 DEF Good
<1>10. Moves(c, e, {o.id}, {}, {}, 0)
    <2>1. Cardinality(c.d.registerIdx) \in Nat
        BY FS_CardinalityType DEF Good
    <2> QED BY <1>5, <1>6, <1>7, <1>9, <2>1 DEF Moves
<1> DEFINE f == ExtrasOnOutput(e, gidx, o)
           g == TokensOnOutput(f, gidx, o)
<1>11. Moves(e, f, {}, {}, {}, k)
    BY <1>9, ExtrasOnOutputMoves
<1> HIDE DEF f
<1>12. k \in Nat
    BY FS_CardinalityType
<1>13. Moves(c, f, {o.id} \cup {}, {} \cup {}, {} \cup {}, 0 + k)
    BY <1>10, <1>11, MovesTrans
<1>14. Moves(f, g, {}, {}, {}, 0)
    <2>1. Good(f)
        BY <1>11 DEF Moves
    <2> QED BY <2>1, TokensOnOutputQuiet DEF Quiet
<1> HIDE DEF g, k
<1>15. Moves(c, f, {o.id}, {}, {}, k)
    <2>1. {o.id} \cup {} = {o.id} /\ {} \cup {} = {} /\ 0 + k = k
        BY <1>12
    <2> QED BY <1>13, <2>1
<1>16. Moves(c, g, {o.id} \cup {}, {} \cup {}, {} \cup {}, k + 0)
    BY <1>14, <1>15, MovesTrans
<1>17. {o.id} \cup {} = {o.id} /\ {} \cup {} = {} /\ k + 0 = k
    BY <1>12
<1>18. SeedBox(c, o) = g
    BY Zenon DEF SeedBox, g, f, e, d, d1, d0
<1>19. Moves(c, g, {o.id}, {}, {}, k)
    BY <1>16, <1>17
<1> QED BY <1>18, <1>19 DEF k

(* Inv of the loop over the chain-spec boxes: q holds the register sums.   *)
SeededFrom(p, q, base, n, acc) ==
    Good(base) => Moves(base, acc, {Genesis[k].id : k \in 1..n}, {}, {}, q[n])

LOCAL Seeding == INSTANCE FoldTheory WITH
    Op <- LAMBDA p, q, acc, o : SeedBox(acc, o), Inv <- SeededFrom

LEMMA GenesisMoves ==
    ASSUME NEW c, Good(c)
    PROVE  Moves(c, FoldLeft(LAMBDA acc, o : SeedBox(acc, o), c, Genesis),
                 BoxIds(Genesis), {}, {}, RegisterCount(Genesis))
<1> DEFINE m == Len(Genesis)
           ids(n) == {Genesis[k].id : k \in 1..n}
<1>1. PICK r : /\ r[0] = 0 /\ r[m] = RegisterCount(Genesis)
               /\ \A i \in 1..m : r[i] = r[i - 1] + Cardinality(Genesis[i].registers)
    BY RegisterCountSteps, ContentAssumption
<1> DEFINE out == Seeding!Left(0, r, c, Genesis)
           all == FoldLeft(LAMBDA acc, o : SeedBox(acc, o), c, Genesis)
<1>2. all = out
    BY DEF FoldLeft, MapThenFoldSet, Max, Seeding!Left, Seeding!LeftFold, Seeding!Greatest
<1> HIDE DEF all
<1>3. /\ DOMAIN Genesis = 1..m /\ m \in Nat /\ BoxIds(Genesis) = ids(m)
      /\ FiniteTokens(Genesis)
      /\ \A k \in 1..m : IsFiniteSet(Genesis[k].registers)
    BY BoxList, ContentAssumption
<1>4. \A n, acc : SeededFrom(0, r, c, n, acc) <=> Moves(c, acc, ids(n), {}, {}, r[n])
    BY DEF SeededFrom
<1>5. SeededFrom(0, r, c, 0, c)
    <2>1. ids(0) = {}
        OBVIOUS
    <2>2. Moves(c, c, {}, {}, {}, 0)
        BY QuietRefl DEF Quiet
    <2> HIDE DEF ids
    <2> QED BY <1>1, <1>4, <2>1, <2>2
<1>6. ASSUME NEW i \in 1..m, NEW acc, SeededFrom(0, r, c, i - 1, acc)
      PROVE  SeededFrom(0, r, c, i, SeedBox(acc, Genesis[i]))
    <2> DEFINE e == SeedBox(acc, Genesis[i])
               size == Cardinality(Genesis[i].registers)
    <2>1. Moves(c, acc, ids(i - 1), {}, {}, r[i - 1]) /\ Good(acc)
        BY <1>4, <1>6 DEF Moves
    <2>2. Moves(acc, e, {Genesis[i].id}, {}, {}, size)
        BY <1>3, <2>1, SeedBoxMoves DEF FiniteTokens
    <2> HIDE DEF e, size, ids
    <2>3. Moves(c, e, ids(i - 1) \cup {Genesis[i].id}, {} \cup {}, {} \cup {}, r[i - 1] + size)
        BY <2>1, <2>2, MovesTrans
    <2>4. ids(i - 1) \cup {Genesis[i].id} = ids(i) /\ {} \cup {} = {}
        <3>1. 1..i = 1..(i - 1) \cup {i}
            OBVIOUS
        <3> QED BY <3>1 DEF ids
    <2>5. r[i - 1] + size = r[i]
        BY <1>1 DEF size
    <2>6. Moves(c, e, ids(i), {}, {}, r[i])
        BY <2>3, <2>4, <2>5
    <2> QED BY <1>4, <2>6 DEF e
<1>7. SeededFrom(0, r, c, m, out)
    BY <1>3, <1>5, <1>6, LeastNatural, Seeding!LeftValue
<1> HIDE DEF ids, out
<1>8. Moves(c, all, BoxIds(Genesis), {}, {}, RegisterCount(Genesis))
    BY <1>1, <1>2, <1>3, <1>4, <1>7
<1> QED BY <1>8, Zenon DEF all

LEMMA SeedTablesSound ==
    ASSUME NEW d, TablesInv(d), d.headers = <<>>, ~ d.genesisSeeded
    PROVE  LET t == SeedTables(d)
           IN  /\ TablesInv(t) /\ t.genesisSeeded
               /\ IndexedHeight(t) = 0 /\ Chain(t) = Chain(d)
               /\ DOMAIN t.undo = DOMAIN d.undo
               /\ RegisterCount(Genesis) \in Nat
               /\ Cardinality(t.registerIdx) <= Cardinality(d.registerIdx) + RegisterCount(Genesis)
<1> DEFINE d1 == [d EXCEPT !.nextBox = OrZero(@),
                           !.genesisToken = UNION {BagToSet(o.tokens) : o \in Range(Genesis)}]
           c == NewCtx(d1, 0)
           e == FoldLeft(LAMBDA acc, o : SeedBox(acc, o), c, Genesis)
           f == FlushTemplates(e)
           g == FlushTokens(FlushHolders(f))
           trees == IF Genesis = <<>> THEN {} ELSE {LargestBox(Genesis).tree}
           t == [g.d EXCEPT !.emissionTree = trees, !.genesisSeeded = TRUE]
           k == RegisterCount(Genesis)
<1>1. DOMAIN d = TableKeys
    BY DEF TablesInv
<1>2. /\ DOMAIN d1 = TableKeys
      /\ d1.headers = d.headers /\ d1.undo = d.undo
      /\ d1.boxes = d.boxes /\ d1.ergoTrees = d.ergoTrees /\ d1.txs = d.txs
      /\ d1.registerIdx = d.registerIdx
    BY <1>1 DEF TableKeys
<1>0. SeedTables(d) = t
    BY Zenon DEF SeedTables
<1> HIDE DEF d1, trees
<1>3. Base(d1)
    BY <1>2 DEF Base, TablesInv, BoxesSound
<1>4. Good(c) /\ c.d = d1
    BY <1>3, NewCtxGood DEF NewCtx
<1> HIDE DEF c
<1>5. Moves(c, e, BoxIds(Genesis), {}, {}, k)
    BY <1>4, GenesisMoves, Zenon
<1> HIDE DEF e, k
<1>6. Quiet(e, g)
    <2>1. Good(e)
        BY <1>5 DEF Moves
    <2>2. Quiet(e, f) /\ Good(f)
        BY <2>1, FlushTemplatesQuiet, QuietGood
    <2> HIDE DEF f
    <2> DEFINE x == FlushHolders(f)
    <2>3. Quiet(f, x) /\ Good(x)
        BY <2>2, FlushHoldersQuiet, QuietGood
    <2> HIDE DEF x
    <2>4. Quiet(x, FlushTokens(x))
        BY <2>3, FlushTokensQuiet
    <2>5. Quiet(e, x)
        BY <2>1, <2>2, <2>3, QuietTrans
    <2>6. Quiet(e, FlushTokens(x))
        BY <2>1, <2>4, <2>5, QuietTrans
    <2> QED BY <2>6 DEF x
<1> HIDE DEF g
<1>7. Moves(c, g, BoxIds(Genesis) \cup {}, {} \cup {}, {} \cup {}, k + 0)
    BY <1>4, <1>5, <1>6, MovesTrans DEF Quiet
<1>8. /\ Good(g) /\ k \in Nat
      /\ g.d.headers = d.headers /\ g.d.undo = d.undo
      /\ DOMAIN g.d.boxes = DOMAIN d.boxes \cup BoxIds(Genesis)
      /\ DOMAIN g.d.txs = DOMAIN d.txs
      /\ Cardinality(g.d.registerIdx) <= Cardinality(d.registerIdx) + k
    BY <1>2, <1>4, <1>5, <1>7 DEF Moves
<1>9. /\ DOMAIN g.d = TableKeys /\ IsFiniteSet(g.d.registerIdx)
      /\ \A id \in DOMAIN g.d.boxes : RowOK(g.d.boxes[id], g.d.ergoTrees)
    BY <1>8 DEF Good
<1>10. /\ DOMAIN t = TableKeys /\ t.genesisSeeded = TRUE
       /\ t.headers = g.d.headers /\ t.undo = g.d.undo /\ t.boxes = g.d.boxes
       /\ t.ergoTrees = g.d.ergoTrees /\ t.txs = g.d.txs /\ t.registerIdx = g.d.registerIdx
    BY <1>9 DEF TableKeys
<1> HIDE DEF t
<1>11. IndexedHeight(d) = 0
    BY ChainOf DEF TablesInv
<1>12. IndexedHeight(t) = 0 /\ Chain(t) = Chain(d)
    BY <1>8, <1>10, <1>11 DEF IndexedHeight, Chain
<1>13. HeadersSound(t)
    BY <1>8, <1>10, <1>11, <1>12 DEF TablesInv, HeadersSound
<1>14. /\ MadeBy(d, 0) = {} /\ TxsBy(d, 0) = {}
       /\ MadeBy(t, 0) = BoxIds(Genesis) /\ TxsBy(t, 0) = {}
    BY <1>10 DEF MadeBy, TxsBy
<1>15. BoxesSound(t)
    BY <1>8, <1>9, <1>10, <1>11, <1>12, <1>14 DEF TablesInv, BoxesSound
<1>16. DOMAIN t.undo = {}
    <2>1. DOMAIN d.headers = {}
        BY <1>11, ChainOf DEF TablesInv
    <2> QED BY <1>8, <1>10, <2>1 DEF TablesInv, UndoSound
<1>17. UndoSound(t)
    BY <1>16 DEF UndoSound
<1>18. TablesInv(t)
    BY <1>9, <1>10, <1>13, <1>15, <1>17 DEF TablesInv
<1> QED BY <1>0, <1>8, <1>10, <1>12, <1>18 DEF k

-----------------------------------------------------------------------------
(* The calls: each keeps the invariant and is a call of ChainStore.        *)

LEMMA InvFacts ==
    ASSUME StoreInv
    PROVE  LET n == IndexedHeight(db.tables)
           IN  /\ TablesInv(db.tables) /\ HeadersSound(db.tables) /\ Roomy(db.tables)
               /\ db.peak \in Nat /\ n \in Nat /\ n <= db.peak
               /\ Len(Chain(db.tables)) = n /\ Chain(db.tables) \in Seq(Block)
               /\ db.tables.headers = <<>> <=> n = 0
               /\ Chain(db.tables) = <<>> <=> n = 0
               /\ IsFiniteSet(db.tables.registerIdx)
               /\ Cardinality(db.tables.registerIdx) \in Nat
<1>1. /\ TablesInv(db.tables) /\ Roomy(db.tables)
      /\ db.peak \in Nat /\ IndexedHeight(db.tables) <= db.peak
    BY DEF StoreInv, DatabaseInv
<1>2. HeadersSound(db.tables) /\ IsFiniteSet(db.tables.registerIdx)
    BY <1>1 DEF TablesInv
<1>3. /\ IndexedHeight(db.tables) \in Nat
      /\ Len(Chain(db.tables)) = IndexedHeight(db.tables)
      /\ db.tables.headers = <<>> <=> IndexedHeight(db.tables) = 0
    BY <1>2, ChainOf
<1>4. Chain(db.tables) \in Seq(Block)
    BY <1>2 DEF HeadersSound
<1>5. Cardinality(db.tables.registerIdx) \in Nat
    BY <1>2, FS_CardinalityType
<1>6. Chain(db.tables) = <<>> <=> IndexedHeight(db.tables) = 0
    BY <1>3, <1>4, EmptySeq
<1> QED BY <1>1, <1>2, <1>3, <1>4, <1>5, <1>6

LEMMA AbortStep ==
    ASSUME StoreInv, NEW error, Abort(error)
    PROVE  StoreInv' /\ Abs!Fail(error)
<1>1. db' = db /\ disk' = disk /\ outcome' = error
    BY DEF Abort
<1>2. StoreInv'
    BY <1>1 DEF StoreInv
<1>3. Abs!Fail(error)
    BY <1>1 DEF Abs!Fail, Abstraction
<1> QED BY <1>2, <1>3

(* What the abstract database becomes. *)
Advanced(d, t) ==
    [chain |-> Chain(t), undo |-> DOMAIN t.undo, seeded |-> t.genesisSeeded,
     peak  |-> IF IndexedHeight(t) > d.peak THEN IndexedHeight(t) ELSE d.peak]

LEMMA CommitStep ==
    ASSUME StoreInv, NEW t, TablesInv(t), Roomy(t), NEW immediate \in BOOLEAN,
           Commit(t, immediate)
    PROVE  /\ StoreInv'
           /\ immediate => Abs!CommitImmediate(Advanced(db, t))
           /\ ~ immediate => Abs!CommitNone(Advanced(db, t))
<1> DEFINE n == IndexedHeight(t)
           e == [tables |-> t, peak |-> IF n > db.peak THEN n ELSE db.peak]
<1>1. n \in Nat /\ db.peak \in Nat
    BY InvFacts, ChainOf DEF TablesInv
<1>2. db' = e /\ disk' = (IF immediate THEN e ELSE disk) /\ outcome' = "Ok"
    BY DEF Commit
<1>3. /\ DOMAIN e = {"tables", "peak"} /\ e.tables = t
      /\ e.peak \in Nat /\ n <= e.peak /\ e.peak = IF n > db.peak THEN n ELSE db.peak
    BY <1>1
<1> HIDE DEF e
<1>4. DatabaseInv(e) /\ DatabaseInv(disk)
    BY <1>3 DEF DatabaseInv, StoreInv
<1>5. StoreInv'
    BY <1>2, <1>4 DEF StoreInv
<1>6. Abstraction(e) = Advanced(db, t)
    BY <1>3 DEF Abstraction, Advanced
<1>7. Abstraction(db)' = Advanced(db, t)
    BY <1>2, <1>6
<1>8. immediate => Abstraction(disk)' = Advanced(db, t)
    BY <1>2, <1>6
<1>9. ~ immediate => UNCHANGED Abstraction(disk)
    BY <1>2
<1> QED BY <1>2, <1>5, <1>7, <1>8, <1>9 DEF Abs!CommitImmediate, Abs!CommitNone

(* What fits below the ceiling leaves room. *)
LEMMA StaysRoomy ==
    ASSUME NEW d, NEW t, NEW k \in Nat, ~ OverCapacity(d, k),
           IsFiniteSet(d.registerIdx), IsFiniteSet(t.registerIdx),
           Cardinality(t.registerIdx) <= Cardinality(d.registerIdx) + k
    PROVE  Roomy(t)
<1>1. /\ Cardinality(d.registerIdx) \in Nat /\ Cardinality(t.registerIdx) \in Nat
    BY FS_CardinalityType
<1>2. Ceiling # NoRow => Ceiling \in Nat /\ ~ Cardinality(d.registerIdx) + k >= Ceiling
    BY CeilingAssumption DEF OverCapacity
<1> QED BY <1>1, <1>2 DEF Roomy

LEMMA SeedGenesisStep ==
    ASSUME StoreInv, SeedGenesis
    PROVE  StoreInv' /\ Abs!SeedGenesis
<1> DEFINE d == db.tables
           t == SeedTables(d)
<1>1. /\ Abstraction(db).chain = Chain(d) /\ Abstraction(db).seeded = d.genesisSeeded
      /\ Abstraction(db).undo = DOMAIN d.undo /\ Abstraction(db).peak = db.peak
    BY DEF Abstraction
<1>2. CASE d.headers # <<>>
    <2>1. Abort("Corrupt")
        BY <1>2 DEF SeedGenesis
    <2>2. StoreInv' /\ Abs!Fail("Corrupt")
        BY <2>1, AbortStep
    <2>3. Abstraction(db).chain # <<>>
        BY <1>1, <1>2, InvFacts
    <2> QED BY <2>2, <2>3 DEF Abs!SeedGenesis
<1>3. CASE d.headers = <<>> /\ d.genesisSeeded
    <2>1. Abort("Ok")
        BY <1>3 DEF SeedGenesis
    <2>2. StoreInv' /\ Abs!Fail("Ok")
        BY <2>1, AbortStep
    <2>3. Abstraction(db).chain = <<>> /\ Abstraction(db).seeded
        BY <1>1, <1>3, InvFacts
    <2> QED BY <2>2, <2>3 DEF Abs!SeedGenesis
<1>4. CASE /\ d.headers = <<>> /\ ~ d.genesisSeeded
           /\ OverCapacity(d, RegisterCount(Genesis))
    <2>1. Abort("RegisterCapacity")
        BY <1>4 DEF SeedGenesis
    <2>2. StoreInv' /\ Abs!Fail("RegisterCapacity")
        BY <2>1, AbortStep
    <2> QED BY <2>2 DEF Abs!SeedGenesis
<1>5. CASE /\ d.headers = <<>> /\ ~ d.genesisSeeded
           /\ ~ OverCapacity(d, RegisterCount(Genesis))
    <2>1. Commit(t, TRUE)
        BY <1>5 DEF SeedGenesis
    <2>2. /\ TablesInv(t) /\ t.genesisSeeded
          /\ IndexedHeight(t) = 0 /\ Chain(t) = Chain(d)
          /\ DOMAIN t.undo = DOMAIN d.undo
          /\ RegisterCount(Genesis) \in Nat
          /\ Cardinality(t.registerIdx) <= Cardinality(d.registerIdx) + RegisterCount(Genesis)
        BY <1>5, InvFacts, SeedTablesSound
    <2> HIDE DEF t
    <2>3. Roomy(t)
        <3>1. IsFiniteSet(t.registerIdx) /\ IsFiniteSet(d.registerIdx)
            BY <2>2, InvFacts DEF TablesInv
        <3> QED BY <1>5, <2>2, <3>1, StaysRoomy
    <2>4. StoreInv' /\ Abs!CommitImmediate(Advanced(db, t))
        BY <2>1, <2>2, <2>3, CommitStep
    <2>5. t.genesisSeeded = TRUE
        BY <2>2 DEF TablesInv, HeadersSound
    <2>6. Advanced(db, t) = [Abstraction(db) EXCEPT !.seeded = TRUE]
        <3>1. ~ IndexedHeight(t) > db.peak
            BY <2>2, InvFacts
        <3>2. Advanced(db, t) = [chain |-> Chain(t), undo |-> DOMAIN t.undo,
                                 seeded |-> t.genesisSeeded, peak |-> db.peak]
            BY <3>1 DEF Advanced
        <3>3. \A x : [Abstraction(db) EXCEPT !.seeded = x]
                = [chain |-> Chain(d), undo |-> DOMAIN d.undo, seeded |-> x, peak |-> db.peak]
            BY DEF Abstraction
        <3> QED BY <2>2, <2>5, <3>2, <3>3, Zenon
    <2>7. Abstraction(db).chain = <<>> /\ ~ Abstraction(db).seeded
        BY <1>1, <1>5, InvFacts
    <2> QED BY <2>4, <2>6, <2>7 DEF Abs!SeedGenesis
<1> QED BY <1>2, <1>3, <1>4, <1>5

LEMMA RedbErrorStep ==
    ASSUME StoreInv, RedbError
    PROVE  StoreInv' /\ Abs!SeedGenesis
<1>1. StoreInv' /\ Abs!Fail("Redb")
    BY AbortStep DEF RedbError
<1> QED BY <1>1 DEF Abs!SeedGenesis

LEMMA ApplyBatchStep ==
    ASSUME StoreInv, NEW batch \in Batch, NEW durable \in BOOLEAN, ApplyBatch(batch, durable)
    PROVE  StoreInv' /\ Abs!ApplyBatch(batch, durable)
<1> DEFINE d == db.tables
           k == RegistersOfBatch(batch)
           p == Applied(d, batch)
           t == p.tables
           n == Len(batch)
           tip == IndexedHeight(d)
<1>1. batch \in Seq(Block) /\ n \in Nat
    BY BlockAssumption
<1>2. CASE batch = <<>>
    <2>1. Abort("Ok")
        BY <1>2 DEF ApplyBatch
    <2>2. StoreInv' /\ Abs!Fail("Ok")
        BY <2>1, AbortStep
    <2> QED BY <1>2, <2>2 DEF Abs!ApplyBatch
<1>3. CASE batch # <<>> /\ OverCapacity(d, k)
    <2>1. Abort("RegisterCapacity")
        BY <1>3 DEF ApplyBatch
    <2>2. StoreInv' /\ Abs!Fail("RegisterCapacity")
        BY <2>1, AbortStep
    <2> QED BY <1>3, <2>2 DEF Abs!ApplyBatch
<1>4. CASE batch # <<>> /\ ~ OverCapacity(d, k)
    <2>1. Finish(p, durable)
        BY <1>4 DEF ApplyBatch
    <2>2. \/ p.result = "Ok" /\ Gone(d, p.tables, batch, n, k)
          \/ p.result = "Corrupt"
          \/ p.result = "ParentMismatch" /\ ~ Abs!Linked(Chain(d) \o batch)
        BY <1>1, InvFacts, AppliedIs
    <2> HIDE DEF p
    <2>3. CASE p.result = "Corrupt"
        <3>1. Abort("Corrupt")
            BY <2>1, <2>3 DEF Finish
        <3>2. StoreInv' /\ Abs!Fail("Corrupt")
            BY <3>1, AbortStep
        <3> QED BY <1>4, <3>2 DEF Abs!ApplyBatch
    <2>4. CASE p.result = "ParentMismatch" /\ ~ Abs!Linked(Chain(d) \o batch)
        <3>1. Abort("ParentMismatch")
            BY <2>1, <2>4 DEF Finish
        <3>2. StoreInv' /\ Abs!Fail("ParentMismatch")
            BY <3>1, AbortStep
        <3>3. Abstraction(db).chain = Chain(d)
            BY DEF Abstraction
        <3>4. ~ Abs!Linked(Abstraction(db).chain \o batch)
            BY <2>4, <3>3
        <3> QED BY <1>4, <3>2, <3>4 DEF Abs!ApplyBatch
    <2>5. CASE p.result = "Ok" /\ Gone(d, p.tables, batch, n, k)
        <3>1. Commit(t, durable)
            BY <2>1, <2>5 DEF Finish
        <3> HIDE DEF t
        <3>2. /\ TablesInv(t) /\ IndexedHeight(t) = tip + n
              /\ Chain(t) = Chain(d) \o SubSeq(batch, 1, n)
              /\ DOMAIN t.undo = (DOMAIN d.undo \cup (tip + 1 .. tip + n))
                                    \ Abs!PrunedBy(tip + 1 .. tip + n)
              /\ t.genesisSeeded = d.genesisSeeded
              /\ k \in Nat /\ Cardinality(t.registerIdx) <= Cardinality(d.registerIdx) + k
            BY <2>5 DEF Gone, t
        <3>3. Roomy(t)
            <4>1. IsFiniteSet(t.registerIdx) /\ IsFiniteSet(d.registerIdx)
                BY <3>2, InvFacts DEF TablesInv
            <4> HIDE DEF k
            <4> QED BY <1>4, <3>2, <4>1, StaysRoomy
        <3>4. /\ StoreInv'
              /\ durable => Abs!CommitImmediate(Advanced(db, t))
              /\ ~ durable => Abs!CommitNone(Advanced(db, t))
            BY <3>1, <3>2, <3>3, CommitStep
        <3>5. Chain(t) = Chain(d) \o batch
            BY <1>1, <3>2, SubSeqFull
        <3>6. n > 0 /\ tip \in Nat
            BY <1>1, <1>4, EmptySeq, InvFacts
        <3>7. t.genesisSeeded /\ Abs!Linked(Chain(t))
            <4>1. IndexedHeight(t) > 0
                BY <1>1, <3>2, <3>6
            <4> QED BY <3>2, <4>1 DEF TablesInv, HeadersSound
        <3> DEFINE a == Abstraction(db)
        <3>8. /\ a.chain = Chain(d) /\ a.seeded = d.genesisSeeded
              /\ a.undo = DOMAIN d.undo /\ a.peak = db.peak /\ Abs!Tip(a) = tip
            BY InvFacts DEF Abstraction, Abs!Tip
        <3>9. Abs!Extend(a, batch) = Advanced(db, t)
            <4> DEFINE new == tip + 1 .. tip + n
                       keys == {"chain", "undo", "seeded", "peak"}
                       e == Abs!Extend(a, batch)
                       f == Advanced(db, t)
            <4>1. DOMAIN a = keys
                BY DEF Abstraction
            <4> HIDE DEF a
            <4>2. e = [a EXCEPT !.chain = a.chain \o batch,
                                !.undo  = (a.undo \cup new) \ Abs!PrunedBy(new),
                                !.peak  = IF tip + n > a.peak THEN tip + n ELSE a.peak]
                BY <3>8 DEF Abs!Extend
            <4> HIDE DEF new, e
            <4>3. /\ e = [x \in keys |-> e[x]]
                  /\ e.chain = a.chain \o batch
                  /\ e.undo = (a.undo \cup new) \ Abs!PrunedBy(new)
                  /\ e.seeded = a.seeded
                  /\ e.peak = IF tip + n > a.peak THEN tip + n ELSE a.peak
                BY <4>1, <4>2
            <4>4. f = [x \in keys |-> f[x]]
                BY DEF Advanced
            <4>5. /\ f.chain = Chain(t) /\ f.undo = DOMAIN t.undo
                  /\ f.seeded = t.genesisSeeded
                  /\ f.peak = IF IndexedHeight(t) > db.peak THEN IndexedHeight(t) ELSE db.peak
                BY DEF Advanced
            <4> HIDE DEF f
            <4>6. e.chain = f.chain /\ e.undo = f.undo /\ e.seeded = f.seeded /\ e.peak = f.peak
                BY <3>2, <3>5, <3>8, <4>3, <4>5 DEF new
            <4>7. \A x \in keys : e[x] = f[x]
                BY <4>6
            <4>8. e = f
                BY <4>3, <4>4, <4>7
            <4> QED BY <4>8 DEF e, f
        <3> HIDE DEF a
        <3>10. Abs!Accepts(a, batch)
            BY <3>2, <3>5, <3>7, <3>8 DEF Abs!Accepts
        <3>11. IF durable THEN Abs!CommitImmediate(Abs!Extend(a, batch))
                          ELSE Abs!CommitNone(Abs!Extend(a, batch))
            BY <3>4, <3>9
        <3> QED BY <1>4, <3>4, <3>10, <3>11 DEF Abs!ApplyBatch, a
    <2> QED BY <2>2, <2>3, <2>4, <2>5
<1> QED BY <1>2, <1>3, <1>4

LEMMA RollbackToStep ==
    ASSUME StoreInv, NEW target \in 0..IndexedHeight(db.tables), RollbackTo(target)
    PROVE  StoreInv' /\ Abs!RollbackTo(target)
<1> DEFINE d == db.tables
           tip == IndexedHeight(d)
           a == Abstraction(db)
           p == RolledBack(d, target)
           t == p.tables
<1>1. /\ a.chain = Chain(d) /\ a.seeded = d.genesisSeeded
      /\ a.undo = DOMAIN d.undo /\ a.peak = db.peak /\ Abs!Tip(a) = tip
      /\ a.chain = <<>> <=> tip = 0
      /\ tip \in Nat /\ target \in Nat /\ tip <= db.peak
    BY InvFacts DEF Abstraction, Abs!Tip
<1>2. DOMAIN a = {"chain", "undo", "seeded", "peak"}
    BY DEF Abstraction
<1>3. Window \in Nat
    BY BlockAssumption
<1>4. RollbackTo(target) <=>
        IF tip = 0 THEN Abort("Corrupt")
        ELSE IF tip <= target THEN Abort("Ok")
        ELSE IF tip - target > Window THEN Abort("ReindexRequired")
        ELSE Finish(p, TRUE)
    BY DEF RollbackTo
<1>5. Abs!RollbackTo(target) <=>
        \/ /\ Abs!RollbackOutcome(a, target) = "Ok"
           /\ IF Abs!Tip(a) <= target THEN Abs!Fail("Ok")
                                      ELSE Abs!CommitImmediate(Abs!Truncate(a, target))
        \/ /\ Abs!RollbackOutcome(a, target) # "Ok"
           /\ Abs!Fail(Abs!RollbackOutcome(a, target))
        \/ \E error \in {"Corrupt", "RegisterCapacity", "Redb"} \cap {"Redb"} : Abs!Fail(error)
    BY DEF Abs!RollbackTo
<1> HIDE DEF a
<1>6. CASE tip = 0
    <2>1. StoreInv' /\ Abs!Fail("Corrupt")
        BY <1>4, <1>6, AbortStep
    <2>2. Abs!RollbackOutcome(a, target) = "Corrupt"
        BY <1>1, <1>6 DEF Abs!RollbackOutcome
    <2> QED BY <1>5, <2>1, <2>2
<1>7. CASE tip # 0 /\ tip <= target
    <2>1. StoreInv' /\ Abs!Fail("Ok")
        BY <1>4, <1>7, AbortStep
    <2>2. Abs!RollbackOutcome(a, target) = "Ok"
        BY <1>1, <1>3, <1>7 DEF Abs!RollbackOutcome
    <2> QED BY <1>1, <1>5, <1>7, <2>1, <2>2
<1>8. CASE tip > target /\ tip - target > Window
    <2>1. tip # 0 /\ ~ tip <= target
        BY <1>1, <1>8
    <2>2. StoreInv' /\ Abs!Fail("ReindexRequired")
        BY <1>4, <1>8, <2>1, AbortStep
    <2>3. Abs!RollbackOutcome(a, target) = "ReindexRequired"
        BY <1>1, <1>3, <1>8, <2>1 DEF Abs!RollbackOutcome
    <2> QED BY <1>5, <2>2, <2>3
<1>9. CASE tip > target /\ tip - target <= Window
    <2>1. tip # 0 /\ ~ tip <= target /\ ~ tip - target > Window
        BY <1>1, <1>3, <1>9
    <2>2. Finish(p, TRUE)
        BY <1>4, <2>1
    <2>3. Abs!RollbackOutcome(a, target) =
            IF target + 1 .. tip \subseteq DOMAIN d.undo THEN "Ok" ELSE "ReindexRequired"
        BY <1>1, <1>9, <2>1 DEF Abs!RollbackOutcome
    <2>4. \/ p.result = "Ok" /\ Undone(d, p.tables, tip - target)
          \/ p.result = "ReindexRequired" /\ ~ (target + 1 .. tip \subseteq DOMAIN d.undo)
        BY <1>1, <1>9, InvFacts, RolledBackIs
    <2> HIDE DEF p
    <2>5. CASE p.result = "ReindexRequired" /\ ~ (target + 1 .. tip \subseteq DOMAIN d.undo)
        <3>1. StoreInv' /\ Abs!Fail("ReindexRequired")
            BY <2>2, <2>5, AbortStep DEF Finish
        <3> QED BY <1>5, <2>3, <2>5, <3>1
    <2>6. CASE p.result = "Ok" /\ Undone(d, p.tables, tip - target)
        <3>1. Commit(t, TRUE)
            BY <2>2, <2>6 DEF Finish
        <3> HIDE DEF t
        <3>2. tip - (tip - target) = target /\ tip - (tip - target) + 1 = target + 1
            BY <1>1
        <3>3. /\ TablesInv(t) /\ IndexedHeight(t) = target
              /\ Chain(t) = SubSeq(Chain(d), 1, target)
              /\ target + 1 .. tip \subseteq DOMAIN d.undo
              /\ DOMAIN t.undo = DOMAIN d.undo \ (target + 1 .. tip)
              /\ t.genesisSeeded = d.genesisSeeded
              /\ t.registerIdx \subseteq d.registerIdx
            BY <2>6, <3>2 DEF Undone, t
        <3>4. Roomy(t)
            <4>1. /\ Cardinality(t.registerIdx) \in Nat /\ Cardinality(d.registerIdx) \in Nat
                  /\ Cardinality(t.registerIdx) <= Cardinality(d.registerIdx)
                BY <3>3, InvFacts, FS_Subset, FS_CardinalityType
            <4>2. d.registerIdx = {} => t.registerIdx = {}
                BY <3>3
            <4>3. Roomy(d)
                BY InvFacts
            <4>4. Ceiling # NoRow => Ceiling \in Nat
                BY CeilingAssumption
            <4> QED BY <4>1, <4>2, <4>3, <4>4 DEF Roomy
        <3>5. StoreInv' /\ Abs!CommitImmediate(Advanced(db, t))
            BY <3>1, <3>3, <3>4, CommitStep
        <3>6. Abs!Truncate(a, target) = Advanced(db, t)
            <4> DEFINE keys == {"chain", "undo", "seeded", "peak"}
                       e == Abs!Truncate(a, target)
                       f == Advanced(db, t)
            <4>1. e = [a EXCEPT !.chain = SubSeq(a.chain, 1, target),
                                !.undo  = a.undo \ (target + 1 .. tip)]
                BY <1>1 DEF Abs!Truncate
            <4> HIDE DEF e
            <4>2. /\ e = [k \in keys |-> e[k]]
                  /\ e.chain = SubSeq(a.chain, 1, target)
                  /\ e.undo = a.undo \ (target + 1 .. tip)
                  /\ e.seeded = a.seeded /\ e.peak = a.peak
                BY <1>2, <4>1
            <4>3. ~ IndexedHeight(t) > db.peak
                BY <1>1, <1>9, <3>3, InvFacts
            <4>4. /\ f = [k \in keys |-> f[k]]
                  /\ f.chain = Chain(t) /\ f.undo = DOMAIN t.undo
                  /\ f.seeded = t.genesisSeeded /\ f.peak = db.peak
                BY <4>3 DEF Advanced
            <4> HIDE DEF f
            <4>5. e.chain = f.chain /\ e.undo = f.undo /\ e.seeded = f.seeded /\ e.peak = f.peak
                BY <1>1, <3>3, <4>2, <4>4
            <4>6. \A k \in keys : e[k] = f[k]
                BY <4>5
            <4>7. e = f
                BY <4>2, <4>4, <4>6
            <4> QED BY <4>7 DEF e, f
        <3>7. Abs!RollbackOutcome(a, target) = "Ok"
            BY <2>3, <3>3
        <3> QED BY <1>1, <1>5, <2>1, <3>5, <3>6, <3>7
    <2> QED BY <2>4, <2>5, <2>6
<1> QED BY <1>1, <1>3, <1>6, <1>7, <1>8, <1>9

LEMMA AuxiliaryCommitStep ==
    ASSUME StoreInv, AuxiliaryCommit
    PROVE  StoreInv' /\ Abs!AuxiliaryCommit
<1> DEFINE d == db.tables
<1>1. ~ IndexedHeight(d) > db.peak
    BY InvFacts
<1>2. Advanced(db, d) = Abstraction(db)
    BY <1>1 DEF Advanced, Abstraction
<1>3. StoreInv' /\ Abs!CommitImmediate(Advanced(db, d))
    <2>1. Commit(d, TRUE)
        BY Zenon DEF AuxiliaryCommit
    <2> QED BY <2>1, InvFacts, CommitStep
<1> QED BY <1>2, <1>3 DEF Abs!AuxiliaryCommit

LEMMA CrashAndOpenStep ==
    ASSUME StoreInv, CrashAndOpen
    PROVE  StoreInv' /\ Abs!CrashAndOpen
<1> DEFINE d == disk.tables
           a == Abstraction(disk)
<1>1. /\ db' = disk /\ disk' = disk
      /\ outcome' = IF OpenRefused(d) THEN "Refused" ELSE "Opened"
    BY DEF CrashAndOpen
<1>2. StoreInv'
    BY <1>1 DEF StoreInv
<1>3. /\ HeadersSound(d) /\ Roomy(d) /\ IsFiniteSet(d.registerIdx)
    BY DEF StoreInv, DatabaseInv, TablesInv
<1>4. /\ IndexedHeight(d) \in Nat /\ Len(Chain(d)) = IndexedHeight(d)
      /\ d.headers = <<>> <=> IndexedHeight(d) = 0
    BY <1>3, ChainOf
<1>5. Chain(d) # <<>> => IndexedHeight(d) > 0
    BY <1>3, <1>4, EmptySeq DEF HeadersSound
<1>6. ~ (Ceiling # NoRow /\ Cardinality(d.registerIdx) > Ceiling)
    <2>1. Cardinality(d.registerIdx) \in Nat
        BY <1>3, FS_CardinalityType
    <2>2. d.registerIdx = {} => Cardinality(d.registerIdx) = 0
        BY FS_EmptySet
    <2>3. Ceiling # NoRow => Ceiling \in Nat
        BY CeilingAssumption
    <2> QED BY <1>3, <2>1, <2>2, <2>3 DEF Roomy
<1>7. ~ OpenRefused(d)
    BY <1>3, <1>4, <1>6 DEF OpenRefused, HeadersSound
<1>8. Abs!Openable(a)
    <2>1. a.chain = Chain(d) /\ a.seeded = d.genesisSeeded
        BY DEF Abstraction
    <2> QED BY <1>3, <1>5, <2>1 DEF Abs!Openable, HeadersSound
<1>9. /\ Abstraction(db)' = a /\ Abstraction(disk)' = a
    BY <1>1
<1> QED BY <1>1, <1>2, <1>7, <1>8, <1>9 DEF Abs!CrashAndOpen

(* Empty tables are sound.                                                 *)
LEMMA NoTablesSound ==
    /\ TablesInv(NoTables) /\ Roomy(NoTables)
    /\ IndexedHeight(NoTables) = 0 /\ Chain(NoTables) = <<>>
<1> DEFINE d == NoTables
<1>1. /\ DOMAIN d = TableKeys
      /\ d.headers = <<>> /\ d.undo = <<>> /\ d.boxes = <<>> /\ d.txs = <<>>
      /\ d.genesisSeeded = FALSE /\ d.registerIdx = {}
    BY DEF NoTables, TableKeys
<1> HIDE DEF d
<1>2. DOMAIN d.headers = {} /\ DOMAIN d.undo = {} /\ DOMAIN d.boxes = {} /\ DOMAIN d.txs = {}
    BY <1>1
<1>3. IndexedHeight(d) = 0
    BY <1>2, FS_EmptySet DEF IndexedHeight
<1>4. Chain(d) = <<>>
    BY <1>3, <1>2 DEF Chain, IndexedHeight
<1>5. HeadersSound(d)
    <2>1. d.headers = [h \in 1..0 |-> d.headers[h]]
        BY <1>1
    <2>2. <<>> \in Seq(Block) /\ 1..Len(<<>>) = {}
        OBVIOUS
    <2>3. Abs!Linked(<<>>)
        BY <2>2 DEF Abs!Linked
    <2>4. Abs!Linked(Chain(d)) /\ Chain(d) \in Seq(Block)
        BY <1>4, <2>2, <2>3
    <2>5. d.headers = [h \in 1..IndexedHeight(d) |-> d.headers[h]]
        BY <1>3, <2>1
    <2>6. d.genesisSeeded = FALSE
        BY <1>1
    <2>7. IndexedHeight(d) \in Nat /\ ~ IndexedHeight(d) > 0
        BY <1>3
    <2>8. d.genesisSeeded \in BOOLEAN
        BY <2>6
    <2> QED BY <2>4, <2>5, <2>7, <2>8, Zenon DEF HeadersSound
<1>6. MadeBy(d, 0) = {} /\ TxsBy(d, 0) = {}
    BY <1>1 DEF MadeBy, TxsBy
<1>7. BoxesSound(d)
    BY <1>2, <1>3, <1>6 DEF BoxesSound
<1>8. UndoSound(d)
    BY <1>2 DEF UndoSound
<1>9. TablesInv(d) /\ Roomy(d)
    BY <1>1, <1>5, <1>7, <1>8, FS_EmptySet DEF TablesInv, Roomy
<1> QED BY <1>3, <1>4, <1>9 DEF d

(* The empty database is sound.                                            *)
LEMMA StoreInit ==
    ASSUME Init
    PROVE  StoreInv /\ Abs!Init
<1> DEFINE d == NoTables
<1>1. d.genesisSeeded = FALSE /\ d.undo = <<>> /\ DOMAIN d.undo = {}
    BY DEF NoTables
<1>2. IndexedHeight(d) = 0 /\ TablesInv(d) /\ Roomy(d) /\ Chain(d) = <<>>
    BY NoTablesSound
<1> HIDE DEF d
<1> DEFINE e == [tables |-> d, peak |-> 0]
<1>3. DOMAIN e = {"tables", "peak"} /\ e.tables = d /\ e.peak = 0
    OBVIOUS
<1>4. db = e /\ disk = e /\ outcome = "Opened"
    BY DEF Init, d
<1> HIDE DEF e
<1>5. StoreInv
    BY <1>2, <1>3, <1>4 DEF StoreInv, DatabaseInv
<1>6. Abstraction(e) = [chain |-> <<>>, undo |-> {}, seeded |-> FALSE, peak |-> 0]
    BY <1>1, <1>2, <1>3, Zenon DEF Abstraction
<1> QED BY <1>4, <1>5, <1>6 DEF Abs!Init, Abs!EmptyDatabase

(* Every step keeps the invariant, and is a step of ChainStore.            *)
LEMMA StoreNext ==
    ASSUME StoreInv, [Next]_vars
    PROVE  StoreInv' /\ [Abs!Next]_(Abs!vars)
<1>1. CASE SeedGenesis
    BY <1>1, SeedGenesisStep DEF Abs!Next
<1>2. CASE RedbError
    BY <1>2, RedbErrorStep DEF Abs!Next
<1>3. ASSUME NEW batch \in Batch, NEW durable \in BOOLEAN, ApplyBatch(batch, durable)
      PROVE  StoreInv' /\ [Abs!Next]_(Abs!vars)
    <2>1. StoreInv' /\ Abs!ApplyBatch(batch, durable)
        BY <1>3, ApplyBatchStep
    <2> QED BY <2>1 DEF Abs!Next
<1>4. ASSUME NEW target \in 0..IndexedHeight(db.tables), RollbackTo(target)
      PROVE  StoreInv' /\ [Abs!Next]_(Abs!vars)
    <2>1. StoreInv' /\ Abs!RollbackTo(target)
        BY <1>4, RollbackToStep
    <2>2. Abs!Tip(Abstraction(db)) = IndexedHeight(db.tables)
        BY InvFacts DEF Abs!Tip, Abstraction
    <2>3. target \in 0..Abs!Tip(Abstraction(db))
        BY <2>2
    <2> QED BY <2>1, <2>3 DEF Abs!Next
<1>5. CASE AuxiliaryCommit
    BY <1>5, AuxiliaryCommitStep DEF Abs!Next
<1>6. CASE CrashAndOpen
    BY <1>6, CrashAndOpenStep DEF Abs!Next
<1>7. CASE UNCHANGED vars
    <2>1. db' = db /\ disk' = disk /\ outcome' = outcome
        BY <1>7 DEF vars
    <2>2. StoreInv'
        BY <2>1 DEF StoreInv
    <2>3. UNCHANGED Abs!vars
        BY <2>1 DEF Abs!vars
    <2> QED BY <2>2, <2>3
<1> QED BY <1>1, <1>2, <1>3, <1>4, <1>5, <1>6, <1>7 DEF Next

(* The invariant of the store with all its tables, whatever blocks, batches, rollbacks *)
(* and crashes: headers are one chain from height 1, BOXES and TXS have the keys of the *)
(* chain's own transactions, and every UNDO row can be undone once the rows above it are. *)
THEOREM StoreTablesInvariant == Spec => []StoreInv
<1>1. Init => StoreInv
    BY StoreInit
<1>2. StoreInv /\ [Next]_vars => StoreInv'
    BY StoreNext
<1> QED BY <1>1, <1>2, PTL DEF Spec

(* A transaction that counts what it is about to add never leaves more register entries *)
(* than the ceiling allows, on disk or in memory: capacity.rs's check comes before the  *)
(* writes of apply_batch and seed_genesis, and rollback_to only removes entries.        *)
THEOREM StoreCapacity == Spec => []CapacityRespected
<1>1. StoreInv => CapacityRespected
    BY DEF StoreInv, DatabaseInv, Roomy, CapacityRespected
<1> QED BY <1>1, StoreTablesInvariant, PTL

(* The store's transactions over all its tables implement the abstract chain store:    *)
(* apply_batch, rollback_to, seed_genesis, the auxiliary commits and open after a crash *)
(* map to its steps, each of them all or nothing, and rollback_to never finds a stored  *)
(* row corrupt.                                                                         *)
THEOREM StoreImplementsChainStore == Spec => ImplementsChainStore
<1>1. Init => Abs!Init
    BY StoreInit
<1>2. StoreInv /\ [Next]_vars => [Abs!Next]_(Abs!vars)
    BY StoreNext
<1> QED BY <1>1, <1>2, StoreTablesInvariant, PTL DEF Spec, ImplementsChainStore, Abs!Spec
=============================================================================
