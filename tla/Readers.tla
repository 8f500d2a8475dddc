------------------------------ MODULE Readers ------------------------------
(***************************************************************************)
(* What a Reader (xp-store read.rs and read_tokens.rs) answers from one    *)
(* snapshot of the tables: the pagers over the indexes, with their         *)
(* cursors, and the checks that turn a dangling row into Corrupt.          *)
(*                                                                         *)
(* redb orders keys as big-endian bytes, that is, as numbers: a key of two *)
(* parts is modelled as the number its bytes spell, with HashSpace and     *)
(* GidxSpace for 2^256 and 2^64.  A cursor is such a number, NoRow for     *)
(* None.  The admission of rows before they are decoded is left out, and   *)
(* so is the width check of a key (the tables hold whole keys).            *)
(***************************************************************************)
EXTENDS Indexes

CONSTANTS
    Rank,       \* the place of each hash among the hashes, from 0
    GidxSpace   \* more than any gidx

HashSpace == Cardinality(DOMAIN Rank)

KRich(nano, tree) == nano * HashSpace + Rank[tree]      \* and k_by_count
KRent(height, gidx) == height * GidxSpace + gidx

HashAt(key) == CHOOSE h \in DOMAIN Rank : Rank[h] = key % HashSpace

Ascending(keys) ==
    [i \in 1..Cardinality(keys) |->
        CHOOSE k \in keys : Cardinality({j \in keys : j < k}) = i - 1]

(* The first keys a range scan in this direction yields. *)
Scan(keys, limit, dir) ==
    LET all == IF dir = "asc" THEN Ascending(keys) ELSE Reverse(Ascending(keys))
    IN  SubSeq(all, 1, Min({limit, Len(all)}))

EmptyPage  == [items |-> <<>>, next |-> NoRow, corrupt |-> FALSE]
FailedPage == [EmptyPage EXCEPT !.corrupt = TRUE]

(* The items behind the scanned keys, and the last key when more is true;  *)
(* one key that does not resolve fails the page.                           *)
PageOf(scan, more, sound(_), item(_)) ==
    IF \E k \in Range(scan) : ~ sound(k) THEN FailedPage
    ELSE [items   |-> [i \in DOMAIN scan |-> item(scan[i])],
          next    |-> IF more THEN Last(scan) ELSE NoRow,
          corrupt |-> FALSE]

(* A page that came back full names its last key as the next cursor.       *)
FullPage(scan, limit, sound(_), item(_)) ==
    PageOf(scan, limit > 0 /\ Len(scan) = limit, sound, item)

(* Mutant: the cursor of a descending page is read again. *)
RemainingInclusive(keys, cursor, end, dir) ==
    {k \in keys : /\ end # NoRow => k < end
                  /\ cursor # NoRow => IF dir = "asc" THEN k > cursor ELSE k <= cursor}

(* The range a cursor leaves: above it ascending, below it descending, and *)
(* below the bound end when there is one.                                  *)
Remaining(keys, cursor, end, dir) ==
    {k \in keys : /\ end # NoRow => k < end
                  /\ cursor # NoRow => IF dir = "asc" THEN k > cursor ELSE k < cursor}

PageComposite(keys, cursor, end, limit, dir, sound(_), item(_)) ==
    FullPage(Scan(Remaining(keys, cursor, end, dir), limit, dir), limit, sound, item)

-----------------------------------------------------------------------------
(* Headers. *)

IndexedTip(d) == Cardinality(DOMAIN d.headers)

(* A height up to the tip has a header; above it there is none. *)
HeaderAt(d, h) == IF h \in DOMAIN d.headers THEN <<d.headers[h]>> ELSE <<>>

HeightOfHeader(d, id) ==
    IF id \notin DOMAIN d.headerById THEN [height |-> NoRow, corrupt |-> FALSE]
    ELSE LET h == d.headerById[id]
         IN  [height |-> h,
              corrupt |-> h \notin DOMAIN d.headers \/ d.headers[h].id # id]

HeadersDesc(d, before, limit) ==
    LET below == IF before = NoRow THEN 1..IndexedTip(d)
                 ELSE {h \in 1..IndexedTip(d) : h < before}
    IN  PageOf(Scan(below, limit, "desc"), FALSE,
               LAMBDA h : h \in DOMAIN d.headers, LAMBDA h : d.headers[h].id)

(* A store is full when genesis was seeded (partial stores are left out),  *)
(* and mainnet's when the three genesis boxes are retained as created.     *)
FullHistory(d) == d.genesisSeeded

MainnetGenesis(d) ==
    /\ FullHistory(d)
    /\ \A o \in Range(Genesis) :
          /\ o.id \in DOMAIN d.boxes
          /\ d.boxes[o.id].value = o.value
          /\ d.boxes[o.id].tx = "genesis"

-----------------------------------------------------------------------------
(* Transactions and their outputs. *)

TxSound(d, gidx) ==
    /\ gidx \in DOMAIN d.txByGidx
    /\ d.txByGidx[gidx] \in DOMAIN d.txs
    /\ d.txs[d.txByGidx[gidx]].gidx = gidx

TxIdAt(d, gidx) == d.txByGidx[gidx]

(* The bound of the global listing is the allocation counter. *)
TxsByGidx(d, cursor, end, limit, dir) ==
    IF d.nextTx = NoRow /\ IndexedTip(d) > 0 THEN FailedPage
    ELSE PageComposite(0..(OrZero(d.nextTx) - 1), cursor, end, limit, dir,
                       LAMBDA g : TxSound(d, g), LAMBDA g : TxIdAt(d, g))

(* Unlike the others this page names a next cursor only when the block has *)
(* more, and checks the row against the header's range.                    *)
TxsInBlockPage(d, h, cursor, limit, dir) ==
    IF HeaderAt(d, h) = <<>> THEN EmptyPage
    ELSE LET first == d.headers[h].firstTx
             end   == first + d.headers[h].txCount
             scan  == Scan(Remaining(first..(end - 1), cursor, NoRow, dir), limit, dir)
             more  == /\ scan # <<>>
                      /\ IF dir = "asc" THEN Last(scan) + 1 < end ELSE Last(scan) > first
             sound(g) == /\ TxSound(d, g)
                         /\ d.txs[TxIdAt(d, g)].height = h
                         /\ d.txs[TxIdAt(d, g)].index = g - first
         IN  PageOf(scan, more, sound, LAMBDA g : TxIdAt(d, g))

TxsInBlock(d, h) ==
    IF HeaderAt(d, h) = <<>> THEN EmptyPage
    ELSE PageOf([i \in 1..d.headers[h].txCount |-> d.headers[h].firstTx + i - 1], FALSE,
                LAMBDA g : TxSound(d, g), LAMBDA g : TxIdAt(d, g))

BoxSound(d, gidx) == gidx \in DOMAIN d.boxByGidx /\ d.boxByGidx[gidx] \in DOMAIN d.boxes

BoxIdAt(d, gidx) == d.boxByGidx[gidx]

(* output_id: the i-th output, i from 0. *)
OutputId(d, tx, i) ==
    LET row == d.txs[tx]
        g   == row.firstOut + i
    IN  IF i >= row.outputCount \/ g \notin DOMAIN d.boxByGidx THEN FailedPage
        ELSE [EmptyPage EXCEPT !.items = <<BoxIdAt(d, g)>>]

BoxesOfTx(d, tx) ==
    LET row == d.txs[tx]
    IN  PageOf([i \in 1..row.outputCount |-> row.firstOut + i - 1], FALSE,
               LAMBDA g : BoxSound(d, g) /\ d.boxes[BoxIdAt(d, g)].tx = tx,
               LAMBDA g : BoxIdAt(d, g))

-----------------------------------------------------------------------------
(* The membership indexes.  A pager over (prefix, gidx) keys. *)

GidxsUnder(index, prefix) == {k[2] : k \in {e \in index : e[1] = prefix}}

BoxPage(d, index, prefix, cursor, limit, dir) ==
    PageComposite(GidxsUnder(index, prefix), cursor, NoRow, limit, dir,
                  LAMBDA g : BoxSound(d, g), LAMBDA g : BoxIdAt(d, g))

TreeBoxes(d, tree, unspentOnly, cursor, limit, dir) ==
    BoxPage(d, IF unspentOnly THEN d.treeUnspent ELSE d.treeBoxes,
            tree, cursor, limit, dir)

TokenBoxes(d, token, unspentOnly, cursor, limit, dir) ==
    BoxPage(d, IF unspentOnly THEN d.tokenUnspent ELSE d.tokenBoxes,
            token, cursor, limit, dir)

TemplateBoxes(d, template, unspentOnly, cursor, limit, dir) ==
    BoxPage(d, IF unspentOnly THEN d.templateUnspent ELSE d.templateBoxes,
            template, cursor, limit, dir)

BoxesByRegister(d, reg, value, cursor, limit, dir) ==
    LET index == {<<<<k[1], k[2]>>, k[3]>> : k \in d.registerIdx}
    IN  BoxPage(d, index, <<reg, value>>, cursor, limit, dir)

TreeTxs(d, tree, cursor, end, limit, dir) ==
    PageComposite(GidxsUnder(d.treeTxs, tree), cursor, end, limit, dir,
                  LAMBDA g : TxSound(d, g), LAMBDA g : TxIdAt(d, g))

(* visit_history_candidates: the boxes after a cursor, oldest first, with  *)
(* each row checked against the index; the visitor decides where to stop.  *)
HistoryCandidates(d, tree, after, unspentOnly) ==
    LET index == IF unspentOnly THEN d.treeUnspent ELSE d.treeBoxes
        keys  == Remaining(GidxsUnder(index, tree), after, NoRow, "asc")
        row(g) == d.boxes[BoxIdAt(d, g)]
    IN  PageOf(Ascending(keys), FALSE,
               LAMBDA g : BoxSound(d, g) /\ row(g).gidx = g /\ row(g).tree = tree,
               LAMBDA g : BoxIdAt(d, g))

-----------------------------------------------------------------------------
(* The rankings: highest first, the hash breaking ties. *)

RichList(d, cursor, limit) ==
    LET keys == {KRich(e[1], e[2]) : e \in d.rich}
        sound(k) == /\ HashAt(k) \in DOMAIN d.treeBalance
                    /\ HashAt(k) \in d.ergoTrees
                    /\ d.treeBalance[HashAt(k)].nano = k \div HashSpace
    IN  PageComposite(keys, cursor, NoRow, limit, "desc", sound,
                      LAMBDA k : <<HashAt(k), k \div HashSpace>>)

TokensNewest(d, cursor, limit) ==
    PageComposite(DOMAIN d.tokensByGidx, cursor, NoRow, limit, "desc",
                  LAMBDA g : d.tokensByGidx[g] \in DOMAIN d.tokens,
                  LAMBDA g : d.tokensByGidx[g])

TokensByHolders(d, cursor, limit) ==
    PageComposite({KRich(e[1], e[2]) : e \in d.tokensByHolders},
                  cursor, NoRow, limit, "desc",
                  LAMBDA k : HashAt(k) \in DOMAIN d.tokens, HashAt)

TokenHolders(d, token, cursor, limit) ==
    LET keys == {KRich(e[2], e[3]) : e \in {x \in d.tokenHolders : x[1] = token}}
        sound(k) == /\ HashAt(k) \in d.ergoTrees
                    /\ <<token, HashAt(k)>> \in DOMAIN d.tokenHolderAmt
                    /\ d.tokenHolderAmt[<<token, HashAt(k)>>] = k \div HashSpace
    IN  PageComposite(keys, cursor, NoRow, limit, "desc", sound,
                      LAMBDA k : <<HashAt(k), k \div HashSpace>>)

(* token_names: a token nobody minted is skipped only when the chain spec  *)
(* issued it.                                                              *)
TokenNames(d, ids) ==
    PageOf(SelectSeq(ids, LAMBDA t : t \notin d.genesisToken), FALSE,
           LAMBDA t : t \in DOMAIN d.tokens, LAMBDA t : t)

-----------------------------------------------------------------------------
(* Storage rent: boxes by maturity height. *)

RentRows(d) == {KRent(e[1], e[2]) : e \in d.rentMatures}

RentIdAt(d, key) == (CHOOSE e \in d.rentMatures : KRent(e[1], e[2]) = key)[3]

RentSound(d, key) == RentIdAt(d, key) \in DOMAIN d.boxes

RentLimit == 2000

(* A page of references between two heights, both included; more is shown  *)
(* by one key read beyond the page.                                        *)
RentCandidates(d, from, to, after, limit) ==
    LET keys == {k \in RentRows(d) : /\ KRent(from, 0) <= k
                                     /\ k <= KRent(to, GidxSpace - 1)
                                     /\ after # NoRow => k > after}
    IN  IF limit \notin 1..RentLimit THEN FailedPage
        ELSE PageOf(Scan(keys, limit, "asc"), Cardinality(keys) > limit,
                    LAMBDA k : TRUE, LAMBDA k : RentIdAt(d, k))

RentMaturesRange(d, from, span, limit) ==
    PageOf(Scan({k \in RentRows(d) : KRent(from, 0) <= k /\ k < KRent(from + span, 0)},
                limit, "asc"),
           FALSE, LAMBDA k : RentSound(d, k), LAMBDA k : RentIdAt(d, k))

RentEligible(d, at, cursor, limit) ==
    PageComposite(RentRows(d), cursor, KRent(at + 1, 0), limit, "asc",
                  LAMBDA k : RentSound(d, k), LAMBDA k : RentIdAt(d, k))
=============================================================================
