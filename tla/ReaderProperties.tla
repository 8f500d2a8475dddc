-------------------------- MODULE ReaderProperties --------------------------
(***************************************************************************)
(* What a client that turns every page sees: each listing of Readers, read *)
(* to its end in one snapshot, against the ledger of StoreProperties.      *)
(***************************************************************************)
EXTENDS StoreProperties, History, Rent, Activity, Sweep

CONSTANTS
    PageSize,   \* the page sizes a client may ask for
    RentWindow, \* the windows of the rent schedule, in blocks
    RentFilter  \* its filters

Dir == {"asc", "desc"}

(* All pages of a listing, from None until a page names no next cursor; at *)
(* most one page more than there are rows.                                 *)
PageThrough(page(_), rows) ==
    LET walk[i \in 0..rows] ==
            IF i = 0 THEN page(NoRow)
            ELSE LET w == walk[i - 1]
                 IN  IF w.next = NoRow THEN w
                     ELSE [page(w.next) EXCEPT !.items = w.items \o @]
    IN  walk[rows]

Reads(page(_), expected) ==
    LET all == PageThrough(page, Len(expected))
    IN  all.next = NoRow /\ ~ all.corrupt /\ all.items = expected

ReadsBothWays(page(_, _, _), expected) ==
    \A limit \in PageSize : \A dir \in Dir :
        Reads(LAMBDA c : page(c, limit, dir),
              IF dir = "asc" THEN expected ELSE Reverse(expected))

(* The ids of the boxes, or of the transactions, with these numbers.       *)
CreatedIds(l, ks) ==
    LET seq == SelectSeq([k \in DOMAIN l.created |-> k], LAMBDA k : k \in ks)
    IN  [i \in DOMAIN seq |-> l.created[seq[i]].id]

PlacedIds(l, ks) ==
    LET seq == SelectSeq([k \in DOMAIN l.placed |-> k], LAMBDA k : k \in ks)
    IN  [i \in DOMAIN seq |-> l.placed[seq[i]].id]

(* Boxes by tree, token, template and register, all of them or the unspent *)
(* ones, in creation order.                                                *)
BoxListingsExact(l) ==
    LET all == DOMAIN l.created
        exact(pages(_, _, _, _), mine) ==
            \A unspent \in BOOLEAN :
                ReadsBothWays(LAMBDA c, n, dir : pages(unspent, c, n, dir),
                              CreatedIds(l, IF unspent THEN mine \cap l.utxo ELSE mine))
    IN  /\ \A tree \in DOMAIN Template :
              LET mine == {k \in all : l.created[k].tree = tree}
              IN  /\ exact(LAMBDA u, c, n, dir : TreeBoxes(T, tree, u, c, n, dir), mine)
                  /\ HistoryCandidates(T, tree, NoRow, FALSE).items = CreatedIds(l, mine)
        /\ \A m \in Range(Template) :
              exact(LAMBDA u, c, n, dir : TemplateBoxes(T, m, u, c, n, dir),
                    {k \in all : Template[l.created[k].tree] = m})
        /\ \A t \in TokensSeen(l) :
              exact(LAMBDA u, c, n, dir : TokenBoxes(T, t, u, c, n, dir),
                    {k \in all : BagIn(t, l.created[k].tokens)})
        /\ \A r \in UNION {l.created[k].registers : k \in all} :
              ReadsBothWays(LAMBDA c, n, dir : BoxesByRegister(T, r[1], r[2], c, n, dir),
                            CreatedIds(l, {k \in all : r \in l.created[k].registers}))

(* Transactions: of the chain, of a tree, of a block, and their outputs.   *)
TxListingsExact(l) ==
    LET all == DOMAIN l.placed
        chain == Chain(T)
    IN  /\ ReadsBothWays(LAMBDA c, n, dir : TxsByGidx(T, c, NoRow, n, dir), PlacedIds(l, all))
        /\ \A tree \in DOMAIN Template :
              ReadsBothWays(LAMBDA c, n, dir : TreeTxs(T, tree, c, NoRow, n, dir),
                            PlacedIds(l, TxsTouching(l, tree)))
        /\ \A h \in DOMAIN chain :
              LET ids == [i \in DOMAIN Txs[chain[h]] |-> Txs[chain[h]][i].id]
              IN  /\ ReadsBothWays(LAMBDA c, n, dir : TxsInBlockPage(T, h, c, n, dir), ids)
                  /\ TxsInBlock(T, h).items = ids
        /\ \A k \in all :
              LET tx == l.placed[k]
                  ids == [i \in DOMAIN tx.outputs |-> tx.outputs[i].id]
              IN  /\ BoxesOfTx(T, tx.id).items = ids
                  /\ \A i \in DOMAIN ids : OutputId(T, tx.id, i - 1).items = <<ids[i]>>
        /\ \A n \in PageSize :
              LET newest == HeadersDesc(T, NoRow, n).items
              IN  newest = SubSeq(Reverse(chain), 1, Min({n, Len(chain)}))
        /\ \A h \in DOMAIN chain :
              HeightOfHeader(T, chain[h]) = [height |-> h, corrupt |-> FALSE]

(* A ranking lists the pairs <<hash, number>> once each, highest first.    *)
Ranks(page(_, _), pairs) ==
    \A n \in PageSize :
        LET all == PageThrough(LAMBDA c : page(c, n), Cardinality(pairs))
            above(p, q) == p[2] > q[2] \/ (p[2] = q[2] /\ Rank[p[1]] > Rank[q[1]])
        IN  /\ all.next = NoRow /\ ~ all.corrupt
            /\ Range(all.items) = pairs
            /\ \A i \in 1..(Len(all.items) - 1) : above(all.items[i], all.items[i + 1])

RankingsExact(l) ==
    LET value(tree) == MapThenSumSet(LAMBDA k : l.created[k].value, UtxoOf(l, tree))
        held(t, tree) == AmountOn(l, UtxoOf(l, tree), t)
        trees == TreesSeen(l)
    IN  /\ Ranks(LAMBDA c, n : RichList(T, c, n),
                 {p \in {<<tree, value(tree)>> : tree \in trees} : p[2] > 0})
        /\ \A t \in TokensSeen(l) :
              Ranks(LAMBDA c, n : TokenHolders(T, t, c, n),
                    {p \in {<<tree, held(t, tree)>> : tree \in trees} : p[2] > 0})
        /\ \A n \in PageSize :
              LET byHolders == PageThrough(LAMBDA c : TokensByHolders(T, c, n), 4)
                  newest    == PageThrough(LAMBDA c : TokensNewest(T, c, n), 4)
              IN  /\ Range(byHolders.items) = TokensSeen(l) \ T.genesisToken
                  /\ Range(newest.items) = TokensSeen(l) \ T.genesisToken
                  /\ ~ byHolders.corrupt /\ ~ newest.corrupt

(* Storage rent: an unspent box is listed from its maturity on, oldest     *)
(* first, by the open list, the bounded interval and the candidate pages.  *)
RentListingsExact(l) ==
    LET maturity(k) == MaturityHeight(l.created[k].creation)
        due(from, to) == {k \in l.utxo : from <= maturity(k) /\ maturity(k) <= to}
        older(i, j) == \/ maturity(i) < maturity(j)
                       \/ maturity(i) = maturity(j) /\ i < j
        listed(ks) == [i \in 1..Cardinality(ks) |->
            l.created[CHOOSE k \in ks : Cardinality({j \in ks : older(j, k)}) = i - 1].id]
        ends == {0} \cup {maturity(k) : k \in l.utxo}
    IN  \A n \in PageSize : \A to \in ends :
            /\ Reads(LAMBDA c : RentEligible(T, to, c, n), listed(due(0, to)))
            /\ \A from \in ends :
                  /\ Reads(LAMBDA c : RentCandidates(T, from, to, c, n), listed(due(from, to)))
                  /\ LET first == RentMaturesRange(T, from, to - from, n)
                         want  == listed(due(from, to - 1))
                     IN  from <= to =>
                            /\ ~ first.corrupt
                            /\ first.items = SubSeq(want, 1, Min({n, Len(want)}))

(* A client turning the pages of any listing, in either direction and with *)
(* any page size, sees every row of the ledger exactly once and in order,  *)
(* and no reader ever finds a dangling index row (StoreError::Corrupt):    *)
(* the cursor arithmetic of read.rs and read_tokens.rs over tables that    *)
(* batches, rollbacks and crashes left behind.                             *)
ReadersExact ==
    LET l == L
    IN  /\ BoxListingsExact(l)
        /\ TxListingsExact(l)
        /\ RankingsExact(l)
        /\ RentListingsExact(l)
        /\ \A k \in DOMAIN l.created :
              ~ TokenNames(T, SetToSeq(BagToSet(l.created[k].tokens))).corrupt
        /\ MainnetGenesis(T) = T.genesisSeeded

-----------------------------------------------------------------------------
(* What the ledger says an address held after the block at a height.       *)
LedgerBalance(l, tree) ==
    LET mine == UtxoOf(l, tree)
    IN  [nano  |-> MapThenSumSet(LAMBDA k : l.created[k].value, mine),
         count |-> Cardinality(mine),
         tokens |-> FoldSet(LAMBDA k, b : b (+) l.created[k].tokens, EmptyBag, mine)]

(* No table keeps the past, and still the balance of an address at any     *)
(* height, by the row at the tip and by the scan below it, and the two     *)
(* ends of a comparison, are what a ledger cut off at that height says,    *)
(* unless the answer is refused for its work.                              *)
PastBalancesExact ==
    LET chain == Chain(T)
        heights == 0..Len(chain)
        at == [h \in heights |-> Ledger(SubSeq(chain, 1, h))]
        right(answer, want) == answer = <<Exhausted>> \/ answer = <<"ok">> \o want
    IN  T.genesisSeeded =>
          \A tree \in DOMAIN Template : \A h \in heights :
              /\ right(BalanceAt(T, tree, h), <<LedgerBalance(at[h], tree)>>)
              /\ \A from \in 0..h :
                    right(CompareBalances(T, tree, from, h),
                          <<LedgerBalance(at[from], tree), LedgerBalance(at[h], tree)>>)

GenesisHeld(tree, amount(_)) ==
    MapThenSumSet(LAMBDA i : amount(Genesis[i]),
                  {i \in DOMAIN Genesis : Genesis[i].tree = tree})

(* An address's activity, read to its end, adds up: what it held at        *)
(* genesis and all its changes, coin and token, are what it holds; and the *)
(* transactions the time windows and directions divide between them are    *)
(* all of them, each in one.                                               *)
ActivityExact ==
    LET any(t) == [asset |-> t, direction |-> "any"] @@ AnyTime
        parts  == {[asset |-> "all", direction |-> way, from |-> w[1], to |-> w[2]] :
                      way \in {"received", "sent", "mixed", "neutral"},
                      w \in {<<0, 2>>, <<2, GidxSpace>>}}
        assets == {"all"} \cup TokensSeen(L)
    IN  \A tree \in DOMAIN T.treeBalance : \A limit \in PageSize : \A dir \in Dir :
        \A read \in {[f \in parts \cup {any(t) : t \in assets} |->
                          PageThrough(LAMBDA c : ActivityPage(T, tree, f, c, NoRow, limit, dir),
                                      2 * Cardinality(T.treeTxs))]} :
            LET all == read[any("all")]
                sum(items, change(_)) == MapThenSumSet(LAMBDA i : change(items[i]), DOMAIN items)
            IN  /\ all.next = NoRow /\ ~ all.corrupt
                /\ GenesisHeld(tree, LAMBDA o : o.value) + sum(all.items, LAMBDA i : i.nano)
                      = T.treeBalance[tree].nano
                /\ MapThenSumSet(LAMBDA f : Len(read[f].items), parts) = Len(all.items)
                /\ \A t \in TokensSeen(L) :
                      GenesisHeld(tree, LAMBDA o : Copies(t, o.tokens))
                          + sum(read[any(t)].items, LAMBDA i : i.tokens[t])
                        = Copies(t, T.treeBalance[tree].tokens)

(* The past of an address and its activity, each worked out from the boxes *)
(* it ever had, agree with the chain and with the balances the index keeps *)
(* as it goes: history.rs and address_activity.rs over every chain, boxes  *)
(* spent or born in the very block included.                               *)
HistoryExact == PastBalancesExact /\ ActivityExact

-----------------------------------------------------------------------------
(* What the schedule owes a client: the matching boxes that mature within  *)
(* a window after the tip, oldest first.                                   *)
Maturing(l, blocks) ==
    LET tip == IndexedHeight(T)
    IN  {k \in l.utxo : /\ tip < MaturityHeight(l.created[k].creation)
                        /\ MaturityHeight(l.created[k].creation) <= tip + blocks}

DueOf(l, k) ==
    LET box == l.created[k]
        exact == BoxSize[box.id] * RentPerByte
        fee == CHOOSE n \in (0 - IntHalf)..(IntHalf - 1) : (exact - n) % (2 * IntHalf) = 0
    IN  IF fee <= 0 \/ BagIn(Reemission, box.tokens) THEN 0
        ELSE IF fee < box.value THEN fee ELSE box.value

(* Once there is a tip, the rent schedule read page by page lists each     *)
(* matching box of the window once, whatever a page's limit and however    *)
(* many rows its filter passes over, and the overview computed apart from  *)
(* the pages adds up the same boxes and the same fees, in wrapping 32-bit  *)
(* arithmetic, or says it is incomplete; every unspent box is either       *)
(* eligible or still to mature; an address's rent is truncated or complete *)
(* (rent.rs, addresses.rs).                                                *)
RentViewsExact ==
    LET l == L
        tip == IndexedHeight(T)
        picked(blocks, f) == {k \in Maturing(l, blocks) : Matches(T, l.created[k].id, f)}
        idsOf(ks) == {l.created[k].id : k \in ks}
    IN  /\ ScheduleUnavailable(T) \/
           \A blocks \in RentWindow, f \in RentFilter : \A want \in {picked(blocks, f)} :
              /\ \A n \in PageSize :
                 \A walk \in {PageThrough(LAMBDA c : SchedulePage(T, blocks, f, c, n),
                                         Len(l.created))} :
                    /\ walk.next = NoRow /\ ~ walk.corrupt
                    /\ Range(walk.items) = idsOf(want)
                    /\ Len(walk.items) = Cardinality(want)
              /\ \A patience \in 0..4 : \A o \in {Overview(T, blocks, f, patience)} :
                    /\ ~ o.corrupt
                    /\ o.complete =>
                      /\ MapThenSumSet(LAMBDA h : o.hours[h].boxes, DOMAIN o.hours)
                            = Cardinality(want)
                      /\ MapThenSumSet(LAMBDA h : o.hours[h].due, DOMAIN o.hours)
                            = MapThenSumSet(LAMBDA k : DueOf(l, k), want)
        /\ \A n \in PageSize, blocks \in RentWindow : \A up \in {Upcoming(T, blocks, n)} :
              up.complete => Range(up.items) = idsOf(Maturing(l, blocks))
        /\ idsOf(l.utxo) =
              idsOf(Maturing(l, 100)) \cup
              Range(PageThrough(LAMBDA c : Eligible(T, c, 2), Len(l.created)).items)
        /\ \A k \in l.utxo :
              RentOf(T.boxes[l.created[k].id], l.created[k].id, tip).claimable
                <=> k \notin Maturing(l, 100)
        /\ \A tree \in DOMAIN Template : \A mine \in {idsOf(UtxoOf(l, tree))} :
              /\ \A rent \in {AddressRent(T, tree)} : rent.truncated \/ Range(rent.items) = mine
              /\ \A shown \in {Exposure(T, tree)} :
                    /\ shown.truncated <=> Cardinality(mine) > RentScanCap
                    /\ ~ shown.corrupt
                    /\ Range(shown.items) \subseteq mine

-----------------------------------------------------------------------------
(* The integrity sweep of any store the program can leave behind, crashed  *)
(* ones included, reports nothing but the assets the chain spec issued,    *)
(* which have no TOKENS row: no index row, creator, example tree, ranked   *)
(* amount or undo row ever points at what is not there, an undo row's own  *)
(* same-block boxes and the previous rows it will restore included.        *)
SweepClean ==
    \A d \in {db.tables, disk.tables} :
        Findings(d) \subseteq Fail("R11", d.genesisToken)
=============================================================================
