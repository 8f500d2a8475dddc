------------------------------ MODULE History ------------------------------
(***************************************************************************)
(* An address at a past height (xp-api handlers/history.rs): its balance,  *)
(* its balance at two heights at once, and its boxes page by page.  No     *)
(* table keeps the past; each answer is worked out from the boxes the      *)
(* address ever had, in one snapshot, and names the block it is about.     *)
(*                                                                         *)
(* The response budget (bytes) ends a page before a box as the token cap   *)
(* does, and TokenCap stands for both.  The deadline ends a page after any *)
(* number of boxes, patience; the two scalar endpoints give up instead.    *)
(***************************************************************************)
EXTENDS Readers

CONSTANTS
    TokenCap,       \* TOKEN_CAP
    CandidateCap    \* CANDIDATE_CAP

NoBlock == "none"

Tip(d) == Cardinality(DOMAIN d.headers)

(* A request: the tree, the height, the block the client insists on (or    *)
(* NoBlock) and the anchor of its cursor (or <<>>).                        *)
AnchorAt(d, h) == [height |-> h, block |-> IF h = 0 THEN NoBlock ELSE d.headers[h].id]

(* Mutant: the block the cursor was made in is not compared. *)
AnchorHeightOnly(d, h, block, cursorAt) ==
    IF ~ MainnetGenesis(d) THEN "history_unavailable"
    ELSE IF h > Tip(d)
         THEN IF cursorAt # <<>> THEN "snapshot_changed" ELSE "height_not_indexed"
    ELSE IF block # NoBlock /\ AnchorAt(d, h).block # block THEN "snapshot_changed"
    ELSE "ok"

(* anchor and canonical_anchor. *)
Anchor(d, h, block, cursorAt) ==
    IF ~ MainnetGenesis(d) THEN "history_unavailable"
    ELSE IF h > Tip(d)
         THEN IF cursorAt # <<>> THEN "snapshot_changed" ELSE "height_not_indexed"
    ELSE IF \/ block # NoBlock /\ AnchorAt(d, h).block # block
            \/ cursorAt # <<>> /\ AnchorAt(d, h) # cursorAt
         THEN "snapshot_changed"
    ELSE "ok"

(* Scan::birth: a box of genesis was there at 0, any other at its creator. *)
Birth(d, row) == IF row.tx = "genesis" THEN 0 ELSE d.txs[row.tx].height

SpentBy(row, h) == row.spent # Unspent /\ row.spent[2] <= h

(* Mutant: a box spent in the very block still counts. *)
PresentAfter(d, row, h) ==
    Birth(d, row) <= h /\ ~ (row.spent # Unspent /\ row.spent[2] < h)

Present(d, row, h) == Birth(d, row) <= h /\ ~ SpentBy(row, h)

-----------------------------------------------------------------------------
(* Balances. *)

NoBalance == [nano |-> 0, count |-> 0, tokens |-> EmptyBag]

Exhausted == "history_scan_limit"

(* Accumulator::add, over the boxes present at h. *)
SumPresent(d, ids, h) ==
    FoldLeft(LAMBDA acc, id :
                LET row == d.boxes[id]
                IN  IF ~ Present(d, row, h) THEN acc
                    ELSE [nano |-> acc.nano + row.value, count |-> acc.count + 1,
                          tokens |-> acc.tokens (+) row.tokens],
             NoBalance, ids)

(* The token entries the boxes present at h make the scan add up. *)
TokenWork(d, ids, h) ==
    FoldLeft(LAMBDA n, id : n + IF Present(d, d.boxes[id], h)
                                THEN Cardinality(BagToSet(d.boxes[id].tokens)) ELSE 0,
             0, ids)

(* balance: at the tip from the tree's row, below it by a scan. *)
BalanceAt(d, tree, h) ==
    LET scan == HistoryCandidates(d, tree, NoRow, FALSE)
        row  == d.treeBalance[tree]
    IN  IF h = Tip(d)
        THEN IF tree \in DOMAIN d.treeBalance
             THEN IF Cardinality(BagToSet(row.tokens)) > TokenCap THEN <<Exhausted>>
                  ELSE <<"ok", [nano |-> row.nano, count |-> row.boxCount,
                                tokens |-> row.tokens]>>
             ELSE IF tree \in d.ergoTrees THEN <<"integrity">> ELSE <<"ok", NoBalance>>
        ELSE IF scan.corrupt THEN <<"integrity">>
        ELSE IF \/ Len(scan.items) > CandidateCap
                \/ TokenWork(d, scan.items, h) > TokenCap
             THEN <<Exhausted>>
        ELSE <<"ok", SumPresent(d, scan.items, h)>>

(* compare_balances: both ends in one walk, whose budget they share. *)
CompareBalances(d, tree, from, to) ==
    LET scan == HistoryCandidates(d, tree, NoRow, FALSE)
    IN  IF scan.corrupt THEN <<"integrity">>
        ELSE IF \/ Len(scan.items) > CandidateCap
                \/ TokenWork(d, scan.items, from) + TokenWork(d, scan.items, to) > TokenCap
             THEN <<Exhausted>>
        ELSE <<"ok", SumPresent(d, scan.items, from), SumPresent(d, scan.items, to)>>

-----------------------------------------------------------------------------
(* One page of the boxes at a height.                                      *)

NewPage(after) == [items |-> <<>>, last |-> after, more |-> FALSE,
                   examined |-> 0, tokens |-> 0, refused |-> FALSE]

(* Mutant: a box passed over does not move the cursor. *)
VisitBoxStuck(p, d, id, h, limit, patience) ==
    LET row   == d.boxes[id]
        carry == Cardinality(BagToSet(row.tokens))
        seen  == [p EXCEPT !.examined = @ + 1]
    IN  IF p.examined = patience \/ Len(p.items) = limit THEN [p EXCEPT !.more = TRUE]
        ELSE IF ~ Present(d, row, h) THEN seen
        ELSE IF carry > TokenCap THEN [p EXCEPT !.refused = TRUE]
        ELSE IF p.tokens + carry > TokenCap THEN [p EXCEPT !.more = TRUE]
        ELSE [seen EXCEPT !.items = Append(@, id), !.tokens = @ + carry, !.last = row.gidx]

(* The visitor: stop before the box when the page is full, pass over a box *)
(* that is not there at h, refuse one that no page could hold.             *)
VisitBox(p, d, id, h, limit, patience) ==
    LET row   == d.boxes[id]
        carry == Cardinality(BagToSet(row.tokens))
        seen  == [p EXCEPT !.examined = @ + 1, !.last = row.gidx]
    IN  IF p.examined = patience \/ Len(p.items) = limit THEN [p EXCEPT !.more = TRUE]
        ELSE IF ~ Present(d, row, h) THEN seen
        ELSE IF carry > TokenCap THEN [p EXCEPT !.refused = TRUE]
        ELSE IF p.tokens + carry > TokenCap THEN [p EXCEPT !.more = TRUE]
        ELSE [seen EXCEPT !.items = Append(@, id), !.tokens = @ + carry]

(* At the tip the walk is over the unspent boxes only. *)
BoxesAt(d, tree, h, after, limit, patience) ==
    LET scan == HistoryCandidates(d, tree, after, h = Tip(d))
        page == FoldLeft(LAMBDA p, id : IF p.more \/ p.refused THEN p
                                        ELSE VisitBox(p, d, id, h, limit, patience),
                         NewPage(after), scan.items)
    IN  [page EXCEPT !.refused = @ \/ scan.corrupt]
=============================================================================
