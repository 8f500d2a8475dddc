------------------------------ MODULE Activity ------------------------------
(***************************************************************************)
(* What each transaction moved at an address (xp-api address_activity.rs): *)
(* the signed change of its value and of every token its boxes there       *)
(* carry, worked out from the boxes, filtered, and paged with a bound on   *)
(* the transactions one page may pass over.                                *)
(*                                                                         *)
(* A block's height stands for its timestamp.  The response budget, which  *)
(* refuses a page as a whole, is left out, and so are stores with a gap at *)
(* the start, whose unresolved inputs make a direction "unknown".          *)
(***************************************************************************)
EXTENDS Readers

CONSTANT ActivityScanLimit      \* SCAN_LIMIT

(* A filter: an asset ("all", "erg" or a token), a direction or "any", and *)
(* the times from..to-1.                                                   *)
AnyTime == [from |-> 0, to |-> GidxSpace]

InputsOf(d, tx) == Range(d.txs[tx].inputs)

OutputsAt(d, tx) ==
    {OutputId(d, tx, i).items[1] : i \in 0..(d.txs[tx].outputCount - 1)}

(* The tokens the address's side of the transaction carries, moved or not. *)
Touched(d, tree, tx) ==
    UNION {BagToSet(d.boxes[id].tokens) :
        id \in {i \in InputsOf(d, tx) \cup OutputsAt(d, tx) : d.boxes[i].tree = tree}}

(* accumulate: outputs count for the address, inputs against it. *)
Deltas(d, tree, tx) ==
    LET mine(ids) == {id \in ids : d.boxes[id].tree = tree}
        value(ids) == MapThenSumSet(LAMBDA id : d.boxes[id].value, mine(ids))
        amount(t, ids) == MapThenSumSet(LAMBDA id : Copies(t, d.boxes[id].tokens), mine(ids))
    IN  [nano   |-> value(OutputsAt(d, tx)) - value(InputsOf(d, tx)),
         tokens |-> [t \in Touched(d, tree, tx) |->
                        amount(t, OutputsAt(d, tx)) - amount(t, InputsOf(d, tx))]]

Direction(values) ==
    LET way == [s \in SUBSET {"received", "sent"} |->
                   CASE s = {"received", "sent"} -> "mixed"
                     [] s = {} -> "neutral"
                     [] OTHER -> CHOOSE w \in s : TRUE]
    IN  way[{IF v > 0 THEN "received" ELSE "sent" : v \in values \ {0}}]

(* Every input names this transaction as its spender, every output as its  *)
(* creator; anything else is an integrity error.                           *)
ActivitySound(d, tx) ==
    /\ \A id \in InputsOf(d, tx) :
          id \in DOMAIN d.boxes /\ d.boxes[id].spent = <<tx, d.txs[tx].height>>
    /\ ~ \E i \in 0..(d.txs[tx].outputCount - 1) : OutputId(d, tx, i).corrupt
    /\ \A id \in OutputsAt(d, tx) : id \in DOMAIN d.boxes /\ d.boxes[id].tx = tx

DirectionFor(delta, asset) ==
    Direction(CASE asset = "all" -> {delta.nano} \cup Range(delta.tokens)
                [] asset = "erg" -> {delta.nano}
                [] OTHER -> {delta.tokens[asset]})

(* project: the item a transaction becomes, if the filter lets it. *)
Project(d, tree, tx, filter) ==
    LET delta == Deltas(d, tree, tx)
        named == filter.asset \notin {"all", "erg"}
        wanted == \/ filter.direction = "any"
                  \/ filter.direction = DirectionFor(delta, filter.asset)
    IN  IF named /\ filter.asset \notin DOMAIN delta.tokens THEN <<>>
        ELSE IF ~ wanted THEN <<>>
        ELSE <<[tx |-> tx, nano |-> delta.nano, tokens |-> delta.tokens,
                direction |-> DirectionFor(delta, filter.asset)]>>

InWindow(d, tx, filter) ==
    filter.from <= d.txs[tx].height /\ d.txs[tx].height < filter.to

(* One turn of list's loop: pages of one transaction, until the page is    *)
(* full, the scan limit is met, or there is no transaction left.           *)
ActivityStep(d, tree, filter, limit, page, gidx) ==
    LET tx    == TxIdAt(d, gidx)
        items == IF InWindow(d, tx, filter) THEN page.items \o Project(d, tree, tx, filter)
                                            ELSE page.items
    IN  IF page.stopped THEN page
        ELSE [items |-> items, next |-> gidx, scanned |-> page.scanned + 1,
              stopped |-> \/ Len(items) >= limit
                          \/ page.scanned + 1 >= ActivityScanLimit]

ActivityPage(d, tree, filter, cursor, end, limit, dir) ==
    LET keys == Remaining(GidxsUnder(d.treeTxs, tree), cursor, end, dir)
        walk == FoldLeft(LAMBDA p, g : ActivityStep(d, tree, filter, limit, p, g),
                         [items |-> <<>>, next |-> NoRow, scanned |-> 0, stopped |-> FALSE],
                         Scan(keys, ActivityScanLimit, dir))
    IN  IF \E g \in keys : ~ TxSound(d, g) \/ ~ ActivitySound(d, TxIdAt(d, g)) THEN FailedPage
        ELSE [items |-> walk.items, corrupt |-> FALSE,
              next |-> IF walk.stopped THEN walk.next ELSE NoRow]
=============================================================================
