-------------------------------- MODULE Rent --------------------------------
(***************************************************************************)
(* Storage rent over one snapshot (xp-api handlers/rent.rs, the rent views *)
(* of addresses.rs, xp-types rent.rs): which unspent boxes mature when,    *)
(* what each would pay, the schedule page by page, and its overview.       *)
(*                                                                         *)
(* The calendar is left out: an hour is HourBlocks blocks.  A budget that  *)
(* runs out stops the overview after any number of boxes, patience.        *)
(***************************************************************************)
EXTENDS Readers

CONSTANTS
    BoxSize,        \* the serialized size of each box
    RentPerByte,    \* RENT_PER_BYTE
    IntHalf,        \* 2^31: the i32 fee lies in -IntHalf..IntHalf-1
    Reemission,     \* REEMISSION_TOKEN
    HourBlocks,
    ScanLimit,      \* SCHEDULE_SCAN_LIMIT
    BatchScanLimit, \* BATCH_SCAN_LIMIT
    RentScanCap,    \* RENT_SCAN_CAP
    RentPage        \* the 500 boxes an address's rent is read by

(* Mutant: the fee in unbounded integers. *)
UnboundedFee(size) == size * RentPerByte

(* consensus_storage_fee: a wrapping 32-bit product. *)
ConsensusStorageFee(size) ==
    ((size * RentPerByte + IntHalf) % (2 * IntHalf)) - IntHalf

RentDue(size, value) == Min({size * RentPerByte, value})

(* rent_dto: what every box's own page says of its rent. *)
RentOf(row, id, tip) ==
    [maturity    |-> MaturityHeight(row.creation),
     due         |-> RentDue(BoxSize[id], row.value),
     claimable   |-> row.spent = Unspent /\ tip >= MaturityHeight(row.creation),
     collectible |-> ConsensusStorageFee(BoxSize[id]) > 0]

(* schedule_facts: a re-emission token keeps a box from the rent path. *)
Facts(d, id) ==
    LET row == d.boxes[id]
        fee == ConsensusStorageFee(BoxSize[id])
        collectible == fee > 0 /\ ~ BagIn(Reemission, row.tokens)
    IN  [collectible |-> collectible,
         fullClaim   |-> collectible /\ fee >= row.value,
         due         |-> IF collectible THEN Min({fee, row.value}) ELSE 0]

(* schedule_matches; a filter is a mode and a token, or NoToken. *)
NoToken == "none"

Matches(d, id, filter) ==
    /\ CASE filter.mode = "all" -> TRUE
         [] filter.mode = "collectible" -> Facts(d, id).collectible
         [] filter.mode = "full_claim" -> Facts(d, id).fullClaim
    /\ filter.token # NoToken => BagIn(filter.token, d.boxes[id].tokens)

(* validate_candidate: the index row is about this unspent box. *)
CandidateSound(d, key) ==
    LET id == RentIdAt(d, key)
    IN  /\ id \in DOMAIN d.boxes
        /\ d.boxes[id].spent = Unspent
        /\ KRent(MaturityHeight(d.boxes[id].creation), d.boxes[id].gidx) = key

-----------------------------------------------------------------------------
(* The schedule: boxes maturing in the window of blocks after the tip.     *)

(* schedule_unavailable: without a tip there is none, but a 503. *)
ScheduleUnavailable(d) == IndexedTip(d) = 0

WindowKeys(d, blocks, after) ==
    {k \in RentRows(d) : /\ KRent(IndexedTip(d) + 1, 0) <= k
                         /\ k <= KRent(IndexedTip(d) + blocks, GidxSpace - 1)
                         /\ after # NoRow => k > after}

(* Mutant: filtered rows do not move the cursor. *)
ScheduleStepStuck(d, filter, limit, page, key) ==
    IF Len(page.items) = limit THEN page
    ELSE IF ~ Matches(d, RentIdAt(d, key), filter) THEN [page EXCEPT !.scanned = @ + 1]
    ELSE [page EXCEPT !.scanned = @ + 1, !.last = key,
                      !.items = Append(@, RentIdAt(d, key))]

(* The loop body: rows the filter passes over are scanned all the same.    *)
ScheduleStep(d, filter, limit, page, key) ==
    IF Len(page.items) = limit THEN page
    ELSE [page EXCEPT
            !.scanned = @ + 1, !.last = key,
            !.items = IF Matches(d, RentIdAt(d, key), filter)
                      THEN Append(@, RentIdAt(d, key)) ELSE @]

(* A page of the schedule; a cursor names a row of the window.  More means *)
(* rows not scanned, in this read or beyond it.                            *)
SchedulePage(d, blocks, filter, cursor, limit) ==
    LET keys == WindowKeys(d, blocks, cursor)
        read == Scan(keys, ScanLimit, "asc")
        page == FoldLeft(LAMBDA p, k : ScheduleStep(d, filter, limit, p, k),
                         [items |-> <<>>, scanned |-> 0, last |-> NoRow], read)
        more == page.scanned < Len(read) \/ Cardinality(keys) > ScanLimit
    IN  IF \E k \in Range(SubSeq(read, 1, page.scanned)) : ~ CandidateSound(d, k)
        THEN FailedPage
        ELSE [items |-> page.items, next |-> IF more THEN page.last ELSE NoRow,
              corrupt |-> FALSE]

NoTotals == [boxes |-> 0, due |-> 0, fullClaims |-> 0, fullValue |-> 0, selected |-> 0]

AddTotals(d, id, filter, t) ==
    LET row  == d.boxes[id]
        full == Facts(d, id).fullClaim
    IN  [boxes      |-> t.boxes + 1,
         due        |-> t.due + Facts(d, id).due,
         fullClaims |-> t.fullClaims + (IF full THEN 1 ELSE 0),
         fullValue  |-> t.fullValue + (IF full THEN row.value ELSE 0),
         selected   |-> t.selected + (IF full /\ filter.token # NoToken
                                      THEN Copies(filter.token, row.tokens) ELSE 0)]

(* schedule_batches: totals by the hour over the window, whatever the      *)
(* pages' limit, until the scan limit or a budget stops them; complete     *)
(* only when every row of the window was added.                            *)
Overview(d, blocks, filter, patience) ==
    LET keys  == Ascending(WindowKeys(d, blocks, NoRow))
        count == Min({Len(keys), BatchScanLimit, patience})
        hour(key) == ((key \div GidxSpace) - IndexedTip(d)) \div HourBlocks
        added == FoldLeft(
            LAMBDA hours, k :
                IF ~ Matches(d, RentIdAt(d, k), filter) THEN hours
                ELSE Put(hours, hour(k),
                         AddTotals(d, RentIdAt(d, k), filter,
                                   Lookup(hours, hour(k), NoTotals))),
            <<>>, SubSeq(keys, 1, count))
    IN  [hours |-> added, scanned |-> count, complete |-> count = Len(keys),
         corrupt |-> \E i \in 1..count : ~ CandidateSound(d, keys[i])]

-----------------------------------------------------------------------------
(* The plain views. *)

(* upcoming: a prefix of the window, complete when one more row than the   *)
(* limit is not there.                                                     *)
Upcoming(d, blocks, limit) ==
    LET rows == RentMaturesRange(d, IndexedTip(d) + 1, blocks, limit + 1)
    IN  [items    |-> SubSeq(rows.items, 1, Min({limit, Len(rows.items)})),
         complete |-> Len(rows.items) <= limit]

Eligible(d, cursor, limit) == RentEligible(d, IndexedTip(d), cursor, limit)

(* addresses.rs rent: pages of the unspent boxes until one names no next   *)
(* cursor, or the cap is reached with a next cursor in hand.               *)
AddressRent(d, tree) ==
    LET step(w, i) ==
            IF w.done THEN w
            ELSE LET p == TreeBoxes(d, tree, TRUE, w.next, RentPage, "asc")
                     items == w.items \o p.items
                     capped == p.next # NoRow /\ Len(items) >= RentScanCap
                 IN  [items |-> items, next |-> p.next, truncated |-> capped,
                      done |-> p.next = NoRow \/ capped]
    IN  FoldLeft(step, [items |-> <<>>, next |-> NoRow, truncated |-> FALSE, done |-> FALSE],
                 [i \in 1..(RentScanCap + 1) |-> i])

(* addresses.rs exposure: one key beyond the cap shows the truncation.     *)
Exposure(d, tree) ==
    LET scan == HistoryCandidates(d, tree, NoRow, TRUE)
    IN  [items     |-> SubSeq(scan.items, 1, Min({RentScanCap, Len(scan.items)})),
         truncated |-> Len(scan.items) > RentScanCap,
         corrupt   |-> scan.corrupt \/ \E id \in Range(scan.items) :
                                           d.boxes[id].spent # Unspent]
=============================================================================
