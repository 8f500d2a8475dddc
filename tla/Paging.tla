------------------------------- MODULE Paging -------------------------------
(***************************************************************************)
(* A client turning strict pages while the chain moves (xp-api paging.rs   *)
(* and the eighteen routes of its policy matrix, and the cursor of         *)
(* handlers/history.rs): each request is answered from a new snapshot with *)
(* a cursor and a token made from an older one.                            *)
(*                                                                         *)
(* A snapshot is the tables of the chain of that moment: StoreProperties'  *)
(* RollbackRestores is what allows to name the tables by the chain.        *)
(* Requests only read, so one session shows what any number of them see.   *)
(* A hash of a filter or a cursor is the thing hashed; a token is what it  *)
(* decodes to, for clients return them unaltered.  Bare cursors, which     *)
(* promise nothing, the token name search and its own index are left out.  *)
(***************************************************************************)
EXTENDS History, Rent, Activity

CONSTANTS
    MaxHeight,
    Query,      \* what clients list: [route, dir, by]
    PageLimit   \* the limits they ask for, page by page

VARIABLES
    chain,      \* the indexed chain of the moment
    session     \* the client's listing

pagingVars == <<chain, session>>

-----------------------------------------------------------------------------
(* The tables of every chain the index may hold. *)

Linked(c) ==
    \A h \in DOMAIN c :
        /\ Height[c[h]] = h
        /\ Parent[c[h]] = IF h = 1 THEN NoParent ELSE c[h - 1]

Replayed(c) ==
    FoldLeft(LAMBDA acc, b : IF acc.corrupt THEN acc ELSE ApplyBlock(acc.d, b),
             [NewCtx(SeedTables(NoTables), 0) EXCEPT !.h = 0], c)

(* (Pairs, and not a function, for TLC computes the elements of a set once.) *)
Replays == {<<c, Replayed(c)>> : c \in {b \in UNION {[1..n -> Block] : n \in 0..MaxHeight} :
                                            Linked(b)}}

Chains == {p[1] : p \in {q \in Replays : ~ q[2].corrupt}}

Tables == [c \in Chains |-> (CHOOSE p \in Replays : p[1] = c)[2].d]

-----------------------------------------------------------------------------
(* What a route lists, and what its tokens are bound to. *)

(* Mutant: the contents of blocks are taken for current state too. *)
ImmutableMembershipNarrow(route) == route \in {"blocks", "global_summaries", "block_summaries"}

(* Route::policy: the other routes serve one state only. *)
ImmutableMembership(route) ==
    route \in {"blocks", "global_summaries", "block_summaries", "address_summaries",
               "token_history"}

(* Binding::new: these go one way. *)
ValidOrder(q) ==
    /\ q.route \in {"blocks", "tokens_newest", "tokens_holders", "holders", "richlist"}
          => q.dir = "desc"
    /\ q.route \in {"rent_eligible", "rent_schedule", "boxes_at"} => q.dir = "asc"

ASSUME QueryAssumption ==
    \A q \in Query : /\ q = [route |-> q.route, dir |-> q.dir, by |-> q.by]
                     /\ ValidOrder(q)
                     /\ q.route = "boxes_at" => q.by.at \in Nat

ASSUME HeightsAssumption == MaxHeight \in Nat

(* The routes whose selector goes through Request::resolve.                *)
Resolves(q) ==
    q.route \in {"block_summaries", "address_summaries", "address_boxes", "address_activity"}

(* What the selector names in this snapshot: a block by its height or id   *)
(* (resolve_height), a tree by its address; the others need no lookup.     *)
Selected(d, q) ==
    IF "height" \in DOMAIN q.by THEN {d.headers[h].id : h \in {q.by.height} \cap DOMAIN d.headers}
    ELSE IF "id" \in DOMAIN q.by THEN {q.by.id} \cap DOMAIN d.headerById
    ELSE {q.by.tree} \cap d.ergoTrees

Found(d, q) == Resolves(q) => Selected(d, q) # {}

(* The schedule starts at the tip: with no block indexed its handler says  *)
(* 503 before it looks at a token.                                         *)
Unavailable(d, q) == q.route = "rent_schedule" /\ ScheduleUnavailable(d)

(* The routes that answer 404 once the page is being read.                 *)
Known(d, q) ==
    /\ q.route \in {"token_boxes", "holders"} => q.by.token \in DOMAIN d.tokens
    /\ q.route = "template_boxes" => q.by.template \in DOMAIN d.templates

(* A block is bound by its id however it was named.                        *)
Binding(d, q) ==
    IF q.route # "block_summaries" THEN q
    ELSE [q EXCEPT !.by = [id |-> CHOOSE id \in Selected(d, q) : TRUE]]

NoAnchor == [height |-> 0, block |-> NoBlock]

(* The tip, if a block is indexed. *)
Observed(d) ==
    IF IndexedTip(d) = 0 THEN NoAnchor ELSE AnchorAt(d, IndexedTip(d))

(* Mutant: a page of immutable rows ends where the chain does now. *)
TxEndOfTip(d, at) ==
    IF at = NoAnchor THEN NoRow
    ELSE d.headers[IndexedTip(d)].firstTx + d.headers[IndexedTip(d)].txCount

(* tx_end: the first gidx after the anchor's block. *)
TxEnd(d, at) ==
    IF at = NoAnchor THEN NoRow
    ELSE d.headers[at.height].firstTx + d.headers[at.height].txCount

(* The handler of GET /v1/blocks: newest first, from the anchor down.      *)
BlocksPage(d, cursor, at, limit) ==
    LET before == IF at = NoAnchor THEN cursor
                  ELSE IF cursor = NoRow \/ cursor > at.height + 1 THEN at.height + 1
                  ELSE cursor
        page == HeadersDesc(d, before, limit)
        last == d.headerById[Last(page.items)]
    IN  IF page.items # <<>> /\ Len(page.items) = limit /\ last > 0
        THEN [page EXCEPT !.next = last] ELSE page

(* The transactions a ready token index lists, in one snapshot.            *)
TokenTxs(d, token, cursor, end, limit, dir) ==
    LET touching == {tx \in DOMAIN d.txs : \E id \in InputsOf(d, tx) \cup OutputsAt(d, tx) :
                                              BagIn(token, d.boxes[id].tokens)}
    IN  PageComposite({d.txs[tx].gidx : tx \in touching}, cursor, end, limit, dir,
                      LAMBDA g : TxSound(d, g), LAMBDA g : TxIdAt(d, g))

(* The callback of each handler, with the anchor of its PageReader.        *)
ReadPage(d, q, at, cursor, limit) ==
    LET by  == q.by
        end == TxEnd(d, at)
    IN  CASE q.route = "blocks" -> BlocksPage(d, cursor, at, limit)
          [] q.route = "global_summaries" -> TxsByGidx(d, cursor, end, limit, q.dir)
          [] q.route = "block_summaries" ->
               TxsInBlockPage(d, d.headerById[Binding(d, q).by.id], cursor, limit, q.dir)
          [] q.route = "address_summaries" -> TreeTxs(d, by.tree, cursor, end, limit, q.dir)
          [] q.route = "address_activity" ->
               ActivityPage(d, by.tree, by.filter, cursor, end, limit, q.dir)
          [] q.route = "transactions" -> TxsByGidx(d, cursor, NoRow, limit, q.dir)
          [] q.route = "address_boxes" -> TreeBoxes(d, by.tree, by.unspent, cursor, limit, q.dir)
          [] q.route = "token_boxes" -> TokenBoxes(d, by.token, by.unspent, cursor, limit, q.dir)
          [] q.route = "template_boxes" -> 
               TemplateBoxes(d, by.template, by.unspent, cursor, limit, q.dir)
          [] q.route = "register_boxes" ->
               BoxesByRegister(d, by.reg, by.value, cursor, limit, q.dir)
          [] q.route = "tokens_newest" -> TokensNewest(d, cursor, limit)
          [] q.route = "tokens_holders" -> TokensByHolders(d, cursor, limit)
          [] q.route = "holders" -> TokenHolders(d, by.token, cursor, limit)
          [] q.route = "richlist" -> RichList(d, cursor, limit)
          [] q.route = "token_history" -> TokenTxs(d, by.token, cursor, end, limit, q.dir)
          [] q.route = "rent_eligible" -> Eligible(d, cursor, limit)
          [] q.route = "rent_schedule" -> SchedulePage(d, by.blocks, by.filter, cursor, limit)

-----------------------------------------------------------------------------
(* with_page. *)

(* Mutant: a block replaced at the same height goes unnoticed. *)
AnchorLostHeightOnly(d, route, at) ==
    \/ Observed(d) = NoAnchor
    \/ at.height > Observed(d).height
    \/ ~ ImmutableMembership(route) /\ at # Observed(d)

(* The token's anchor is not canonical any more, or not the tip where only *)
(* the tip will do: 409.                                                   *)
AnchorLost(d, route, at) ==
    \/ Observed(d) = NoAnchor
    \/ at.height > Observed(d).height
    \/ ~ ImmutableMembership(route) /\ at # Observed(d)
    \/ HeaderAt(d, at.height)[1].id # at.block

(* What the handler, resolve and read make of a continuation: the binding  *)
(* of a selector that must be resolved is compared only after the anchor   *)
(* held.  (After a 503 the token is still good; but asking again only      *)
(* reads, so the session of a client that did is one that had not asked.)  *)
Verdict(d, q, token) ==
    LET bound == Found(d, q) /\ Binding(d, q) = token.binding
    IN  IF Unavailable(d, q) THEN "unavailable"
        ELSE IF
             \/ q.route # token.binding.route \/ q.dir # token.binding.dir
             \/ ~ Resolves(q) /\ ~ bound
        THEN "invalid"
        ELSE IF AnchorLost(d, q.route, token.at) THEN "changed"
        ELSE IF ~ bound THEN "invalid"
        ELSE IF ~ Known(d, q) THEN "absent"
        ELSE "open"

FirstVerdict(d, q) ==
    IF Unavailable(d, q) THEN "unavailable"
    ELSE IF ~ Found(d, q) \/ ~ Known(d, q) THEN "absent" ELSE "open"

NoQuery == [route |-> "none", dir |-> "asc", by |-> [all |-> TRUE]]

NoSession == [state |-> "none", query |-> NoQuery, asked |-> NoQuery, got |-> <<>>,
              token |-> [at |-> NoAnchor, cursor |-> NoRow, binding |-> NoQuery],
              base |-> <<>>]

(* next_snapshot: no anchor, no token, whatever the cursor.                *)
AfterPage(page, at) ==
    IF page.corrupt THEN "corrupt"
    ELSE IF page.next = NoRow THEN "done"
    ELSE IF at = NoAnchor THEN "unanchored"
    ELSE "open"

Turned(s, q, d, at, page) ==
    [s EXCEPT !.state = AfterPage(page, at), !.asked = q,
              !.got = @ \o page.items,
              !.token = [at |-> at, cursor |-> page.next, binding |-> Binding(d, q)]]

Strict(q) == q.route # "boxes_at"

(* A first page. *)
Start(q, limit) ==
    LET d == Tables[chain]
        new == [NoSession EXCEPT !.query = q, !.asked = q, !.base = chain]
    IN  /\ session.state = "none"
        /\ Strict(q)
        /\ session' =
             IF FirstVerdict(d, q) # "open" THEN [new EXCEPT !.state = FirstVerdict(d, q)]
             ELSE Turned(new, q, d, Observed(d),
                         ReadPage(d, q, Observed(d), NoRow, limit))
        /\ UNCHANGED chain

Continued(s, d, q, limit) ==
    LET verdict == Verdict(d, q, s.token)
    IN  IF verdict # "open" THEN [s EXCEPT !.state = verdict, !.asked = q]
        ELSE Turned(s, q, d, s.token.at, ReadPage(d, q, s.token.at, s.token.cursor, limit))

(* The next page, asked for the same listing or, by a muddled client, for  *)
(* another one of the route (another route's is told at once).             *)
Continue(q, limit) ==
    /\ session.state = "open"
    /\ Strict(q) /\ Strict(session.query)
    /\ session' = Continued(session, Tables[chain], q, limit)
    /\ UNCHANGED chain

-----------------------------------------------------------------------------
(* history.rs: the boxes of a tree at a height, with a cursor of its own   *)
(* kind that names the block at that height.                               *)

(* NoRow in last: not even the first box fits a page. *)
HistoryTurned(s, d, q, page) ==
    [s EXCEPT !.state = IF page.refused \/ (page.more /\ page.last = NoRow) THEN "refused"
                        ELSE IF page.more THEN "open" ELSE "done",
              !.got = @ \o page.items,
              !.token = [at |-> AnchorAt(d, q.by.at), cursor |-> page.last,
                         binding |-> Binding(d, q)]]

StartHistory(q, limit, patience) ==
    LET d == Tables[chain]
        new == [NoSession EXCEPT !.query = q, !.asked = q]
        verdict == Anchor(d, q.by.at, NoBlock, <<>>)
    IN  /\ session.state = "none"
        /\ ~ Strict(q)
        /\ session' =
             IF verdict # "ok" THEN [new EXCEPT !.state = "absent"]
             ELSE HistoryTurned([new EXCEPT !.base = SubSeq(chain, 1, q.by.at)], d, q,
                                BoxesAt(d, q.by.tree, q.by.at, NoRow, limit, patience))
        /\ UNCHANGED chain

HistoryContinued(s, d, limit, patience) ==
    LET q == s.query
    IN  IF Anchor(d, q.by.at, NoBlock, s.token.at) # "ok"
        THEN [s EXCEPT !.state = "changed"]
        ELSE HistoryTurned(s, d, q, BoxesAt(d, q.by.tree, q.by.at, s.token.cursor,
                                            limit, patience))

ContinueHistory(limit, patience) ==
    /\ session.state = "open"
    /\ ~ Strict(session.query)
    /\ session' = HistoryContinued(session, Tables[chain], limit, patience)
    /\ UNCHANGED chain

-----------------------------------------------------------------------------
(* The index: a batch or a rollback is one commit, a crash loses blocks.   *)
(* It stands still between a session's end and the next one's start, where *)
(* nobody looks.                                                           *)

Watched == session.state \in {"none", "open"}

Grow(b) ==
    /\ Watched
    /\ Append(chain, b) \in Chains
    /\ chain' = Append(chain, b)
    /\ UNCHANGED session

Shrink(h) ==
    /\ Watched
    /\ h < Len(chain)
    /\ chain' = SubSeq(chain, 1, h)
    /\ UNCHANGED session

Restart == ~ Watched /\ session' = NoSession /\ UNCHANGED chain

Patience == 1..CandidateCap

PagingInit == chain = <<>> /\ session = NoSession

PagingNext ==
    \/ \E b \in Block : Grow(b)
    \/ \E h \in 0..MaxHeight : Shrink(h)
    \/ \E q \in Query, limit \in PageLimit : Start(q, limit)
    \/ \E q \in {r \in Query : r.route = session.query.route}, limit \in PageLimit :
          Continue(q, limit)
    \/ \E q \in Query, limit \in PageLimit, patience \in Patience :
          StartHistory(q, limit, patience)
    \/ \E limit \in PageLimit, patience \in Patience : ContinueHistory(limit, patience)
    \/ Restart

PagingSpec == PagingInit /\ [][PagingNext]_pagingVars

-----------------------------------------------------------------------------
(* What a client that reads on may count on. *)

(* The listing as one snapshot has it, on one page as long as it is; the  *)
(* scan limits of two routes, which no page is longer than, are set aside. *)
Whole(q, d) ==
    LET page == ReadPage(d, q, Observed(d), NoRow, GidxSpace)
        ids  == TreeTxs(d, q.by.tree, NoRow, NoRow, GidxSpace, q.dir).items
        due  == Ascending(WindowKeys(d, q.by.blocks, NoRow))
    IN  CASE q.route = "boxes_at" ->
               TreeBoxes(d, q.by.tree, TRUE, NoRow, GidxSpace, "asc").items
          [] FirstVerdict(d, q) # "open" -> <<>>
          [] q.route = "address_activity" ->
               FlattenSeq([i \in DOMAIN ids |->
                   IF InWindow(d, ids[i], q.by.filter)
                   THEN Project(d, q.by.tree, ids[i], q.by.filter) ELSE <<>>])
          [] q.route = "rent_schedule" ->
               SelectSeq([i \in DOMAIN due |-> RentIdAt(d, due[i])],
                         LAMBDA id : Matches(d, id, q.by.filter))
          [] OTHER -> page.items

(* (@@ <<>> makes TLC tabulate the function.)                              *)
Listing == [q \in Query, c \in Chains |-> Whole(q, Tables[c])] @@ <<>>

(* However the chain moved between two requests, the pages a client was    *)
(* given are the beginning of what the anchor's own snapshot lists, with   *)
(* nothing skipped, repeated or taken from another branch, and all of it   *)
(* when the pages end; and no snapshot is ever found corrupt.              *)
PagesExact ==
    /\ session.state # "corrupt"
    /\ session.state # "none" =>
          \E whole \in {Listing[session.query, session.base]} :
              /\ IsPrefix(session.got, whole)
              /\ session.state = "done" => session.got = whole

(* What docs/superpowers/2026-09-12-m5-route-policy-matrix.md promises to  *)
(* serve from the first page's chain for as long as that chain stands.     *)
Pinned == {"blocks", "global_summaries", "block_summaries", "address_summaries",
           "token_history", "boxes_at"}

Expires(s, c) == IF s.query.route \in Pinned THEN ~ IsPrefix(s.base, c) ELSE c # s.base

FairAnswer ==
    /\ session'.state # "absent"
    /\ session'.asked = session.query =>
          /\ session'.state # "invalid"
          /\ (session'.state \in {"changed", "unavailable"}) <=> Expires(session, chain)
    /\ (session'.state = "unavailable") <=>
          chain = <<>> /\ session.query.route = "rent_schedule"
    /\ session'.state \in {"open", "done"} =>
          Binding(Tables[chain], session'.asked) = session.token.binding

(* A continuation is refused for a reason and only for one: 409 exactly    *)
(* when the anchor's chain is not the chain any more (or, for current      *)
(* state, not all of it), or 503 where the route is the rent schedule and  *)
(* no chain is left; 400 only when the client asked for another listing    *)
(* than the one the token is for; a listing never turns into 404 halfway,  *)
(* not even when its block or address is gone.                             *)
ExpiresOnlyWhenChanged ==
    [][session.state = "open" /\ session' # session => FairAnswer]_pagingVars

Answers(s, d) ==
    IF Strict(s.query) THEN {Continued(s, d, s.query, limit) : limit \in PageLimit}
    ELSE {HistoryContinued(s, d, p[1], p[2]) : p \in PageLimit \X Patience}

(* Reading on ends: whatever page sizes, scan limits and deadlines, a page *)
(* that promises another moves the cursor on, so a client that repeats     *)
(* with what it was given is never where it was.                           *)
PagesAdvance ==
    session.state = "open" =>
        \A next \in Answers(session, Tables[chain]) :
            next.state = "open" =>
                IF session.query.dir = "asc"
                THEN next.token.cursor > session.token.cursor
                ELSE next.token.cursor < session.token.cursor
=============================================================================
