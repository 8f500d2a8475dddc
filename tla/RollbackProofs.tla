--------------------------- MODULE RollbackProofs ---------------------------
(***************************************************************************)
(* rollback_to undoes apply_block exactly: whatever was indexed, undone    *)
(* and indexed again, every table but UNDO is what a fresh sync of the     *)
(* present chain writes, for every chain, window and block content.        *)
(*                                                                         *)
(* At the end of a block the differences Since speaks of are the ones that *)
(* UndoBlock takes back: the block is Sealed.  So a store's tables follow  *)
(* the trail of a fresh sync: after any batches, rollbacks and crashes     *)
(* they are, undo rows apart, the tables that indexing the present chain   *)
(* from genesis writes, and each undo row they hold is the one that sync   *)
(* wrote at its height.                                                    *)
(*                                                                         *)
(* Because the tables are a function of the chain, a client that turns     *)
(* pages can be told exactly when its chain is gone: the last part proves  *)
(* that of Paging, from what a longer chain's tables keep of a shorter's.  *)
(***************************************************************************)
EXTENDS BlockProofs, Paging

-----------------------------------------------------------------------------
(* The flush: each helper writes its cache over one table, with the rows   *)
(* that undo it, and keeps the ranking of that table.                      *)

LEMMA RichTouched ==
    ASSUME NEW old, NEW S
    PROVE  RichOf(old) \ {<<old[t].nano, t>> : t \in S \cap DOMAIN old} = RichLeft(old, S)
BY DEF RichLeft, RichOf

LEMMA RankTouched ==
    ASSUME NEW old, NEW S
    PROVE  RankOf(old) \ {<<old[t].holderCount, t>> : t \in S \cap DOMAIN old} = RankLeft(old, S)
BY DEF RankLeft, RankOf

LEMMA SwapRewrites ==
    ASSUME NEW old, NEW rows, NEW new, NEW added, NEW prev, Swaps(old, rows, new, added, prev)
    PROVE  Rewritten(old, rows, {}, new)
<1>1. Swapped(old, rows, new, added, prev)
    BY SwapIs
<1> QED BY <1>1 DEF Swapped, Rewritten

FlushedTemplates(c, e) ==
    /\ Shaped(e) /\ Differ(c, e, {"d", "undo"}) /\ Differ(c.d, e.d, {"templates"})
    /\ Differ(c.undo, e.undo, {"newTemplates", "prevTemplates"})
    /\ IsTable(e.d.templates)
    /\ Undoes(c.d.templates, e.d.templates, e.undo.newTemplates, e.undo.prevTemplates)

LEMMA FlushTemplatesIs ==
    ASSUME NEW c, Shaped(c), IsTable(c.d.templates)
    PROVE  FlushedTemplates(c, FlushTemplates(c))
<1> DEFINE e == FlushTemplates(c)
           old == c.d.templates
           rows == Over(c.tmpl, old)
           added == DOMAIN c.tmpl \ DOMAIN old
           prev == Restrict(old, DOMAIN c.tmpl \cap DOMAIN old)
           f == [c EXCEPT !.d.templates = rows, !.undo.newTemplates = added,
                          !.undo.prevTemplates = prev]
<1>1. e = f
    BY Zenon DEF FlushTemplates
<1>2. Swaps(old, c.tmpl, rows, added, prev)
    BY DEF Swaps
<1> HIDE DEF e, rows, added, prev
<1>3. Undoes(old, rows, added, prev) /\ IsTable(rows)
    BY Zenon, <1>2, SwapsUndo, SwapIs DEF Swapped
<1>4. /\ Shaped(f) /\ Differ(c, f, {"d", "undo"}) /\ Differ(c.d, f.d, {"templates"})
      /\ Differ(c.undo, f.undo, {"newTemplates", "prevTemplates"})
      /\ f.d.templates = rows /\ f.undo.newTemplates = added /\ f.undo.prevTemplates = prev
    BY Zenon DEF Differ, Shaped, CtxKeys, TableKeys, UndoKeys
<1> HIDE DEF f
<1>5. FlushedTemplates(c, f)
    BY <1>3, <1>4 DEF FlushedTemplates
<1> QED BY <1>1, <1>5 DEF e

FlushedHolders(c, e) ==
    /\ Shaped(e) /\ Differ(c, e, {"d", "undo"})
    /\ Differ(c.d, e.d, {"tokenHolders", "tokenHolderAmt"})
    /\ Differ(c.undo, e.undo, {"prevHolderAmts"})
    /\ IsTable(e.d.tokenHolderAmt) /\ IsAmounts(e.d.tokenHolderAmt)
    /\ HoldersUndo(c.d.tokenHolderAmt, e.d.tokenHolderAmt, e.undo.prevHolderAmts)
    /\ e.d.tokenHolders = HoldersOf(e.d.tokenHolderAmt)

LEMMA FlushHoldersIs ==
    ASSUME NEW c, Shaped(c), IsAmounts(c.hold), IsTable(c.d.tokenHolderAmt),
           IsAmounts(c.d.tokenHolderAmt), c.d.tokenHolders = HoldersOf(c.d.tokenHolderAmt)
    PROVE  FlushedHolders(c, FlushHolders(c))
<1> DEFINE e == FlushHolders(c)
           old == c.d.tokenHolderAmt
           zero == {k \in DOMAIN c.hold : c.hold[k] = 0}
           rows == Drop(Over(c.hold, old), zero)
           prev == [k \in DOMAIN c.hold |-> Lookup(old, k, NoRow)]
           out == {<<k[1], old[k], k[2]>> : k \in DOMAIN c.hold \cap DOMAIN old}
           in == {<<k[1], c.hold[k], k[2]>> : k \in DOMAIN c.hold \ zero}
           places == (c.d.tokenHolders \ out) \cup in
           f == [c EXCEPT !.d.tokenHolders = places, !.d.tokenHolderAmt = rows,
                          !.undo.prevHolderAmts = prev]
<1>1. e = f
    BY Zenon DEF FlushHolders
<1>2. HolderSwap(old, c.hold, rows, prev)
    BY DEF HolderSwap
<1>3. /\ HoldersUndo(old, rows, prev) /\ IsTable(rows) /\ IsAmounts(rows)
      /\ Reheld(old, c.hold, zero, rows)
    <2> HIDE DEF rows, prev
    <2> QED BY <1>2, HolderSwapUndo
<1> HIDE DEF rows, prev
<1>4. places = HoldersOf(rows)
    <2>1. ListingLeft(old, DOMAIN c.hold) \cup ListingOf(c.hold, DOMAIN c.hold \ zero)
            = HoldersOf(rows)
        BY <1>3, HoldersMove, Zenon
    <2> HIDE DEF zero
    <2> QED BY <2>1, Zenon DEF ListingLeft, ListingOf
<1> HIDE DEF e, places
<1>5. /\ Shaped(f) /\ Differ(c, f, {"d", "undo"})
      /\ Differ(c.d, f.d, {"tokenHolders", "tokenHolderAmt"})
      /\ Differ(c.undo, f.undo, {"prevHolderAmts"})
      /\ f.d.tokenHolders = places /\ f.d.tokenHolderAmt = rows /\ f.undo.prevHolderAmts = prev
    BY Zenon DEF Differ, Shaped, CtxKeys, TableKeys, UndoKeys
<1> HIDE DEF f
<1>6. FlushedHolders(c, f)
    BY <1>3, <1>4, <1>5 DEF FlushedHolders
<1> QED BY <1>1, <1>6 DEF e

FlushedBalances(c, e) ==
    /\ Shaped(e) /\ Differ(c, e, {"d", "undo"}) /\ Differ(c.d, e.d, {"rich", "treeBalance"})
    /\ Differ(c.undo, e.undo, {"newBalances", "prevBalances"})
    /\ IsTable(e.d.treeBalance)
    /\ Undoes(c.d.treeBalance, e.d.treeBalance, e.undo.newBalances, e.undo.prevBalances)
    /\ e.d.rich = RichOf(e.d.treeBalance)

LEMMA FlushBalancesIs ==
    ASSUME NEW c, Shaped(c), IsTable(c.d.treeBalance), c.d.rich = RichOf(c.d.treeBalance)
    PROVE  FlushedBalances(c, FlushBalances(c))
<1> DEFINE e == FlushBalances(c)
           old == c.d.treeBalance
           rows == Over(c.bal, old)
           added == DOMAIN c.bal \ DOMAIN old
           prev == Restrict(old, DOMAIN c.bal \cap DOMAIN old)
           out == {<<old[t].nano, t>> : t \in DOMAIN c.bal \cap DOMAIN old}
           places == (c.d.rich \ out) \cup RichOf(c.bal)
           f == [c EXCEPT !.d.rich = places, !.d.treeBalance = rows,
                          !.undo.newBalances = added, !.undo.prevBalances = prev]
<1>1. e = f
    BY Zenon DEF FlushBalances, RichOf
<1>2. Swaps(old, c.bal, rows, added, prev)
    BY DEF Swaps
<1> HIDE DEF rows, added, prev
<1>3. Undoes(old, rows, added, prev) /\ IsTable(rows) /\ Rewritten(old, c.bal, {}, rows)
    BY Zenon, <1>2, SwapsUndo, SwapIs, SwapRewrites DEF Swapped
<1>4. places = RichOf(rows)
    <2>1. RichLeft(old, {} \cup DOMAIN c.bal) \cup RichOf(c.bal) = RichOf(rows)
        BY <1>3, RichMoves
    <2>2. RichOf(old) \ {<<old[t].nano, t>> : t \in DOMAIN c.bal \cap DOMAIN old}
            = RichLeft(old, DOMAIN c.bal)
        BY RichTouched
    <2>3. {} \cup DOMAIN c.bal = DOMAIN c.bal
        OBVIOUS
    <2> QED BY <2>1, <2>2, <2>3, Zenon
<1> HIDE DEF e, places
<1>5. /\ Shaped(f) /\ Differ(c, f, {"d", "undo"}) /\ Differ(c.d, f.d, {"rich", "treeBalance"})
      /\ Differ(c.undo, f.undo, {"newBalances", "prevBalances"})
      /\ f.d.rich = places /\ f.d.treeBalance = rows
      /\ f.undo.newBalances = added /\ f.undo.prevBalances = prev
    BY Zenon DEF Differ, Shaped, CtxKeys, TableKeys, UndoKeys
<1> HIDE DEF f
<1>6. FlushedBalances(c, f)
    BY <1>3, <1>4, <1>5 DEF FlushedBalances
<1> QED BY <1>1, <1>6 DEF e

(* The token rows keep the places where the block's tokens were minted.    *)
FlushedTokens(c, e) ==
    /\ Shaped(e) /\ Differ(c, e, {"d", "undo", "tok"})
    /\ Differ(c.d, e.d, {"tokens", "tokensByHolders"})
    /\ Differ(c.undo, e.undo, {"newTokens", "prevTokens"})
    /\ IsTable(e.d.tokens)
    /\ Undoes(c.d.tokens, e.d.tokens, e.undo.newTokens, e.undo.prevTokens)
    /\ e.d.tokensByHolders = RankOf(e.d.tokens)
    /\ NewRows(c.d, e.d.tokens) = NewRows(c.d, c.tok)
    /\ e.undo.newTokens = NewRows(c.d, c.tok)
    /\ \A t \in NewRows(c.d, c.tok) : "mintGidx" \in DOMAIN c.tok[t] =>
          /\ "mintGidx" \in DOMAIN e.d.tokens[t]
          /\ e.d.tokens[t].mintGidx = c.tok[t].mintGidx

LEMMA WriteTokensIs ==
    ASSUME NEW c, Shaped(c), IsTable(c.d.tokens), c.d.tokensByHolders = RankOf(c.d.tokens)
    PROVE  FlushedTokens(c, WriteTokens(c)) /\ WriteTokens(c).tok = c.tok
<1> DEFINE e == WriteTokens(c)
           old == c.d.tokens
           rows == Over(c.tok, old)
           added == DOMAIN c.tok \ DOMAIN old
           prev == Restrict(old, DOMAIN c.tok \cap DOMAIN old)
           out == {<<old[t].holderCount, t>> : t \in DOMAIN c.tok \cap DOMAIN old}
           places == (c.d.tokensByHolders \ out) \cup RankOf(c.tok)
           f == [c EXCEPT !.d.tokens = rows, !.d.tokensByHolders = places,
                          !.undo.newTokens = added, !.undo.prevTokens = prev]
<1>1. e = f
    BY Zenon DEF WriteTokens, RankOf
<1>2. Swaps(old, c.tok, rows, added, prev)
    BY DEF Swaps
<1>4. added = NewRows(c.d, c.tok)
    BY DEF NewRows
<1> HIDE DEF rows, added, prev
<1>3. Undoes(old, rows, added, prev) /\ IsTable(rows) /\ Rewritten(old, c.tok, {}, rows)
    BY <1>2, SwapsUndo, SwapIs, SwapRewrites DEF Swapped
<1>5. places = RankOf(rows)
    <2>1. RankLeft(old, {} \cup DOMAIN c.tok) \cup RankOf(c.tok) = RankOf(rows)
        BY <1>3, RankMoves
    <2>2. RankOf(old) \ {<<old[t].holderCount, t>> : t \in DOMAIN c.tok \cap DOMAIN old}
            = RankLeft(old, DOMAIN c.tok)
        BY RankTouched
    <2>3. {} \cup DOMAIN c.tok = DOMAIN c.tok
        OBVIOUS
    <2> QED BY <2>1, <2>2, <2>3, Zenon
<1> HIDE DEF e, places
<1>6. /\ Shaped(f) /\ Differ(c, f, {"d", "undo"})
      /\ Differ(c.d, f.d, {"tokens", "tokensByHolders"})
      /\ Differ(c.undo, f.undo, {"newTokens", "prevTokens"})
      /\ f.d.tokensByHolders = places /\ f.d.tokens = rows /\ f.tok = c.tok
      /\ f.undo.newTokens = added /\ f.undo.prevTokens = prev
    BY Zenon DEF Differ, Shaped, CtxKeys, TableKeys, UndoKeys
<1> HIDE DEF f
<1>7. /\ NewRows(c.d, rows) = NewRows(c.d, c.tok)
      /\ \A t \in NewRows(c.d, c.tok) : rows[t] = c.tok[t]
    BY <1>3 DEF Rewritten, NewRows
<1>8. FlushedTokens(c, f)
    BY <1>3, <1>4, <1>5, <1>6, <1>7 DEF FlushedTokens, Differ
<1> QED BY <1>1, <1>6, <1>8 DEF e

LOCAL Shifts == INSTANCE FoldTheory WITH
    Op <- LAMBDA p, q, acc, t : MoveHolders(acc, t, HolderDelta(p, t)), Inv <- RecountsFrom

LEMMA FlushTokensIs ==
    ASSUME NEW c, Shaped(c), IsFiniteSet(DOMAIN c.hold), IsTable(c.d.tokens),
           c.d.tokensByHolders = RankOf(c.d.tokens)
    PROVE  FlushTokens(c) = Corrupt(c) \/ FlushedTokens(c, FlushTokens(c))
<1> DEFINE S == {t \in {k[1] : k \in DOMAIN c.hold} : HolderDelta(c, t) # 0}
           out == Shifts!OverSet(c, 0, c, S)
           e == WriteTokens(out)
<1>1. FoldSet(LAMBDA t, acc : MoveHolders(acc, t, HolderDelta(c, t)), c, S) = out
    BY DEF FoldSet, MapThenFoldSet, Shifts!OverSet, Shifts!SetFold
<1>2. IsFiniteSet(S)
    <2> DEFINE f == [k \in DOMAIN c.hold |-> k[1]]
               U == {f[k] : k \in DOMAIN c.hold}
    <2>1. DOMAIN f = DOMAIN c.hold
        OBVIOUS
    <2>2. IsFiniteSet(U)
        <3> HIDE DEF f
        <3> QED BY <2>1, ImageFinite
    <2>3. S \in SUBSET U
        OBVIOUS
    <2> HIDE DEF S, U
    <2> QED BY <2>2, <2>3, FS_Subset
<1>3. Shifts!Finite(S)
    BY Zenon, <1>2 DEF IsFiniteSet, Shifts!Finite
<1>4. FlushTokens(c) = Corrupt(c) \/ FlushTokens(c) = e
    BY <1>1, Zenon DEF FlushTokens
<1> HIDE DEF S
<1>5. RecountsFrom(c, 0, c, 0, c)
    BY RecountsSame DEF RecountsFrom
<1>6. \A x \in S : \A acc : RecountsFrom(c, 0, c, 0, acc) =>
            RecountsFrom(c, 0, c, 0, MoveHolders(acc, x, HolderDelta(c, x)))
    BY RecountsKeepsShape, MoveHoldersRecounts, RecountsTrans DEF RecountsFrom
<1>7. RecountsFrom(c, 0, c, 0, out)
    BY <1>3, <1>5, <1>6, LeastNatural, Shifts!SetValue
<1> HIDE DEF out
<1>8. Recounts(c, out)
    BY <1>7 DEF RecountsFrom
<1>9. Shaped(out) /\ out.d = c.d /\ out.undo = c.undo
    BY <1>8, RecountsKeepsShape
<1>10. FlushedTokens(out, e)
    BY <1>9, WriteTokensIs
<1> HIDE DEF e
<1>11. FlushedTokens(c, e)
    <2>1. Differ(c, e, {"d", "undo", "tok"})
        BY <1>8, <1>10 DEF Recounts, FlushedTokens, Differ
    <2>2. /\ NewRows(c.d, out.tok) = NewRows(c.d, c.tok)
          /\ \A t \in NewRows(c.d, c.tok) : "mintGidx" \in DOMAIN c.tok[t] =>
                "mintGidx" \in DOMAIN out.tok[t] /\ out.tok[t].mintGidx = c.tok[t].mintGidx
        BY <1>8 DEF Recounts
    <2>3. \A t \in NewRows(c.d, c.tok) : "mintGidx" \in DOMAIN c.tok[t] =>
              /\ "mintGidx" \in DOMAIN e.d.tokens[t]
              /\ e.d.tokens[t].mintGidx = c.tok[t].mintGidx
        BY <1>9, <1>10, <2>2 DEF FlushedTokens
    <2>4. /\ NewRows(c.d, e.d.tokens) = NewRows(c.d, c.tok)
          /\ e.undo.newTokens = NewRows(c.d, c.tok)
        BY <1>9, <1>10, <2>2 DEF FlushedTokens
    <2> QED BY <1>9, <1>10, <2>1, <2>3, <2>4 DEF FlushedTokens
<1> QED BY <1>4, <1>11

-----------------------------------------------------------------------------
(* The whole flush of a block that began over d.                           *)

(* The tables with rows to restore are functions.                          *)
Tabled(d) ==
    /\ IsTable(d.treeBalance) /\ IsTable(d.tokens) /\ IsTable(d.templates)
    /\ IsTable(d.tokenHolderAmt) /\ IsAmounts(d.tokenHolderAmt)

FlushKeys == {"templates", "tokenHolders", "tokenHolderAmt", "tokens", "tokensByHolders",
              "rich", "treeBalance"}
FlushNotes == {"newTemplates", "prevTemplates", "prevHolderAmts", "newTokens", "prevTokens",
               "newBalances", "prevBalances"}

FlushedOver(d, c, e) ==
    /\ Shaped(e) /\ e.h = c.h /\ e.corrupt = c.corrupt
    /\ Differ(c.d, e.d, FlushKeys) /\ Differ(c.undo, e.undo, FlushNotes)
    /\ RowsSealed(d, e.d, e.undo) /\ MintSealed(d, e.d, e.undo)
    /\ Tabled(e.d) /\ Ranked(e.d)

LEMMA CorruptStays ==
    ASSUME NEW c, Shaped(c), c.corrupt
    PROVE  FlushBalances(c).corrupt
BY DEF FlushBalances, Shaped, CtxKeys

LEMMA FlushedIs ==
    ASSUME NEW d, NEW c, Ready(d), Tabled(d), Ranked(d), Shaped(c), Since(d, c, {}),
           IsFiniteSet(DOMAIN c.hold)
    PROVE  Flushed(c).corrupt \/ FlushedOver(d, c, Flushed(c))
<1> DEFINE c1 == FlushTemplates(c)
           c2 == FlushHolders(c1)
           c3 == FlushTokens(c2)
           e == FlushBalances(c3)
<1>0. Flushed(c) = e
    BY DEF Flushed
<1>1. /\ c.d.treeBalance = d.treeBalance /\ c.d.rich = d.rich /\ c.d.templates = d.templates
      /\ c.d.tokens = d.tokens /\ c.d.tokensByHolders = d.tokensByHolders
      /\ c.d.tokenHolders = d.tokenHolders /\ c.d.tokenHolderAmt = d.tokenHolderAmt
      /\ IsAmounts(c.hold) /\ MintOK(c.d) /\ MintSince(d, c.d, c.tok)
    BY DEF Since, Kept
<1>2. FlushedTemplates(c, c1)
    BY <1>1, FlushTemplatesIs DEF Tabled
<1> HIDE DEF c1
<1>3. /\ Shaped(c1) /\ c1.hold = c.hold /\ c1.tok = c.tok /\ c1.bal = c.bal /\ c1.h = c.h
      /\ c1.corrupt = c.corrupt
      /\ \A k \in TableKeys \ {"templates"} : c1.d[k] = c.d[k]
      /\ \A k \in UndoKeys \ {"newTemplates", "prevTemplates"} : c1.undo[k] = c.undo[k]
    BY <1>2 DEF FlushedTemplates, Differ, Shaped, CtxKeys
<1>4. FlushedHolders(c1, c2)
    <2>1. c1.d.tokenHolders = d.tokenHolders /\ c1.d.tokenHolderAmt = d.tokenHolderAmt
        BY <1>1, <1>3 DEF TableKeys
    <2> QED BY <1>1, <1>3, <2>1, FlushHoldersIs DEF Tabled, Ranked
<1> HIDE DEF c2
<1>5. /\ Shaped(c2) /\ c2.hold = c.hold /\ c2.tok = c.tok /\ c2.bal = c.bal /\ c2.h = c.h
      /\ c2.corrupt = c.corrupt
      /\ \A k \in TableKeys \ {"templates", "tokenHolders", "tokenHolderAmt"} : c2.d[k] = c.d[k]
      /\ \A k \in UndoKeys \ {"newTemplates", "prevTemplates", "prevHolderAmts"} :
            c2.undo[k] = c.undo[k]
      /\ c2.d.templates = c1.d.templates
      /\ c2.undo.newTemplates = c1.undo.newTemplates
      /\ c2.undo.prevTemplates = c1.undo.prevTemplates
    <2>1. /\ \A k \in CtxKeys \ {"d", "undo"} : c2[k] = c1[k]
          /\ \A k \in TableKeys \ {"tokenHolders", "tokenHolderAmt"} : c2.d[k] = c1.d[k]
          /\ \A k \in UndoKeys \ {"prevHolderAmts"} : c2.undo[k] = c1.undo[k]
          /\ Shaped(c2)
        BY <1>3, <1>4 DEF FlushedHolders, Differ, Shaped
    <2>2. /\ c2.d.templates = c1.d.templates
          /\ c2.undo.newTemplates = c1.undo.newTemplates
          /\ c2.undo.prevTemplates = c1.undo.prevTemplates
        BY <2>1 DEF TableKeys, UndoKeys
    <2>3. /\ c2.hold = c.hold /\ c2.tok = c.tok /\ c2.bal = c.bal /\ c2.h = c.h
          /\ c2.corrupt = c.corrupt
        BY <1>3, <2>1 DEF CtxKeys
    <2> QED BY <1>3, <2>1, <2>2, <2>3
<1>6. c3 = Corrupt(c2) \/ FlushedTokens(c2, c3)
    <2>1. c2.d.tokens = d.tokens /\ c2.d.tokensByHolders = d.tokensByHolders
        BY <1>1, <1>5 DEF TableKeys
    <2> QED BY <1>5, <2>1, FlushTokensIs DEF Tabled, Ranked
<1> HIDE DEF c3
<1>7. CASE c3 = Corrupt(c2)
    <2>1. Shaped(c3) /\ c3.corrupt
        BY <1>5, <1>7 DEF Corrupt, Shaped, CtxKeys
    <2>2. e.corrupt
        BY <2>1, CorruptStays
    <2> QED BY <1>0, <2>2
<1>8. CASE FlushedTokens(c2, c3)
    <2>1. /\ \A k \in CtxKeys \ {"d", "undo", "tok"} : c3[k] = c2[k]
          /\ \A k \in TableKeys \ {"tokens", "tokensByHolders"} : c3.d[k] = c2.d[k]
          /\ \A k \in UndoKeys \ {"newTokens", "prevTokens"} : c3.undo[k] = c2.undo[k]
          /\ Shaped(c3)
        BY <1>5, <1>8 DEF FlushedTokens, Differ, Shaped
    <2>2. /\ c3.d.treeBalance = d.treeBalance /\ c3.d.rich = d.rich
          /\ c2.d.tokens = d.tokens
        BY <1>1, <1>5, <2>1 DEF TableKeys
    <2>3. FlushedBalances(c3, e)
        BY <2>1, <2>2, FlushBalancesIs DEF Tabled, Ranked
    <2> HIDE DEF e
    <2>4. /\ \A k \in CtxKeys \ {"d", "undo"} : e[k] = c3[k]
          /\ \A k \in TableKeys \ {"rich", "treeBalance"} : e.d[k] = c3.d[k]
          /\ \A k \in UndoKeys \ {"newBalances", "prevBalances"} : e.undo[k] = c3.undo[k]
          /\ Shaped(e)
        BY <2>1, <2>3 DEF FlushedBalances, Differ, Shaped
    <2>5. e.h = c.h /\ e.corrupt = c.corrupt
        BY <1>5, <2>1, <2>4 DEF CtxKeys
    <2>6. Differ(c.d, e.d, FlushKeys)
        <3>1. \A k \in TableKeys \ FlushKeys : e.d[k] = c.d[k]
            BY <1>5, <2>1, <2>4 DEF FlushKeys
        <3> QED BY <2>4, <3>1 DEF Differ, Shaped
    <2>7. Differ(c.undo, e.undo, FlushNotes)
        <3>1. \A k \in UndoKeys \ FlushNotes : e.undo[k] = c.undo[k]
            BY <1>5, <2>1, <2>4 DEF FlushNotes
        <3> QED BY <2>4, <3>1 DEF Differ, Shaped
    <2>8. /\ e.d.templates = c1.d.templates
          /\ e.d.tokenHolders = c2.d.tokenHolders /\ e.d.tokenHolderAmt = c2.d.tokenHolderAmt
          /\ e.d.tokens = c3.d.tokens /\ e.d.tokensByHolders = c3.d.tokensByHolders
          /\ e.d.tokensByGidx = c.d.tokensByGidx /\ e.d.nextBox = c.d.nextBox
        <3>1. /\ e.d.tokens = c3.d.tokens /\ e.d.tokensByHolders = c3.d.tokensByHolders
              /\ \A k \in {"templates", "tokenHolders", "tokenHolderAmt", "tokensByGidx", "nextBox"} :
                    e.d[k] = c2.d[k]
            BY <2>1, <2>4 DEF TableKeys
        <3>2. c2.d.tokensByGidx = c.d.tokensByGidx /\ c2.d.nextBox = c.d.nextBox
            BY <1>5 DEF TableKeys
        <3> QED BY <1>5, <3>1, <3>2
    <2>9. /\ e.undo.newTemplates = c1.undo.newTemplates
          /\ e.undo.prevTemplates = c1.undo.prevTemplates
          /\ e.undo.prevHolderAmts = c2.undo.prevHolderAmts
          /\ e.undo.newTokens = c3.undo.newTokens /\ e.undo.prevTokens = c3.undo.prevTokens
        <3>1. /\ e.undo.newTokens = c3.undo.newTokens /\ e.undo.prevTokens = c3.undo.prevTokens
              /\ \A k \in {"newTemplates", "prevTemplates", "prevHolderAmts"} :
                    e.undo[k] = c2.undo[k]
            BY <2>1, <2>4 DEF UndoKeys
        <3> QED BY <1>5, <3>1
    <2>10. RowsSealed(d, e.d, e.undo)
        <3>1. Undoes(d.templates, e.d.templates, e.undo.newTemplates, e.undo.prevTemplates)
            BY <1>1, <1>2, <2>8, <2>9 DEF FlushedTemplates
        <3>2. HoldersUndo(d.tokenHolderAmt, e.d.tokenHolderAmt, e.undo.prevHolderAmts)
            <4>1. c1.d.tokenHolderAmt = d.tokenHolderAmt
                BY <1>1, <1>3 DEF TableKeys
            <4> QED BY <1>4, <2>8, <2>9, <4>1 DEF FlushedHolders
        <3>3. Undoes(d.tokens, e.d.tokens, e.undo.newTokens, e.undo.prevTokens)
            BY <1>8, <2>2, <2>8, <2>9 DEF FlushedTokens
        <3>4. Undoes(d.treeBalance, e.d.treeBalance, e.undo.newBalances, e.undo.prevBalances)
            BY <2>2, <2>3 DEF FlushedBalances
        <3> QED BY <3>1, <3>2, <3>3, <3>4 DEF RowsSealed
    <2>11. Tabled(e.d) /\ Ranked(e.d)
        BY <1>2, <1>4, <1>8, <2>3, <2>8
            DEF FlushedTemplates, FlushedHolders, FlushedTokens, FlushedBalances, Tabled, Ranked
    <2>12. MintSealed(d, e.d, e.undo)
        <3>1. /\ NewRows(d, e.d.tokens) = NewRows(d, c.tok)
              /\ e.undo.newTokens = NewRows(d, c.tok)
              /\ \A t \in NewRows(d, c.tok) : "mintGidx" \in DOMAIN c.tok[t] =>
                    /\ "mintGidx" \in DOMAIN e.d.tokens[t]
                    /\ e.d.tokens[t].mintGidx = c.tok[t].mintGidx
            BY <1>5, <1>8, <2>2, <2>8, <2>9 DEF FlushedTokens, NewRows
        <3>2. MintSince(d, e.d, e.d.tokens)
            BY <1>1, <2>8, <3>1 DEF MintSince
        <3>3. MintOK(d)
            BY DEF Ready
        <3> QED BY <3>1, <3>2, <3>3 DEF MintSealed
    <2>13. Shaped(e)
        BY <2>4
    <2>14. FlushedOver(d, c, e)
        BY <2>5, <2>6, <2>7, <2>10, <2>11, <2>12, <2>13 DEF FlushedOver
    <2> QED BY <1>0, <2>14
<1> QED BY <1>6, <1>7, <1>8

-----------------------------------------------------------------------------
(* The end of a block: its header, and the tables that stay as they were   *)
(* when its last transaction was indexed.                                  *)

SealKeys == {"headers", "headerById", "undo"}
SealNotes == {"prevNextBox", "prevNextTx"}

(* z and u are what a block in progress c that began over d ends as.       *)
Ends(c, z, u) ==
    /\ Differ(c.d, z, FlushKeys \cup SealKeys)
    /\ Differ(c.undo, u, FlushNotes \cup SealNotes)

LEMMA EndKeeps ==
    ASSUME NEW c, Shaped(c), NEW z, NEW u, Ends(c, z, u)
    PROVE  /\ z.boxes = c.d.boxes /\ SameNumbers(c.d, z) /\ z.ergoTrees = c.d.ergoTrees
           /\ \A kind : Open(kind, z) = Open(kind, c.d) /\ Every(kind, z) = Every(kind, c.d)
           /\ SameTxs(c.d, z) /\ z.tokensByGidx = c.d.tokensByGidx
           /\ z.genesisSeeded = c.d.genesisSeeded /\ z.genesisToken = c.d.genesisToken
           /\ z.emissionTree = c.d.emissionTree
           /\ u.createdBoxes = c.undo.createdBoxes /\ u.spentBoxes = c.undo.spentBoxes
           /\ u.registerKeys = c.undo.registerKeys /\ u.txIds = c.undo.txIds
           /\ u.treeTxs = c.undo.treeTxs /\ u.newTrees = c.undo.newTrees
<1>1. (FlushKeys \cup SealKeys) \cap BoxKeys = {}
    BY DEF FlushKeys, SealKeys, BoxKeys
<1>2. /\ DOMAIN c.d = TableKeys /\ DOMAIN c.undo = UndoKeys
      /\ Differ(c.d, z, FlushKeys \cup SealKeys)
      /\ Differ(c.undo, u, FlushNotes \cup SealNotes)
    BY DEF Shaped, Ends
<1>3. /\ z.boxes = c.d.boxes /\ SameNumbers(c.d, z) /\ z.ergoTrees = c.d.ergoTrees
      /\ \A kind : Open(kind, z) = Open(kind, c.d) /\ Every(kind, z) = Every(kind, c.d)
    BY <1>1, <1>2, BoxesUntouched
<1>4. /\ \A k \in TableKeys \ (FlushKeys \cup SealKeys) : z[k] = c.d[k]
      /\ \A k \in UndoKeys \ (FlushNotes \cup SealNotes) : u[k] = c.undo[k]
    BY <1>2 DEF Differ
<1>5. SameTxs(c.d, z) /\ z.tokensByGidx = c.d.tokensByGidx
    BY <1>4 DEF TableKeys, FlushKeys, SealKeys, SameTxs
<1>6. /\ z.genesisSeeded = c.d.genesisSeeded /\ z.genesisToken = c.d.genesisToken
      /\ z.emissionTree = c.d.emissionTree
    BY <1>4 DEF TableKeys, FlushKeys, SealKeys
<1>7. /\ u.createdBoxes = c.undo.createdBoxes /\ u.spentBoxes = c.undo.spentBoxes
      /\ u.registerKeys = c.undo.registerKeys /\ u.txIds = c.undo.txIds
      /\ u.treeTxs = c.undo.treeTxs /\ u.newTrees = c.undo.newTrees
    BY <1>4 DEF UndoKeys, FlushNotes, SealNotes
<1> QED BY <1>3, <1>5, <1>6, <1>7

(* What Since says of the tables of boxes and transactions, Sealed says.   *)
LEMMA EndSince ==
    ASSUME NEW d, Ready(d), NEW c, Shaped(c), Since(d, c, {}), NEW z, NEW u, Ends(c, z, u)
    PROVE  /\ BoxBase(d, z, u) /\ TxsSealed(d, z, u) /\ TreesSince(d, z, u.newTrees)
           /\ BoxOK(z, {}) /\ TxOK(z) /\ MintOK(z)
           /\ z.genesisSeeded = d.genesisSeeded /\ z.genesisToken = d.genesisToken
           /\ z.emissionTree = d.emissionTree
<1>1. /\ z.boxes = c.d.boxes /\ SameNumbers(c.d, z) /\ z.ergoTrees = c.d.ergoTrees
      /\ \A kind : Open(kind, z) = Open(kind, c.d) /\ Every(kind, z) = Every(kind, c.d)
      /\ SameTxs(c.d, z) /\ z.tokensByGidx = c.d.tokensByGidx
      /\ z.genesisSeeded = c.d.genesisSeeded /\ z.genesisToken = c.d.genesisToken
      /\ z.emissionTree = c.d.emissionTree
      /\ u.createdBoxes = c.undo.createdBoxes /\ u.spentBoxes = c.undo.spentBoxes
      /\ u.registerKeys = c.undo.registerKeys /\ u.txIds = c.undo.txIds
      /\ u.treeTxs = c.undo.treeTxs /\ u.newTrees = c.undo.newTrees
    BY EndKeeps
<1>2. BoxOK(z, {}) /\ BoxSince(d, z, c.undo)
    BY <1>1, RentOpen, SameBoxFacts DEF Since
<1>3. BoxSince(d, z, u)
    BY <1>1, <1>2, Zenon DEF BoxSince
<1>4. BoxBase(d, z, u)
    BY <1>2, <1>3 DEF Ready, BoxOK, BoxBase
<1>5. TxOK(z) /\ TxSince(d, z, c.undo.txIds, c.undo.treeTxs)
    BY <1>1 DEF Since, SameTxs, TxOK, TxSince
<1>6. TxsSealed(d, z, u)
    BY <1>1, <1>5 DEF Ready, TxSince, TxsSealed
<1>7. TreesSince(d, z, u.newTrees)
    BY <1>1 DEF Since, TreesSince
<1>8. MintOK(z)
    BY <1>1 DEF Since, MintOK, SameNumbers
<1> QED BY <1>1, <1>2, <1>4, <1>5, <1>6, <1>7, <1>8 DEF Since, Kept

-----------------------------------------------------------------------------
(* The tables a block begins over, without undo rows; and tables of height *)
(* n that a block may be indexed over.                                     *)

Bare(a) == [Opened(a) EXCEPT !.undo = <<>>]

Tight(a, n) ==
    /\ DOMAIN a = TableKeys /\ a.nextBox \in Nat
    /\ Ready(Bare(a)) /\ Tabled(a) /\ Ranked(a)
    /\ IsTable(a.headers) /\ IsTable(a.headerById) /\ DOMAIN a.headers = 1..n
    /\ \A id \in DOMAIN a.headerById : Height[id] \in 1..n

LEMMA BareIs ==
    ASSUME NEW a, DOMAIN a = TableKeys
    PROVE  /\ Differ(a, Bare(a), {"nextBox", "nextTx", "undo"})
           /\ Bare(a).nextBox = OrZero(a.nextBox) /\ Bare(a).nextTx = OrZero(a.nextTx)
           /\ Bare(a).undo = <<>>
           /\ Opened(a).nextBox = Bare(a).nextBox /\ Opened(a).nextTx = Bare(a).nextTx
           /\ Opened(a).undo = a.undo
<1>1. Opened(a) = [a EXCEPT !.nextBox = OrZero(a.nextBox), !.nextTx = OrZero(a.nextTx)]
    BY DEF Opened
<1>2. /\ Differ(a, Opened(a), {"nextBox", "nextTx"})
      /\ Opened(a).nextBox = OrZero(a.nextBox) /\ Opened(a).nextTx = OrZero(a.nextTx)
      /\ Opened(a).undo = a.undo
    BY <1>1, Zenon DEF Differ, TableKeys
<1>3. /\ Differ(Opened(a), Bare(a), {"undo"}) /\ Bare(a).undo = <<>>
      /\ Bare(a).nextBox = Opened(a).nextBox /\ Bare(a).nextTx = Opened(a).nextTx
    BY <1>2, Zenon DEF Bare, Differ, TableKeys
<1>4. Differ(a, Bare(a), {"nextBox", "nextTx"} \cup {"undo"})
    BY <1>2, <1>3, DifferTrans
<1>5. {"nextBox", "nextTx"} \cup {"undo"} = {"nextBox", "nextTx", "undo"}
    OBVIOUS
<1> QED BY <1>2, <1>3, <1>4, <1>5, Zenon

(* A block that has not begun.                                             *)
LEMMA SinceStart ==
    ASSUME NEW d, Ready(d), NEW c, c.d = d, c.undo = NoUndo, c.tok = <<>>, c.hold = <<>>
    PROVE  Since(d, c, {})
<1>1. /\ NoUndo.createdBoxes = {} /\ NoUndo.spentBoxes = {} /\ NoUndo.registerKeys = {}
      /\ NoUndo.txIds = {} /\ NoUndo.treeTxs = {} /\ NoUndo.newTrees = {}
    BY DEF NoUndo
<1>2. \A kind, boxes : Held(kind, boxes, {}) = {}
    BY DEF Held
<1>3. d.nextBox \in Nat /\ d.nextTx \in Nat
    BY DEF Ready, BoxOK, Numbered, TxOK
<1>4. BoxSince(d, d, NoUndo)
    <2>1. BoxesSince(d, d, {}, {}) /\ NumbersSince(d, d, {})
        BY <1>3 DEF BoxesSince, NumbersSince
    <2>2. {} \cap DOMAIN d.boxes = {}
        OBVIOUS
    <2>3. \A S : Shuffled(S, S, {}, {})
        BY DEF Shuffled
    <2>4. OpenSince(d, d, {}, {}) /\ EverySince(d, d, {})
        BY <1>2, <2>2, <2>3, Zenon DEF OpenSince, EverySince
    <2>5. RegistersSince(d, d, {})
        BY <2>3 DEF RegistersSince
    <2> QED BY <1>1, <2>1, <2>4, <2>5, Zenon DEF BoxSince
<1>5. TxSince(d, d, {}, {})
    BY <1>3 DEF TxSince, Shuffled
<1>6. TreesSince(d, d, {})
    BY DEF TreesSince
<1>7. MintSince(d, d, <<>>) /\ IsAmounts(<<>>)
    BY DEF MintSince, NewRows, IsAmounts
<1>8. Kept(d, d)
    BY DEF Kept
<1> QED BY <1>1, <1>4, <1>5, <1>6, <1>7, <1>8, Zenon DEF Since, Ready

(* The header and the undo row, written.                                   *)
SealedOver(e, b, a, t, u) ==
    /\ DOMAIN t = TableKeys /\ Differ(e.d, t, SealKeys) /\ Differ(e.undo, u, SealNotes)
    /\ \E row : row.id = b /\ t.headers = Put(e.d.headers, e.h, row)
    /\ t.headerById = Put(e.d.headerById, b, e.h)
    /\ t.undo = Put(a.undo, e.h, u) /\ t.undo[e.h] = u
    /\ u.prevNextBox = Bare(a).nextBox /\ u.prevNextTx = Bare(a).nextTx

LEMMA SealIs ==
    ASSUME NEW e, Shaped(e), NEW b, NEW a, DOMAIN a = TableKeys
    PROVE  LET c == SealBlock(e, b, Opened(a))
           IN  /\ c.corrupt = e.corrupt /\ c.h = e.h
               /\ \E u : SealedOver(e, b, a, c.d, u)
<1> DEFINE c == SealBlock(e, b, Opened(a))
           row == HeaderRow(e.d, b, Opened(a).nextTx)
           u == [e.undo EXCEPT !.prevNextBox = Opened(a).nextBox, !.prevNextTx = Opened(a).nextTx]
           heads == Put(e.d.headers, e.h, row)
           ids == Put(e.d.headerById, b, e.h)
           undo == Put(Opened(a).undo, e.h, u)
           f == [e EXCEPT !.d.headers = heads, !.d.headerById = ids, !.d.undo = undo]
<1>1. c = f
    BY Zenon DEF SealBlock
<1>2. row.id = b
    BY Zenon DEF HeaderRow
<1>3. /\ Opened(a).nextBox = Bare(a).nextBox /\ Opened(a).nextTx = Bare(a).nextTx
      /\ Opened(a).undo = a.undo
    BY BareIs
<1>4. /\ Differ(e.undo, u, SealNotes)
      /\ u.prevNextBox = Bare(a).nextBox /\ u.prevNextTx = Bare(a).nextTx
    BY <1>3, Zenon DEF Shaped, UndoKeys, Differ, SealNotes
<1> HIDE DEF u, row
<1>5. undo = Put(a.undo, e.h, u) /\ undo[e.h] = u
    BY <1>3 DEF Put
<1> HIDE DEF c, heads, ids, undo
<1>6. /\ f.corrupt = e.corrupt /\ f.h = e.h /\ DOMAIN f.d = TableKeys
      /\ Differ(e.d, f.d, SealKeys)
      /\ f.d.headers = heads /\ f.d.headerById = ids /\ f.d.undo = undo
    BY Zenon DEF Shaped, CtxKeys, TableKeys, Differ, SealKeys
<1> HIDE DEF f
<1>7. SealedOver(e, b, a, f.d, u)
    BY <1>2, <1>4, <1>5, <1>6, Zenon DEF SealedOver, heads, ids
<1>8. /\ c.corrupt = e.corrupt /\ c.h = e.h /\ \E v : SealedOver(e, b, a, c.d, v)
    BY <1>1, <1>6, <1>7, Zenon
<1> QED BY <1>8 DEF c

(* What makes tables ready is not the undo rows, nor an absent counter.    *)
LEMMA BoxBare ==
    ASSUME NEW z, DOMAIN z = TableKeys, BoxOK(z, {})
    PROVE  /\ BoxOK(Bare(z), {}) /\ z.nextBox \in Nat
           /\ MintOK(z) => MintOK(Bare(z))
<1> DEFINE e == Bare(z)
<1>1. Differ(z, e, {"nextBox", "nextTx", "undo"}) /\ e.nextBox = OrZero(z.nextBox)
    BY BareIs
<1> HIDE DEF e
<1>2. z.nextBox \in Nat
    BY DEF BoxOK, Numbered
<1>3. e.nextBox = z.nextBox
    BY <1>1, <1>2 DEF OrZero, NoRow
<1>4. Differ(z, e, {"nextTx", "undo"}) /\ {"nextTx", "undo"} \cap BoxKeys = {}
    BY <1>1, <1>3 DEF Differ, BoxKeys
<1>5. /\ e.boxes = z.boxes /\ SameNumbers(z, e)
      /\ \A kind : Open(kind, e) = Open(kind, z) /\ Every(kind, e) = Every(kind, z)
    BY <1>4, BoxesUntouched
<1>6. e.rentMatures = z.rentMatures
    BY <1>5, RentOpen
<1>7. BoxOK(e, {})
    BY <1>5, <1>6 DEF BoxOK, Numbered, Bounded, Listed, SameNumbers
<1>8. e.tokensByGidx = z.tokensByGidx
    BY <1>4 DEF Differ, TableKeys
<1> QED BY <1>2, <1>3, <1>7, <1>8 DEF MintOK, e

LEMMA ReadyBare ==
    ASSUME NEW z, DOMAIN z = TableKeys, BoxOK(z, {}), TxOK(z), MintOK(z),
           IsAmounts(z.tokenHolderAmt)
    PROVE  Ready(Bare(z)) /\ z.nextBox \in Nat
<1> DEFINE e == Bare(z)
<1>1. /\ Differ(z, e, {"nextBox", "nextTx", "undo"}) /\ e.nextTx = OrZero(z.nextTx)
    BY BareIs
<1>2. BoxOK(e, {}) /\ MintOK(e) /\ z.nextBox \in Nat
    BY BoxBare
<1> HIDE DEF e
<1>3. e.nextTx = z.nextTx
    BY <1>1 DEF OrZero, NoRow, TxOK
<1>4. SameTxs(z, e) /\ e.tokenHolderAmt = z.tokenHolderAmt
    BY <1>1, <1>3 DEF Differ, TableKeys, SameTxs
<1> QED BY <1>2, <1>4 DEF Ready, TxOK, SameTxs, e

(* The context of the next block over a.                                   *)
LEMMA BlockCtxIs ==
    ASSUME NEW a, NEW b
    PROVE  LET c == BlockCtx(a, b)
           IN  /\ c.d = Bare(a) /\ c.h = Height[b] /\ c.undo = NoUndo
               /\ c.tok = <<>> /\ c.hold = <<>>
BY DEF BlockCtx, Bare, NewCtx

(* A block indexed over tight tables leaves tight tables and an undo row   *)
(* that says all it did.                                                   *)
THEOREM BlockSealed ==
    ASSUME NEW n \in Nat, NEW a, Tight(a, n), NEW b \in Block, Height[b] = n + 1,
           NewTo(b, Bare(a)), Good(BlockCtx(a, b)), ~ ApplyBlock(a, b).corrupt
    PROVE  LET z == ApplyBlock(a, b).d
           IN  /\ Tight(z, n + 1) /\ Sealed(Bare(a), z, z.undo[n + 1], n + 1)
               /\ \E u : z.undo = Put(a.undo, n + 1, u)
<1> DEFINE c == BlockCtx(a, b)
           run == ApplyTxs(c, b)
           e == Flushed(run)
           y == ApplyBlock(a, b)
           z == y.d
           d == Bare(a)
<1>1. /\ DOMAIN a = TableKeys /\ a.nextBox \in Nat /\ Ready(d) /\ Tabled(a) /\ Ranked(a)
      /\ IsTable(a.headers) /\ IsTable(a.headerById) /\ DOMAIN a.headers = 1..n
      /\ \A id \in DOMAIN a.headerById : Height[id] \in 1..n
    BY DEF Tight
<1>2. /\ Differ(a, d, {"nextBox", "nextTx", "undo"})
      /\ \A k \in TableKeys \ {"nextBox", "nextTx", "undo"} : d[k] = a[k]
      /\ DOMAIN d = TableKeys
    BY <1>1, BareIs DEF Differ
<1> HIDE DEF d
<1>3. Tabled(d) /\ Ranked(d) /\ d.headers = a.headers /\ d.headerById = a.headerById
    <2>1. /\ d.treeBalance = a.treeBalance /\ d.tokens = a.tokens /\ d.templates = a.templates
          /\ d.tokenHolderAmt = a.tokenHolderAmt /\ d.rich = a.rich
          /\ d.tokensByHolders = a.tokensByHolders /\ d.tokenHolders = a.tokenHolders
          /\ d.headers = a.headers /\ d.headerById = a.headerById
        BY <1>2 DEF TableKeys
    <2> QED BY <1>1, <2>1, Zenon DEF Tabled, Ranked
<1>4. c.d = d /\ c.h = n + 1 /\ c.undo = NoUndo /\ c.tok = <<>> /\ c.hold = <<>>
    BY BlockCtxIs DEF d
<1> HIDE DEF c
<1>5. Good(c) /\ Since(d, c, {})
    BY <1>1, <1>4, SinceStart DEF c
<1>6. y = FinishBlock(run, b, Opened(a))
    BY DEF ApplyBlock, c
<1>7. Good(run) /\ (run.corrupt \/ Since(d, run, {}))
    BY <1>1, <1>4, <1>5, ApplyTxsSince DEF d
<1>8. run.corrupt \/ run.h = n + 1
    <2>1. run.corrupt \/ Moves(c, run, OutIds(b), OutIds(b), TxIds(b), RegistersOfBlock(b))
        BY <1>5, ApplyTxsMoves
    <2> QED BY <1>4, <2>1 DEF Moves
<1> HIDE DEF run
<1>9. ~ run.corrupt
    BY <1>6 DEF FinishBlock
<1>10. y = SealBlock(e, b, Opened(a))
    BY <1>6, <1>9 DEF FinishBlock, Flushed
<1>11. e.corrupt \/ FlushedOver(d, run, e)
    <2>1. Shaped(run) /\ IsFiniteSet(DOMAIN run.hold)
        BY <1>7, GoodShape DEF Good
    <2> QED BY <1>1, <1>3, <1>7, <1>9, <2>1, FlushedIs
<1>12. Good(e)
    BY <1>7, FlushedQuiet, QuietGood
<1> HIDE DEF e, y
<1>13. y.corrupt = e.corrupt /\ \E u : SealedOver(e, b, a, z, u)
    <2>1. Shaped(e)
        BY <1>12, GoodShape
    <2> QED BY <1>1, <1>10, <2>1, SealIs
<1>14. FlushedOver(d, run, e)
    BY <1>11, <1>13 DEF y
<1>15. PICK u : SealedOver(e, b, a, z, u)
    BY <1>13
<1> HIDE DEF z
<1>16. /\ Shaped(run) /\ Shaped(e) /\ e.h = n + 1 /\ Since(d, run, {})
       /\ RowsSealed(d, e.d, e.undo) /\ MintSealed(d, e.d, e.undo)
       /\ Tabled(e.d) /\ Ranked(e.d)
       /\ Differ(run.d, e.d, FlushKeys) /\ Differ(run.undo, e.undo, FlushNotes)
    BY <1>7, <1>8, <1>9, <1>14, GoodShape DEF FlushedOver
<1>17. /\ DOMAIN z = TableKeys /\ Differ(e.d, z, SealKeys) /\ Differ(e.undo, u, SealNotes)
       /\ \E row : row.id = b /\ z.headers = Put(e.d.headers, n + 1, row)
       /\ z.headerById = Put(e.d.headerById, b, n + 1)
       /\ z.undo = Put(a.undo, n + 1, u) /\ z.undo[n + 1] = u
       /\ u.prevNextBox = d.nextBox /\ u.prevNextTx = d.nextTx
    BY <1>15, <1>16 DEF SealedOver, d
<1>18. Ends(run, z, u)
    BY <1>16, <1>17, DifferTrans DEF Ends
<1>19. /\ BoxBase(d, z, u) /\ TxsSealed(d, z, u) /\ TreesSince(d, z, u.newTrees)
       /\ BoxOK(z, {}) /\ TxOK(z) /\ MintOK(z)
       /\ z.genesisSeeded = d.genesisSeeded /\ z.genesisToken = d.genesisToken
       /\ z.emissionTree = d.emissionTree
    BY <1>1, <1>16, <1>18, EndSince
<1>20. /\ z.treeBalance = e.d.treeBalance /\ z.rich = e.d.rich /\ z.tokens = e.d.tokens
       /\ z.tokensByHolders = e.d.tokensByHolders /\ z.templates = e.d.templates
       /\ z.tokenHolderAmt = e.d.tokenHolderAmt /\ z.tokenHolders = e.d.tokenHolders
       /\ z.tokensByGidx = e.d.tokensByGidx
    BY <1>16, <1>17 DEF Differ, Shaped, TableKeys, SealKeys
<1>21. /\ u.newBalances = e.undo.newBalances /\ u.prevBalances = e.undo.prevBalances
       /\ u.newTokens = e.undo.newTokens /\ u.prevTokens = e.undo.prevTokens
       /\ u.newTemplates = e.undo.newTemplates /\ u.prevTemplates = e.undo.prevTemplates
       /\ u.prevHolderAmts = e.undo.prevHolderAmts
    BY <1>16, <1>17 DEF Differ, Shaped, UndoKeys, SealNotes
<1>22. Tabled(z) /\ Ranked(z) /\ RowsSealed(d, z, u) /\ MintSealed(d, z, u)
    <2>1. Tabled(z) /\ Ranked(z)
        BY <1>16, <1>20, Zenon DEF Tabled, Ranked
    <2>2. RowsSealed(d, z, u)
        BY <1>16, <1>20, <1>21, Zenon DEF RowsSealed
    <2>3. MintSealed(d, z, u)
        BY <1>16, <1>20, <1>21 DEF MintSealed, MintSince
    <2> QED BY <2>1, <2>2, <2>3
<1>23. e.d.headers = a.headers /\ e.d.headerById = a.headerById
    <2>1. run.d.headers = d.headers /\ run.d.headerById = d.headerById
        BY <1>16 DEF Since, Kept
    <2>2. e.d.headers = run.d.headers /\ e.d.headerById = run.d.headerById
        BY <1>16 DEF Differ, Shaped, TableKeys, FlushKeys
    <2> QED BY <1>3, <2>1, <2>2
<1>24. b \notin DOMAIN a.headerById /\ n + 1 \notin DOMAIN a.headers
    BY <1>1
<1>25. HeaderSealed(d, z, u, n + 1)
    BY <1>1, <1>3, <1>17, <1>23, <1>24 DEF HeaderSealed
<1>26. MetaSealed(d, z, u)
    BY <1>17, <1>19 DEF MetaSealed
<1>27. Sealed(d, z, u, n + 1)
    BY <1>2, <1>3, <1>17, <1>19, <1>22, <1>25, <1>26 DEF Sealed
<1>28. Tight(z, n + 1)
    <2>1. Ready(Bare(z)) /\ z.nextBox \in Nat
        BY <1>17, <1>19, <1>22, ReadyBare DEF Tabled
    <2>2. /\ IsTable(z.headers) /\ IsTable(z.headerById)
          /\ DOMAIN z.headers = {n + 1} \cup 1..n
          /\ DOMAIN z.headerById = {b} \cup DOMAIN a.headerById
        BY <1>1, <1>17, <1>23 DEF Put, IsTable
    <2>3. DOMAIN z.headers = 1..(n + 1)
        BY <2>2
    <2>4. \A id \in DOMAIN z.headerById : Height[id] \in 1..(n + 1)
        BY <1>1, <2>2
    <2> QED BY <1>17, <1>22, <2>1, <2>2, <2>3, <2>4 DEF Tight
<1> QED BY <1>17, <1>27, <1>28 DEF d, z, y

-----------------------------------------------------------------------------
(* seed_genesis.                                                           *)

EmptyBalance == [nano |-> 0, tokens |-> EmptyBag, boxCount |-> 0,
              firstSeen |-> 0, lastSeen |-> 0, txCount |-> 0]

Balanced(d) == IsTable(d.treeBalance) /\ d.rich = RichOf(d.treeBalance)

LEMMA SeedBalanceIs ==
    ASSUME NEW d, DOMAIN d = TableKeys, Balanced(d), NEW o
    PROVE  LET z == SeedBalance(d, o)
           IN  Differ(d, z, {"rich", "treeBalance"}) /\ Balanced(z)
<1> DEFINE z == SeedBalance(d, o)
           rows == d.treeBalance
           old == Lookup(rows, o.tree, EmptyBalance)
           new == [old EXCEPT !.nano = @ + o.value, !.boxCount = @ + 1,
                              !.tokens = @ (+) o.tokens]
           table == Put(rows, o.tree, new)
           rank == (d.rich \ {<<old.nano, o.tree>>})
                      \cup (IF new.nano > 0 THEN {<<new.nano, o.tree>>} ELSE {})
           one == [t \in {o.tree} |-> new]
           f == [d EXCEPT !.rich = rank, !.treeBalance = table]
<1>1. z = f
    BY Zenon DEF SeedBalance, EmptyBalance
<1>2. old = IF o.tree \in DOMAIN rows THEN rows[o.tree] ELSE EmptyBalance
    BY Zenon DEF Lookup
<1> HIDE DEF new, old
<1>3. /\ IsTable(table) /\ DOMAIN table = {o.tree} \cup DOMAIN rows
      /\ table[o.tree] = new
      /\ \A t \in DOMAIN rows \ {o.tree} : table[t] = rows[t]
    BY DEF Put, IsTable
<1>4. DOMAIN one = {o.tree} /\ one[o.tree] = new
    OBVIOUS
<1> HIDE DEF table, one
<1>5. Rewritten(rows, one, {}, table)
    BY <1>3, <1>4 DEF Rewritten
<1>6. RichLeft(rows, {} \cup DOMAIN one) \cup RichOf(one) = RichOf(table)
    BY <1>5, RichMoves
<1>7. RichOf(one) = IF new.nano > 0 THEN {<<new.nano, o.tree>>} ELSE {}
    BY <1>4 DEF RichOf
<1>8. RichLeft(rows, {} \cup DOMAIN one) = RichOf(rows) \ {<<old.nano, o.tree>>}
    <2>1. RichLeft(rows, {} \cup DOMAIN one) = RichOf(rows) \ {<<rows[o.tree].nano, o.tree>>}
        BY <1>4 DEF RichLeft
    <2>2. CASE o.tree \in DOMAIN rows
        BY <1>2, <2>1, <2>2
    <2>3. CASE o.tree \notin DOMAIN rows
        <3>1. \A n : <<n, o.tree>> \notin RichOf(rows)
            BY <2>3 DEF RichOf
        <3> QED BY <2>1, <3>1
    <2> QED BY <2>2, <2>3
<1>9. rank = RichOf(table)
    BY <1>6, <1>7, <1>8 DEF Balanced
<1> HIDE DEF rank, z, rows
<1>10. /\ Differ(d, f, {"rich", "treeBalance"})
       /\ f.rich = rank /\ f.treeBalance = table
    BY Zenon DEF Differ, TableKeys
<1> HIDE DEF f
<1> QED BY <1>1, <1>3, <1>9, <1>10 DEF Balanced, z

SeedKeys == BoxKeys \cup {"rich", "treeBalance"}

(* What the chain-spec boxes leave, so far, of tables that began as d.     *)
SeedsOver(d, c, n) ==
    /\ Shaped(c) /\ IsAmounts(c.hold) /\ BoxOK(c.d, {}) /\ Balanced(c.d)
    /\ DOMAIN c.d.boxes = DOMAIN d.boxes \cup IdsOf(Genesis, n)
    /\ Differ(d, c.d, SeedKeys)

(* A chain-spec output takes its number, and no chain-spec token is        *)
(* refused a row.                                                          *)
LEMMA SeedBoxKeeps ==
    ASSUME NEW c, Shaped(c), IsAmounts(c.hold), IsAmounts(c.d.tokenHolderAmt),
           BoxOK(c.d, {}), Balanced(c.d), NEW o, o.id \notin DOMAIN c.d.boxes,
           IsABag(o.tokens), IsFiniteSet(BagToSet(o.tokens)),
           BagToSet(o.tokens) \subseteq c.d.genesisToken
    PROVE  LET e == SeedBox(c, o)
           IN  /\ Shaped(e) /\ IsAmounts(e.hold) /\ BoxOK(e.d, {}) /\ Balanced(e.d)
               /\ DOMAIN e.d.boxes = DOMAIN c.d.boxes \cup {o.id}
               /\ Differ(c.d, e.d, SeedKeys)
<1> DEFINE gidx == c.d.nextBox
           i == InsertOutput(c.d, gidx, o, "genesis")
           j == SeedBalance(i, o)
           d == [j EXCEPT !.nextBox = @ + 1, !.ergoTrees = @ \cup {o.tree}]
           s == [c EXCEPT !.d = d]
           f == ExtrasOnOutput(s, gidx, o)
           h == HoldTokens(f, gidx, o)
           e == TokensOnOutput(f, gidx, o)
           row == RowOf(gidx, o, "genesis")
           regs == RegistersAt(gidx, o)
           I == {"boxes", "boxByGidx", "treeBoxes", "treeUnspent", "rentMatures"}
           B == {"rich", "treeBalance"}
           X == {"templateBoxes", "templateUnspent", "registerIdx"}
           K == {"tokenBoxes", "tokenUnspent"}
<1>1. SeedBox(c, o) = e
    BY Zenon DEF SeedBox
<1>2. DOMAIN c.d = TableKeys /\ DOMAIN i = TableKeys /\ Differ(c.d, i, I)
    BY InsertOutputDiffers DEF Shaped, Differ
<1> HIDE DEF i
<1>3. Balanced(i) /\ i.nextBox = gidx
    BY <1>2 DEF Differ, TableKeys, Balanced
<1>4. Differ(i, j, B) /\ Balanced(j) /\ DOMAIN j = TableKeys /\ j.nextBox = gidx
    <2>1. Differ(i, j, B) /\ Balanced(j)
        BY <1>2, <1>3, SeedBalanceIs
    <2> HIDE DEF j
    <2> QED BY <1>2, <1>3, <2>1 DEF Differ, TableKeys
<1> HIDE DEF j
<1>5. /\ Differ(j, d, {"nextBox", "ergoTrees"}) /\ d.nextBox = gidx + 1
    BY <1>4, Zenon DEF Differ, TableKeys
<1> HIDE DEF d
<1>6. /\ Differ(c, s, {"d"}) /\ s.d = d /\ Shaped(s) /\ s.hold = c.hold
    BY <1>4, <1>5 DEF Differ, Shaped, CtxKeys
<1> HIDE DEF s
<1>7. /\ Differ(s, f, {"d", "undo", "tmpl"}) /\ Differ(s.d, f.d, X)
      /\ Differ(s.undo, f.undo, {"registerKeys"})
      /\ f.d.templateBoxes = s.d.templateBoxes \cup {<<Template[o.tree], gidx>>}
      /\ f.d.templateUnspent = s.d.templateUnspent \cup {<<Template[o.tree], gidx>>}
      /\ f.d.registerIdx = s.d.registerIdx \cup RegistersAt(gidx, o)
    BY <1>6, ExtrasOnOutputDiffers
<1> HIDE DEF f
<1>8. Shaped(f) /\ f.hold = c.hold
    BY <1>6, <1>7 DEF Differ, Shaped, CtxKeys
<1>9. Makes(c.d, f.d, o.id, row, regs)
    <2>1. Differ(i, s.d, B \cup {"nextBox", "ergoTrees"})
        BY <1>4, <1>5, <1>6, DifferTrans
    <2> QED BY Zenon, <1>2, <1>5, <1>6, <1>7, <2>1, OutputMakes DEF i
<1>10. IsRow(row) /\ row.tokens = o.tokens
    BY RowOfIsRow
<1>11. BoxOK(f.d, {} \cup {o.id})
    BY <1>9, <1>10, MakesKeeps
<1>12. DOMAIN f.d.boxes = DOMAIN c.d.boxes \cup {o.id} /\ f.d.boxes[o.id] = row
    BY <1>9 DEF Makes, Put
<1>13. Differ(c.d, f.d, SeedKeys)
    <2>1. Differ(c.d, f.d, ((I \cup B) \cup {"nextBox", "ergoTrees"}) \cup X)
        BY Zenon, <1>2, <1>4, <1>5, <1>6, <1>7, DifferTrans
    <2>2. ((I \cup B) \cup {"nextBox", "ergoTrees"}) \cup X \subseteq SeedKeys
        BY DEF SeedKeys, BoxKeys
    <2> QED BY <2>1, <2>2 DEF Differ
<1>14. /\ f.d.genesisToken = c.d.genesisToken /\ f.d.tokenHolderAmt = c.d.tokenHolderAmt
    BY <1>8, <1>13 DEF Differ, Shaped, TableKeys, SeedKeys, BoxKeys
<1>15. Balanced(f.d)
    <2>1. f.d.treeBalance = j.treeBalance /\ f.d.rich = j.rich
        BY <1>4, <1>5, <1>6, <1>7 DEF Differ, TableKeys
    <2> QED BY <1>4, <2>1 DEF Balanced
<1>16. Moved(f, h) /\ IsAmounts(h.hold) /\ Holds(f.d, h.d, f.d.boxes[o.id], o.id)
    BY <1>8, <1>12, <1>14, HoldTokensHolds DEF row
<1>17. e = FoldSet(LAMBDA t, acc : CountBox(acc, t), h, BagToSet(o.tokens))
    <2>1. ~ \E t \in BagToSet(o.tokens) : TokenRowRefused(f, t)
        BY <1>14 DEF TokenRowRefused
    <2> QED BY <2>1, Zenon DEF TokensOnOutput
<1> HIDE DEF h, row
<1>18. BoxOK(h.d, {})
    <2>1. BoxOK(h.d, ({} \cup {o.id}) \ {o.id})
        BY Zenon, <1>11, <1>12, <1>16, HoldsKeeps
    <2>2. ({} \cup {o.id}) \ {o.id} = {}
        OBVIOUS
    <2> QED BY <2>1, <2>2
<1>19. Shaped(h) /\ Differ(f.d, h.d, K)
    BY <1>8, <1>16 DEF Moved, Differ, Shaped, CtxKeys
<1>20. Recounts(h, e)
    BY <1>17, <1>19, CountsRecount, Zenon
<1> HIDE DEF e
<1>21. Shaped(e) /\ e.d = h.d /\ e.hold = h.hold
    BY <1>19, <1>20, RecountsKeepsShape
<1>22. /\ h.d.boxes = f.d.boxes /\ h.d.treeBalance = f.d.treeBalance /\ h.d.rich = f.d.rich
    BY <1>8, <1>19 DEF Differ, Shaped, TableKeys
<1>23. Differ(c.d, h.d, SeedKeys)
    <2>1. Differ(c.d, h.d, SeedKeys \cup K) /\ SeedKeys \cup K = SeedKeys
        BY <1>13, <1>19, DifferTrans DEF SeedKeys, BoxKeys
    <2> QED BY <2>1
<1>24. Balanced(h.d)
    BY <1>15, <1>22 DEF Balanced
<1> QED BY <1>1, <1>12, <1>16, <1>18, <1>21, <1>22, <1>23, <1>24

(* Inv of the loop over the chain-spec boxes.                              *)
SeedingOver(p, q, base, n, acc) == SeedsOver(base.d, acc, n)

LOCAL Seeds == INSTANCE FoldTheory WITH
    Op <- LAMBDA p, q, acc, o : SeedBox(acc, o), Inv <- SeedingOver

ChainSpecTokens == UNION {BagToSet(o.tokens) : o \in Range(Genesis)}

LEMMA GenesisSeeds ==
    ASSUME NEW c, Shaped(c), c.d.boxes = <<>>, c.d.genesisToken = ChainSpecTokens,
           BoxOK(c.d, {}), Balanced(c.d), IsAmounts(c.hold), IsAmounts(c.d.tokenHolderAmt)
    PROVE  SeedsOver(c.d, FoldLeft(LAMBDA acc, o : SeedBox(acc, o), c, Genesis), Len(Genesis))
<1> DEFINE m == Len(Genesis)
           out == Seeds!Left(0, 0, c, Genesis)
           all == FoldLeft(LAMBDA acc, o : SeedBox(acc, o), c, Genesis)
<1>1. all = out
    BY DEF FoldLeft, MapThenFoldSet, Max, Seeds!Left, Seeds!LeftFold, Seeds!Greatest
<1> HIDE DEF all
<1>2. /\ DOMAIN Genesis = 1..m /\ m \in Nat /\ BoxIds(Genesis) = {Genesis[k].id : k \in 1..m}
      /\ FiniteTokens(Genesis) /\ Distinct(Genesis)
    BY BoxList, ContentAssumption, DistinctAssumption
<1>3. \A k \in 1..m : /\ IsABag(Genesis[k].tokens)
                      /\ BagToSet(Genesis[k].tokens) \subseteq ChainSpecTokens
    <2>1. \A k \in 1..m : Genesis[k] \in Range(Genesis)
        BY <1>2 DEF Range
    <2> QED BY <2>1, ContentAssumption DEF FiniteBoxes, ChainSpecTokens
<1>4. SeedingOver(0, 0, c, 0, c)
    <2>1. DOMAIN c.d.boxes = DOMAIN c.d.boxes \cup IdsOf(Genesis, 0)
        BY NoIds
    <2>2. Differ(c.d, c.d, SeedKeys)
        BY DEF Differ
    <2> QED BY <2>1, <2>2 DEF SeedingOver, SeedsOver
<1>5. ASSUME NEW i \in 1..m, NEW acc, SeedingOver(0, 0, c, i - 1, acc)
      PROVE  SeedingOver(0, 0, c, i, SeedBox(acc, Genesis[i]))
    <2> DEFINE e == SeedBox(acc, Genesis[i])
    <2>1. SeedsOver(c.d, acc, i - 1)
        BY <1>5 DEF SeedingOver
    <2>2. /\ Shaped(acc) /\ IsAmounts(acc.hold) /\ BoxOK(acc.d, {}) /\ Balanced(acc.d)
          /\ DOMAIN acc.d.boxes = DOMAIN c.d.boxes \cup IdsOf(Genesis, i - 1)
          /\ Differ(c.d, acc.d, SeedKeys)
        BY <2>1 DEF SeedsOver
    <2>3. acc.d.genesisToken = ChainSpecTokens /\ acc.d.tokenHolderAmt = c.d.tokenHolderAmt
        BY <2>2 DEF Shaped, Differ, TableKeys, SeedKeys, BoxKeys
    <2>4. Genesis[i].id \notin DOMAIN acc.d.boxes
        <3>1. \A k \in 1..(i - 1) : Genesis[k].id # Genesis[i].id
            BY <1>2 DEF Distinct
        <3>2. DOMAIN c.d.boxes = {}
            OBVIOUS
        <3> QED BY <2>2, <3>1, <3>2 DEF IdsOf
    <2>5. /\ Shaped(e) /\ IsAmounts(e.hold) /\ BoxOK(e.d, {}) /\ Balanced(e.d)
          /\ DOMAIN e.d.boxes = DOMAIN acc.d.boxes \cup {Genesis[i].id}
          /\ Differ(acc.d, e.d, SeedKeys)
        <3>1. IsFiniteSet(BagToSet(Genesis[i].tokens)) /\ IsAmounts(acc.d.tokenHolderAmt)
            BY <1>2, <2>3 DEF FiniteTokens
        <3> QED BY <1>3, <2>2, <2>3, <2>4, <3>1, SeedBoxKeeps
    <2> HIDE DEF e
    <2>6. DOMAIN e.d.boxes = DOMAIN c.d.boxes \cup IdsOf(Genesis, i)
        <3>1. IdsOf(Genesis, i) = IdsOf(Genesis, i - 1) \cup {Genesis[i].id}
            BY NextIds
        <3> QED BY <2>2, <2>5, <3>1
    <2>7. Differ(c.d, e.d, SeedKeys)
        BY <2>2, <2>5 DEF Differ
    <2>8. SeedsOver(c.d, e, i)
        BY <2>5, <2>6, <2>7 DEF SeedsOver
    <2> QED BY <2>8 DEF SeedingOver, e
<1>6. SeedingOver(0, 0, c, m, out)
    BY <1>2, <1>4, <1>5, LeastNatural, Seeds!LeftValue
<1> HIDE DEF out
<1> QED BY <1>1, <1>6, Zenon DEF SeedingOver, all

(* The tables of a new store, as the seed finds them.                      *)
LEMMA EmptyTables ==
    LET d == NoTables
    IN  /\ DOMAIN d = TableKeys /\ d.headers = <<>> /\ d.headerById = <<>> /\ d.undo = <<>>
        /\ d.nextBox = NoRow /\ d.nextTx = NoRow /\ d.boxes = <<>> /\ d.boxByGidx = <<>>
        /\ d.ergoTrees = {} /\ d.treeBoxes = {} /\ d.treeUnspent = {} /\ d.treeTxs = {}
        /\ d.rentMatures = {} /\ d.txs = <<>> /\ d.txByGidx = <<>> /\ d.treeBalance = <<>>
        /\ d.rich = {} /\ d.templates = <<>> /\ d.templateBoxes = {}
        /\ d.templateUnspent = {} /\ d.registerIdx = {} /\ d.tokens = <<>>
        /\ d.tokensByGidx = <<>> /\ d.tokensByHolders = {} /\ d.tokenBoxes = {}
        /\ d.tokenUnspent = {} /\ d.tokenHolders = {} /\ d.tokenHolderAmt = <<>>
BY DEF NoTables, TableKeys

LEMMA NoRows ==
    /\ IsTable(<<>>) /\ IsAmounts(<<>>) /\ RichOf(<<>>) = {} /\ RankOf(<<>>) = {}
    /\ HoldersOf(<<>>) = {}
BY DEF IsTable, IsAmounts, RichOf, RankOf, HoldersOf

LEMMA EmptyBoxes ==
    ASSUME NEW d, d.boxes = <<>>, d.boxByGidx = <<>>, d.nextBox = 0, d.registerIdx = {},
           d.treeBoxes = {}, d.treeUnspent = {}, d.rentMatures = {}, d.templateBoxes = {},
           d.templateUnspent = {}, d.tokenBoxes = {}, d.tokenUnspent = {}
    PROVE  BoxOK(d, {})
<1>1. DOMAIN d.boxes = {} /\ DOMAIN d.boxByGidx = {} /\ IsTable(<<>>)
    BY NoRows
<1>2. Numbered(d) /\ Listed(d, {})
    BY <1>1 DEF Numbered, Listed
<1>3. \A kind : Open(kind, d) = {} /\ Every(kind, d) = {}
    BY DEF Open, Every
<1>4. Bounded(d)
    BY <1>3 DEF Bounded
<1> QED BY <1>2, <1>4 DEF BoxOK

(* What the flush of seed_genesis leaves, also where it meets an error.    *)
LEMMA SeedFlushed ==
    ASSUME NEW c, Shaped(c), IsAmounts(c.hold), IsFiniteSet(DOMAIN c.hold), Balanced(c.d),
           c.d.templates = <<>>, c.d.tokens = <<>>, c.d.tokensByHolders = {},
           c.d.tokenHolders = {}, c.d.tokenHolderAmt = <<>>
    PROVE  LET g == FlushTokens(FlushHolders(FlushTemplates(c)))
           IN  /\ DOMAIN g.d = TableKeys /\ Differ(c.d, g.d, FlushKeys)
               /\ Tabled(g.d) /\ Ranked(g.d)
<1> DEFINE c1 == FlushTemplates(c)
           c2 == FlushHolders(c1)
           g == FlushTokens(c2)
<1>1. FlushedTemplates(c, c1)
    BY NoRows, FlushTemplatesIs
<1> HIDE DEF c1
<1>2. /\ Shaped(c1) /\ c1.hold = c.hold /\ IsTable(c1.d.templates)
      /\ \A k \in TableKeys \ {"templates"} : c1.d[k] = c.d[k]
    BY <1>1 DEF FlushedTemplates, Differ, Shaped, CtxKeys
<1>3. FlushedHolders(c1, c2)
    <2>1. c1.d.tokenHolders = {} /\ c1.d.tokenHolderAmt = <<>>
        BY <1>2 DEF TableKeys
    <2> QED BY Zenon, <1>2, <2>1, NoRows, FlushHoldersIs
<1> HIDE DEF c2
<1>4. /\ Shaped(c2) /\ c2.hold = c.hold
      /\ \A k \in TableKeys \ {"tokenHolders", "tokenHolderAmt"} : c2.d[k] = c1.d[k]
      /\ IsTable(c2.d.tokenHolderAmt) /\ IsAmounts(c2.d.tokenHolderAmt)
      /\ c2.d.tokenHolders = HoldersOf(c2.d.tokenHolderAmt)
    BY <1>2, <1>3 DEF FlushedHolders, Differ, Shaped, CtxKeys
<1>5. /\ \A k \in TableKeys \ {"templates", "tokenHolders", "tokenHolderAmt"} : c2.d[k] = c.d[k]
      /\ c2.d.templates = c1.d.templates
    BY <1>2, <1>4 DEF TableKeys
<1>6. c2.d.tokens = <<>> /\ c2.d.tokensByHolders = {}
    BY <1>5 DEF TableKeys
<1>7. g = Corrupt(c2) \/ FlushedTokens(c2, g)
    BY Zenon, <1>4, <1>6, NoRows, FlushTokensIs
<1> HIDE DEF g
<1>8. /\ DOMAIN g.d = TableKeys /\ IsTable(g.d.tokens) /\ g.d.tokensByHolders = RankOf(g.d.tokens)
      /\ \A k \in TableKeys \ {"tokens", "tokensByHolders"} : g.d[k] = c2.d[k]
    <2>1. CASE g = Corrupt(c2)
        <3>1. g.d = c2.d
            BY <1>4, <2>1 DEF Corrupt, Shaped, CtxKeys
        <3> QED BY Zenon, <1>4, <1>6, <3>1, NoRows DEF Shaped
    <2>2. CASE FlushedTokens(c2, g)
        BY <1>4, <2>2 DEF FlushedTokens, Differ, Shaped
    <2> QED BY <1>7, <2>1, <2>2
<1>9. /\ g.d.templates = c2.d.templates /\ g.d.tokenHolderAmt = c2.d.tokenHolderAmt
      /\ g.d.tokenHolders = c2.d.tokenHolders /\ g.d.treeBalance = c2.d.treeBalance
      /\ g.d.rich = c2.d.rich
    BY <1>8 DEF TableKeys
<1>10. c2.d.treeBalance = c.d.treeBalance /\ c2.d.rich = c.d.rich
    BY <1>5 DEF TableKeys
<1>11. Tabled(g.d)
    BY <1>2, <1>4, <1>5, <1>8, <1>9, <1>10 DEF Tabled, Balanced
<1>12. Ranked(g.d)
    BY <1>4, <1>8, <1>9, <1>10 DEF Ranked, Balanced
<1>13. Differ(c.d, g.d, FlushKeys)
    BY <1>5, <1>8 DEF Differ, Shaped, FlushKeys
<1> QED BY <1>8, <1>11, <1>12, <1>13 DEF g, c2, c1

(* A seeded store is where every sync begins.                              *)
LEMMA SeedTight ==
    LET t == SeedTables(NoTables)
    IN  Tight(t, 0) /\ t.undo = <<>> /\ t.nextTx = NoRow
<1> DEFINE d1 == [NoTables EXCEPT !.nextBox = OrZero(@),
                    !.genesisToken = UNION {BagToSet(o.tokens) : o \in Range(Genesis)}]
           c == NewCtx(d1, 0)
           e == FoldLeft(LAMBDA acc, o : SeedBox(acc, o), c, Genesis)
           g == FlushTokens(FlushHolders(FlushTemplates(e)))
           trees == IF Genesis = <<>> THEN {} ELSE {LargestBox(Genesis).tree}
           t == [g.d EXCEPT !.emissionTree = trees, !.genesisSeeded = TRUE]
           S == {"nextBox", "genesisToken"}
<1>0. SeedTables(NoTables) = t
    BY Zenon DEF SeedTables
<1>1. /\ DOMAIN d1 = TableKeys /\ Differ(NoTables, d1, S)
      /\ d1.nextBox = OrZero(NoTables.nextBox) /\ d1.genesisToken = ChainSpecTokens
    <2>1. DOMAIN NoTables = TableKeys
        BY EmptyTables
    <2> QED BY <2>1, Zenon DEF Differ, TableKeys, ChainSpecTokens
<1> HIDE DEF d1, trees
<1>2. \A k \in TableKeys \ S : d1[k] = NoTables[k]
    BY <1>1, EmptyTables DEF Differ
<1>3. /\ d1.headers = <<>> /\ d1.headerById = <<>> /\ d1.undo = <<>>
      /\ d1.nextTx = NoRow /\ d1.boxes = <<>> /\ d1.boxByGidx = <<>>
      /\ d1.ergoTrees = {} /\ d1.treeBoxes = {} /\ d1.treeUnspent = {} /\ d1.treeTxs = {}
    BY <1>2, EmptyTables DEF TableKeys
<1>4. /\ d1.rentMatures = {} /\ d1.txs = <<>> /\ d1.txByGidx = <<>> /\ d1.treeBalance = <<>>
      /\ d1.rich = {} /\ d1.templates = <<>> /\ d1.templateBoxes = {}
      /\ d1.templateUnspent = {} /\ d1.registerIdx = {} /\ d1.tokens = <<>>
    BY <1>2, EmptyTables DEF TableKeys
<1>5. /\ d1.tokensByGidx = <<>> /\ d1.tokensByHolders = {} /\ d1.tokenBoxes = {}
      /\ d1.tokenUnspent = {} /\ d1.tokenHolders = {} /\ d1.tokenHolderAmt = <<>>
    BY <1>2, EmptyTables DEF TableKeys
<1>6. d1.nextBox = 0
    BY <1>1, EmptyTables DEF OrZero, NoRow
<1>7. BoxOK(d1, {}) /\ Balanced(d1)
    BY <1>3, <1>4, <1>5, <1>6, EmptyBoxes, NoRows DEF Balanced
<1>8. Good(c) /\ c.d = d1 /\ c.hold = <<>>
    <2>1. Base(d1)
        BY <1>1, <1>3, <1>4, FS_EmptySet DEF Base
    <2> QED BY <2>1, NewCtxGood DEF NewCtx
<1> HIDE DEF c
<1>9. SeedsOver(d1, e, Len(Genesis))
    <2>1. Shaped(c)
        BY <1>8, GoodShape
    <2> QED BY <1>1, <1>3, <1>5, <1>7, <1>8, <2>1, NoRows, GenesisSeeds
<1>10. Good(e)
    BY <1>8, GenesisMoves, Zenon DEF Moves
<1> HIDE DEF e
<1>11. /\ Shaped(e) /\ IsAmounts(e.hold) /\ BoxOK(e.d, {}) /\ Balanced(e.d)
       /\ IsFiniteSet(DOMAIN e.hold) /\ Differ(d1, e.d, SeedKeys)
    BY <1>9, <1>10 DEF SeedsOver, Good
<1>12. \A k \in TableKeys \ SeedKeys : e.d[k] = d1[k]
    BY <1>1, <1>11 DEF Differ
<1>13. /\ e.d.templates = <<>> /\ e.d.tokens = <<>> /\ e.d.tokensByHolders = {}
       /\ e.d.tokenHolders = {} /\ e.d.tokenHolderAmt = <<>> /\ e.d.tokensByGidx = <<>>
    BY <1>4, <1>5, <1>12 DEF TableKeys, SeedKeys, BoxKeys
<1>14. /\ e.d.headers = <<>> /\ e.d.headerById = <<>> /\ e.d.undo = <<>>
       /\ e.d.txs = <<>> /\ e.d.txByGidx = <<>> /\ e.d.treeTxs = {} /\ e.d.nextTx = NoRow
    BY <1>3, <1>4, <1>12 DEF TableKeys, SeedKeys, BoxKeys
<1>15. /\ DOMAIN g.d = TableKeys /\ Differ(e.d, g.d, FlushKeys) /\ Tabled(g.d) /\ Ranked(g.d)
    BY <1>11, <1>13, SeedFlushed
<1> HIDE DEF g
<1>16. DOMAIN t = TableKeys /\ Differ(g.d, t, {"emissionTree", "genesisSeeded"})
    BY <1>15, Zenon DEF Differ
<1> HIDE DEF t
<1>17. Tabled(t) /\ Ranked(t)
    <2>1. /\ t.treeBalance = g.d.treeBalance /\ t.tokens = g.d.tokens
          /\ t.templates = g.d.templates
          /\ t.tokenHolderAmt = g.d.tokenHolderAmt /\ t.rich = g.d.rich
          /\ t.tokensByHolders = g.d.tokensByHolders /\ t.tokenHolders = g.d.tokenHolders
        BY <1>15, <1>16 DEF Differ, TableKeys
    <2> QED BY <1>15, <2>1, Zenon DEF Tabled, Ranked
<1> DEFINE R == FlushKeys \cup {"emissionTree", "genesisSeeded"}
<1>18. Differ(e.d, t, R)
    BY <1>15, <1>16, DifferTrans
<1>19. R \cap BoxKeys = {}
    BY DEF FlushKeys, BoxKeys
<1>20. \A k \in TableKeys \ R : t[k] = e.d[k]
    BY <1>11, <1>18 DEF Differ, Shaped
<1>21. /\ t.headers = <<>> /\ t.headerById = <<>> /\ t.undo = <<>> /\ t.nextTx = NoRow
       /\ t.txs = <<>> /\ t.txByGidx = <<>> /\ t.treeTxs = {} /\ t.tokensByGidx = <<>>
    BY <1>13, <1>14, <1>20 DEF TableKeys, FlushKeys
<1> HIDE DEF R
<1>22. BoxOK(t, {})
    <2>1. /\ t.boxes = e.d.boxes /\ SameNumbers(e.d, t)
          /\ \A kind : Open(kind, t) = Open(kind, e.d) /\ Every(kind, t) = Every(kind, e.d)
        BY <1>11, <1>18, <1>19, BoxesUntouched DEF Shaped
    <2>2. t.rentMatures = e.d.rentMatures
        BY <2>1, RentOpen
    <2> QED BY <1>11, <2>1, <2>2 DEF BoxOK, Numbered, Bounded, Listed, SameNumbers
<1>23. MintOK(t)
    BY <1>21, NoRows DEF MintOK
<1> DEFINE z == Bare(t)
<1>24. BoxOK(z, {}) /\ MintOK(z) /\ t.nextBox \in Nat
    BY <1>16, <1>22, <1>23, BoxBare
<1>25. Differ(t, z, {"nextBox", "nextTx", "undo"}) /\ z.nextTx = OrZero(t.nextTx)
    BY <1>16, BareIs
<1> HIDE DEF z
<1>26. /\ z.txs = <<>> /\ z.txByGidx = <<>> /\ z.treeTxs = {} /\ z.nextTx = 0
       /\ z.tokenHolderAmt = t.tokenHolderAmt
    BY <1>16, <1>21, <1>25 DEF Differ, TableKeys, OrZero, NoRow
<1>27. TxOK(z)
    BY <1>26, NoRows DEF TxOK
<1>28. Ready(z)
    BY <1>17, <1>24, <1>26, <1>27 DEF Ready, Tabled
<1>29. IsTable(t.headers) /\ IsTable(t.headerById) /\ DOMAIN t.headers = 1..0
    BY <1>21, NoRows
<1>30. Tight(t, 0)
    BY <1>16, <1>17, <1>21, <1>24, <1>28, <1>29 DEF Tight, z
<1> QED BY <1>0, <1>21, <1>30

-----------------------------------------------------------------------------
(* Tables that differ in their undo rows only.                             *)

Same(t, z) == Alike(t, z) /\ OrZero(t.nextTx) = OrZero(z.nextTx)

LEMMA ZeroOrZero ==
    ASSUME NEW v
    PROVE  OrZero(OrZero(v)) = OrZero(v)
BY DEF OrZero, NoRow

LEMMA BareAt ==
    ASSUME NEW a, DOMAIN a = TableKeys
    PROVE  /\ DOMAIN Bare(a) = TableKeys /\ IsTable(Bare(a))
           /\ \A k \in TableKeys \ {"nextBox", "nextTx", "undo"} : Bare(a)[k] = a[k]
<1>1. Differ(a, Bare(a), {"nextBox", "nextTx", "undo"})
    BY BareIs
<1>2. IsTable(Bare(a))
    BY DEF Bare, IsTable
<1> QED BY <1>1, <1>2 DEF Differ

LEMMA SameBare ==
    ASSUME NEW t, NEW z, Same(t, z)
    PROVE  Bare(t) = Bare(z)
<1> DEFINE x == Bare(t)
           y == Bare(z)
           S == {"nextBox", "nextTx", "undo"}
<1>1. /\ DOMAIN t = TableKeys /\ DOMAIN z = TableKeys
      /\ \A k \in TableKeys \ {"undo", "nextTx"} : t[k] = z[k]
      /\ OrZero(t.nextTx) = OrZero(z.nextTx)
    BY DEF Same, Alike
<1>2. /\ DOMAIN x = TableKeys /\ IsTable(x) /\ \A k \in TableKeys \ S : x[k] = t[k]
      /\ DOMAIN y = TableKeys /\ IsTable(y) /\ \A k \in TableKeys \ S : y[k] = z[k]
    BY <1>1, BareAt, Zenon
<1>3. /\ x.nextBox = OrZero(t.nextBox) /\ x.nextTx = OrZero(t.nextTx) /\ x.undo = <<>>
      /\ y.nextBox = OrZero(z.nextBox) /\ y.nextTx = OrZero(z.nextTx) /\ y.undo = <<>>
    BY <1>1, BareIs, Zenon
<1> HIDE DEF x, y
<1>4. t.nextBox = z.nextBox
    BY <1>1 DEF TableKeys
<1>5. \A k \in TableKeys : x[k] = y[k]
    <2> SUFFICES ASSUME NEW k \in TableKeys PROVE x[k] = y[k]
        OBVIOUS
    <2>1. k \in S => x[k] = y[k]
        BY <1>1, <1>3, <1>4
    <2>2. k \notin S => x[k] = y[k]
        BY <1>1, <1>2
    <2> QED BY <2>1, <2>2
<1>6. x = y
    BY <1>2, <1>5, SameTable
<1> QED BY <1>6 DEF x, y

(* The tables a sealed block leaves, by the tables it began over.          *)
SealAs(e, b, a, row, u) ==
    [e EXCEPT !.d.headers = Put(e.d.headers, e.h, row), !.d.headerById = Put(e.d.headerById, b, e.h),
              !.d.undo = Put(a.undo, e.h, u)]

LEMMA SealsAs ==
    ASSUME NEW e, Shaped(e), NEW b, NEW t, NEW z, DOMAIN t = TableKeys, DOMAIN z = TableKeys,
           Bare(t) = Bare(z)
    PROVE  \E row, u : /\ SealBlock(e, b, Opened(t)) = SealAs(e, b, t, row, u)
                       /\ SealBlock(e, b, Opened(z)) = SealAs(e, b, z, row, u)
<1> DEFINE row(a) == HeaderRow(e.d, b, Opened(a).nextTx)
           u(a) == [e.undo EXCEPT !.prevNextBox = Opened(a).nextBox,
                                  !.prevNextTx = Opened(a).nextTx]
<1>1. /\ Opened(t).nextBox = Opened(z).nextBox /\ Opened(t).nextTx = Opened(z).nextTx
      /\ Opened(t).undo = t.undo /\ Opened(z).undo = z.undo
    <2>1. /\ Opened(t).nextBox = Bare(t).nextBox /\ Opened(t).nextTx = Bare(t).nextTx
          /\ Opened(z).nextBox = Bare(z).nextBox /\ Opened(z).nextTx = Bare(z).nextTx
          /\ Opened(t).undo = t.undo /\ Opened(z).undo = z.undo
        BY BareIs
    <2> QED BY <2>1
<1>2. ASSUME NEW a, Opened(a).undo = a.undo
      PROVE  SealBlock(e, b, Opened(a)) = SealAs(e, b, a, row(a), u(a))
    BY <1>2, Zenon DEF SealBlock, SealAs
<1>3. row(t) = row(z) /\ u(t) = u(z)
    BY <1>1, Zenon
<1> HIDE DEF row, u
<1> QED BY <1>1, <1>2, <1>3, Zenon

LEMMA SealsSame ==
    ASSUME NEW e, Shaped(e), NEW b, NEW t, NEW z, NEW row, NEW u,
           NEW x, x = SealAs(e, b, t, row, u), NEW y, y = SealAs(e, b, z, row, u)
    PROVE  /\ x.corrupt = e.corrupt /\ y.corrupt = e.corrupt /\ x.h = e.h /\ y.h = e.h
           /\ Same(x.d, y.d)
           /\ x.d.undo = Put(t.undo, e.h, u) /\ y.d.undo = Put(z.undo, e.h, u)
<1> DEFINE heads == Put(e.d.headers, e.h, row)
           ids == Put(e.d.headerById, b, e.h)
<1>1. ASSUME NEW rows, NEW f, f = [e EXCEPT !.d.headers = heads, !.d.headerById = ids,
                                            !.d.undo = rows]
      PROVE  /\ f.corrupt = e.corrupt /\ f.h = e.h /\ DOMAIN f.d = TableKeys
             /\ Differ(e.d, f.d, {"headers", "headerById", "undo"})
             /\ f.d.headers = heads /\ f.d.headerById = ids /\ f.d.undo = rows
    <2> HIDE DEF heads, ids
    <2> QED BY <1>1, Zenon DEF Shaped, CtxKeys, TableKeys, Differ
<1>2. /\ x = [e EXCEPT !.d.headers = heads, !.d.headerById = ids,
                       !.d.undo = Put(t.undo, e.h, u)]
      /\ y = [e EXCEPT !.d.headers = heads, !.d.headerById = ids,
                       !.d.undo = Put(z.undo, e.h, u)]
    BY Zenon DEF SealAs
<1> HIDE DEF heads, ids
<1>3. /\ x.corrupt = e.corrupt /\ x.h = e.h /\ DOMAIN x.d = TableKeys
      /\ Differ(e.d, x.d, {"headers", "headerById", "undo"})
      /\ x.d.headers = heads /\ x.d.headerById = ids /\ x.d.undo = Put(t.undo, e.h, u)
    BY <1>1, <1>2
<1>4. /\ y.corrupt = e.corrupt /\ y.h = e.h /\ DOMAIN y.d = TableKeys
      /\ Differ(e.d, y.d, {"headers", "headerById", "undo"})
      /\ y.d.headers = heads /\ y.d.headerById = ids /\ y.d.undo = Put(z.undo, e.h, u)
    BY <1>1, <1>2
<1>5. \A k \in TableKeys \ {"undo"} : x.d[k] = y.d[k]
    BY <1>3, <1>4 DEF Differ, Shaped
<1>6. x.d.nextTx = y.d.nextTx
    BY <1>5 DEF TableKeys
<1> QED BY <1>3, <1>4, <1>5, <1>6 DEF Same, Alike

(* One block over the same tables writes the same, its undo row included.  *)
LEMMA ApplyAlike ==
    ASSUME NEW t, NEW z, Same(t, z), Base(t), NEW b \in Block
    PROVE  LET x == ApplyBlock(t, b)
               y == ApplyBlock(z, b)
           IN  /\ x.corrupt = y.corrupt /\ BlockCtx(t, b) = BlockCtx(z, b)
               /\ ~ x.corrupt => /\ Same(x.d, y.d)
                                 /\ \E u : /\ x.d.undo = Put(t.undo, x.h, u)
                                           /\ y.d.undo = Put(z.undo, x.h, u)
<1> DEFINE x == ApplyBlock(t, b)
           y == ApplyBlock(z, b)
           c == BlockCtx(t, b)
           run == ApplyTxs(c, b)
           e == Flushed(run)
<1>1. Bare(t) = Bare(z) /\ DOMAIN t = TableKeys /\ DOMAIN z = TableKeys
    BY SameBare DEF Same, Alike
<1>2. c = BlockCtx(z, b)
    BY <1>1 DEF BlockCtx, Bare
<1>3. Good(c)
    BY BlockCtxGood
<1>4. x = FinishBlock(run, b, Opened(t)) /\ y = FinishBlock(run, b, Opened(z))
    BY <1>2 DEF ApplyBlock
<1> HIDE DEF c
<1>5. run.corrupt \/ Good(run)
    BY <1>3, ApplyTxsMoves DEF Moves
<1> HIDE DEF run, x, y
<1>6. CASE run.corrupt
    BY <1>2, <1>4, <1>6 DEF FinishBlock, x, y, c
<1>7. CASE ~ run.corrupt
    <2>1. x = SealBlock(e, b, Opened(t)) /\ y = SealBlock(e, b, Opened(z))
        BY <1>4, <1>7 DEF FinishBlock, Flushed
    <2>2. Shaped(e)
        BY <1>5, <1>7, FlushedQuiet, QuietGood, GoodShape
    <2> HIDE DEF e
    <2>3. PICK row, u : /\ SealBlock(e, b, Opened(t)) = SealAs(e, b, t, row, u)
                        /\ SealBlock(e, b, Opened(z)) = SealAs(e, b, z, row, u)
        BY <1>1, <2>2, SealsAs
    <2>4. /\ x.corrupt = e.corrupt /\ y.corrupt = e.corrupt /\ x.h = e.h /\ y.h = e.h
          /\ Same(x.d, y.d)
          /\ x.d.undo = Put(t.undo, e.h, u) /\ y.d.undo = Put(z.undo, e.h, u)
        <3>1. x = SealAs(e, b, t, row, u) /\ y = SealAs(e, b, z, row, u)
            BY <2>1, <2>3
        <3> QED BY <2>2, <3>1, SealsSame
    <2> QED BY <1>2, <2>4 DEF x, y, c
<1> QED BY <1>6, <1>7

-----------------------------------------------------------------------------
(* The tables a fresh sync of the blocks s has at each height.             *)
Trail(r, s) ==
    /\ r[0] = SeedTables(NoTables) /\ Tight(r[0], 0)
    /\ \A i \in 1..Len(s) : /\ r[i] = ApplyBlock(r[i - 1], s[i]).d /\ Tight(r[i], i)
                            /\ Sealed(Bare(r[i - 1]), r[i], r[i].undo[i], i)

RowsOf(t, r) == \A h \in DOMAIN t.undo : t.undo[h] = r[h].undo[h]

Traces(t, r) ==
    Trail(r, Chain(t)) /\ Same(t, r[IndexedHeight(t)]) /\ RowsOf(t, r)

Traced(t) == IF t.genesisSeeded THEN \E r : Traces(t, r) ELSE t = NoTables

LEMMA TrailTight ==
    ASSUME NEW r, NEW s, Trail(r, s), NEW i \in 0..Len(s), Len(s) \in Nat
    PROVE  Tight(r[i], i) /\ DOMAIN r[i] = TableKeys /\ r[i].nextBox \in Nat
<1>1. Tight(r[i], i)
    <2>1. i = 0 \/ i \in 1..Len(s)
        OBVIOUS
    <2> QED BY <2>1 DEF Trail
<1> QED BY <1>1 DEF Tight

LEMMA SameTrans ==
    ASSUME NEW t, NEW a, DOMAIN a = TableKeys, a.nextBox \in Nat, DOMAIN t = TableKeys,
           \A k \in TableKeys \ {"undo"} : t[k] = Bare(a)[k]
    PROVE  Same(t, a)
<1>1. \A k \in TableKeys \ {"nextBox", "nextTx", "undo"} : Bare(a)[k] = a[k]
    BY BareAt
<1>2. Bare(a).nextBox = a.nextBox
    BY BareIs DEF OrZero, NoRow
<1>3. t.nextBox = a.nextBox
    BY <1>2 DEF TableKeys
<1>4. OrZero(t.nextTx) = OrZero(a.nextTx)
    <2>1. t.nextTx = Bare(a).nextTx
        BY DEF TableKeys
    <2>2. Bare(a).nextTx = OrZero(a.nextTx)
        BY BareIs
    <2> QED BY <2>1, <2>2, ZeroOrZero
<1>5. \A k \in TableKeys \ {"undo", "nextTx"} : t[k] = a[k]
    <2> SUFFICES ASSUME NEW k \in TableKeys \ {"undo", "nextTx"} PROVE t[k] = a[k]
        OBVIOUS
    <2>1. k # "nextBox" => t[k] = a[k]
        BY <1>1
    <2> QED BY <1>3, <2>1
<1> QED BY <1>4, <1>5 DEF Same, Alike

(* The tip undone: one step back along the trail.                          *)
LEMMA UndoKeeps ==
    ASSUME NEW t, TablesInv(t), Traced(t), IndexedHeight(t) \in DOMAIN t.undo
    PROVE  Traced(UndoBlock(t, IndexedHeight(t)))
<1> DEFINE n == IndexedHeight(t)
           x == UndoBlock(t, n)
           s == Chain(t)
<1>1. n \in Nat /\ DOMAIN t.headers = 1..n /\ Len(s) = n
    BY ChainOf DEF TablesInv
<1>2. n \in 1..n
    BY <1>1 DEF TablesInv, UndoSound
<1>3. /\ TablesInv(x) /\ IndexedHeight(x) = n - 1 /\ Chain(x) = SubSeq(s, 1, n - 1)
      /\ DOMAIN x.undo = DOMAIN t.undo \ {n} /\ x.genesisSeeded = t.genesisSeeded
    BY UndoTip
<1>4. x.undo = Drop(t.undo, {n})
    <2>1. \A id \in DOMAIN t.boxes : {"tree", "tokens", "spent"} \subseteq DOMAIN t.boxes[id]
        BY DEF TablesInv, BoxesSound, RowOK
    <2>2. Shrunk(t, x, n, t.undo[n])
        BY <2>1, UndoBlockShrinks DEF TablesInv
    <2> QED BY <2>2 DEF Shrunk
<1>5. t.genesisSeeded
    BY <1>1, <1>2 DEF TablesInv, HeadersSound
<1>6. PICK r : Traces(t, r)
    BY <1>5 DEF Traced
<1>7. Trail(r, s) /\ Same(t, r[n]) /\ RowsOf(t, r)
    BY <1>6 DEF Traces
<1> DEFINE a == r[n - 1]
<1>8. Sealed(Bare(a), r[n], t.undo[n], n)
    <2>1. Sealed(Bare(a), r[n], r[n].undo[n], n)
        BY <1>1, <1>2, <1>7 DEF Trail
    <2>2. t.undo[n] = r[n].undo[n]
        BY <1>7 DEF RowsOf
    <2> QED BY <2>1, <2>2
<1>9. DOMAIN a = TableKeys /\ a.nextBox \in Nat
    <2>1. n - 1 \in 0..Len(s) /\ Len(s) \in Nat
        BY <1>1, <1>2
    <2> QED BY <1>7, <2>1, TrailTight
<1>10. DOMAIN x = TableKeys /\ \A k \in TableKeys \ {"undo"} : x[k] = Bare(a)[k]
    <2>1. Alike(t, r[n])
        BY <1>7 DEF Same
    <2> HIDE DEF a
    <2> QED BY <1>8, <2>1, SealedBack
<1> HIDE DEF x, s, n, a
<1>11. Same(x, a)
    BY <1>9, <1>10, SameTrans
<1>12. Trail(r, Chain(x))
    <2>1. /\ Len(SubSeq(s, 1, n - 1)) = n - 1
          /\ \A i \in 1..(n - 1) : SubSeq(s, 1, n - 1)[i] = s[i] /\ i \in 1..Len(s)
        BY <1>1, <1>2
    <2> QED BY <1>3, <1>7, <2>1 DEF Trail
<1>13. RowsOf(x, r)
    <2>1. \A k \in DOMAIN t.undo \ {n} : Drop(t.undo, {n})[k] = t.undo[k]
        BY DropKeys
    <2> QED BY <1>3, <1>4, <1>7, <2>1 DEF RowsOf
<1>14. Traces(x, r)
    BY <1>3, <1>11, <1>12, <1>13 DEF Traces, a
<1> QED BY <1>3, <1>5, <1>14 DEF Traced, x, n

(* An undo row pruned.                                                     *)
LEMMA PruneKeeps ==
    ASSUME NEW t, TablesInv(t), Traced(t), t.genesisSeeded, NEW h \in Nat
    PROVE  Traced(PruneUndo(t, h))
<1> DEFINE x == PruneUndo(t, h)
           rows == Drop(t.undo, {h - Window - 1})
<1>1. CASE ~ h > Window
    BY <1>1 DEF PruneUndo
<1>2. CASE h > Window
    <2>1. x = [t EXCEPT !.undo = rows]
        BY <1>2 DEF PruneUndo
    <2>2. DOMAIN rows \subseteq DOMAIN t.undo /\ \A k \in DOMAIN rows : rows[k] = t.undo[k]
        <3>1. DOMAIN rows = DOMAIN t.undo \ {h - Window - 1}
            BY DropKeys
        <3>2. \A k \in DOMAIN t.undo \ {h - Window - 1} : rows[k] = t.undo[k]
            BY DropKeys
        <3> QED BY <3>1, <3>2
    <2> HIDE DEF rows, x
    <2>3. DOMAIN t = TableKeys
        BY DEF TablesInv
    <2>4. DOMAIN x = TableKeys /\ Differ(t, x, {"undo"}) /\ x.undo = rows
        BY <2>1, <2>3, Zenon DEF Differ, TableKeys
    <2>5. \A k \in TableKeys \ {"undo"} : x[k] = t[k]
        BY <2>3, <2>4 DEF Differ
    <2>6. x.headers = t.headers /\ x.genesisSeeded = t.genesisSeeded /\ x.nextTx = t.nextTx
        BY <2>5 DEF TableKeys
    <2>7. IndexedHeight(x) = IndexedHeight(t) /\ Chain(x) = Chain(t)
        BY <2>6 DEF IndexedHeight, Chain
    <2>8. PICK r : Traces(t, r)
        BY DEF Traced
    <2>9. Same(x, r[IndexedHeight(t)])
        BY <2>4, <2>5, <2>6, <2>8 DEF Traces, Same, Alike
    <2>10. RowsOf(x, r)
        BY <2>2, <2>4, <2>8 DEF Traces, RowsOf
    <2>11. Traces(x, r)
        BY <2>7, <2>8, <2>9, <2>10 DEF Traces
    <2> QED BY <2>6, <2>11 DEF Traced, x
<1> QED BY <1>1, <1>2

(* A block none of whose boxes and transactions the tables hold.           *)
LEMMA NextIsNew ==
    ASSUME NEW t, TablesInv(t), NEW b \in Block, ~ ParentMismatch(t, b), t.genesisSeeded,
           NEW x, NEW k, Extended(t, x, b, k)
    PROVE  NewTo(b, t)
<1> DEFINE n == IndexedHeight(t)
<1>1. n \in Nat
    BY DEF TablesInv, HeadersSound
<1>2. /\ HeadersSound(x) /\ IndexedHeight(x) = n + 1
      /\ \A j \in 1..n : x.headers[j] = t.headers[j]
      /\ x.headers[n + 1].id = b
    BY ExtendedHeaders DEF TablesInv
<1>3. x.genesisSeeded = t.genesisSeeded
    BY DEF Extended
<1>4. DOMAIN t.boxes = MadeBy(t, n) /\ DOMAIN t.txs = TxsBy(t, n)
    BY DEF TablesInv, BoxesSound
<1> HIDE DEF n
<1>5. MadeBy(x, n) = MadeBy(t, n) /\ TxsBy(x, n) = TxsBy(t, n)
    BY <1>2, <1>3 DEF MadeBy, TxsBy
<1>6. /\ OutIds(x.headers[n + 1].id) \cap MadeBy(x, n) = {}
      /\ TxIds(x.headers[n + 1].id) \cap TxsBy(x, n) = {}
    <2>1. n + 1 \in 1..IndexedHeight(x) /\ n < n + 1
        BY <1>1, <1>2
    <2> QED BY <1>1, <1>2, <2>1, ChainApart
<1> QED BY <1>2, <1>4, <1>5, <1>6 DEF NewTo

LEMMA NewToBare ==
    ASSUME NEW t, DOMAIN t = TableKeys, NEW b, NewTo(b, t)
    PROVE  NewTo(b, Bare(t))
<1>1. \A k \in TableKeys \ {"nextBox", "nextTx", "undo"} : Bare(t)[k] = t[k]
    BY BareAt
<1>2. Bare(t).boxes = t.boxes /\ Bare(t).txs = t.txs
    BY <1>1 DEF TableKeys
<1> QED BY <1>2 DEF NewTo

(* The trail goes one block further.                                       *)
LEMMA TrailStep ==
    ASSUME NEW r, NEW s \in Seq(Block), Trail(r, s), NEW b \in Block, Height[b] = Len(s) + 1,
           NEW a, a = r[Len(s)], NewTo(b, Bare(a)), Good(BlockCtx(a, b)),
           NEW y, y = ApplyBlock(a, b), ~ y.corrupt
    PROVE  LET n == Len(s)
               q == [i \in 0..(n + 1) |-> IF i = n + 1 THEN y.d ELSE r[i]]
           IN  Trail(q, Append(s, b))
<1> DEFINE n == Len(s)
           q == [i \in 0..(n + 1) |-> IF i = n + 1 THEN y.d ELSE r[i]]
           p == Append(s, b)
<1>1. n \in Nat /\ Len(p) = n + 1 /\ p[n + 1] = b /\ \A i \in 1..n : p[i] = s[i]
    OBVIOUS
<1> HIDE DEF n, p
<1>2. Tight(a, n)
    <2>1. n \in 0..Len(s) /\ Len(s) \in Nat
        BY <1>1 DEF n
    <2> QED BY <2>1, TrailTight DEF n
<1>3. Tight(y.d, n + 1) /\ Sealed(Bare(a), y.d, y.d.undo[n + 1], n + 1)
    <2>1. Height[b] = n + 1 /\ ~ ApplyBlock(a, b).corrupt
        BY DEF n
    <2> QED BY <1>1, <1>2, <2>1, BlockSealed
<1>4. q[n + 1] = y.d /\ q[n] = a /\ \A i \in 0..n : q[i] = r[i]
    BY <1>1 DEF n
<1> HIDE DEF q
<1>5. q[0] = SeedTables(NoTables) /\ Tight(q[0], 0)
    BY <1>1, <1>4 DEF Trail
<1>6. ASSUME NEW i \in 1..(n + 1)
      PROVE  /\ q[i] = ApplyBlock(q[i - 1], p[i]).d /\ Tight(q[i], i)
             /\ Sealed(Bare(q[i - 1]), q[i], q[i].undo[i], i)
    <2>1. CASE i = n + 1
        <3>1. i - 1 = n
            BY <1>1, <2>1
        <3> QED BY <1>1, <1>3, <1>4, <2>1, <3>1
    <2>2. CASE i # n + 1
        <3>1. i \in 1..n /\ i \in 0..n /\ i - 1 \in 0..n /\ i \in 1..Len(s)
            BY <1>1, <2>2 DEF n
        <3>2. q[i] = r[i] /\ q[i - 1] = r[i - 1] /\ p[i] = s[i]
            BY <1>1, <1>4, <3>1
        <3> QED BY <3>1, <3>2 DEF Trail
    <2> QED BY <2>1, <2>2
<1>7. Trail(q, p)
    BY <1>1, <1>5, <1>6 DEF Trail
<1> QED BY <1>7 DEF q, p, n

(* x is t with a block more.                                               *)
Seals(t, x) ==
    \E a, z, u, h : Same(t, a) /\ Same(x, z) /\ DOMAIN a = TableKeys /\ Sealed(Bare(a), z, u, h)

(* A block indexed.                                                        *)
LEMMA ApplyKeeps ==
    ASSUME NEW t, TablesInv(t), Traced(t), NEW b \in Block, ~ ParentMismatch(t, b),
           ~ ApplyBlock(t, b).corrupt
    PROVE  LET x == ApplyBlock(t, b)
           IN  /\ TablesInv(x.d) /\ Traced(x.d) /\ x.d.genesisSeeded
               /\ x.h = IndexedHeight(t) + 1 /\ Chain(x.d) = Append(Chain(t), b)
               /\ Seals(t, x.d)
<1> DEFINE x == ApplyBlock(t, b)
           n == IndexedHeight(t)
           s == Chain(t)
           k == RegistersOfBlock(b)
<1>1. x.h = n + 1 /\ t.genesisSeeded /\ Extended(t, x.d, b, k)
    BY ApplyBlockExtends
<1> HIDE DEF k
<1>2. PICK r : Traces(t, r)
    BY <1>1 DEF Traced
<1> DEFINE a == r[n]
           y == ApplyBlock(a, b)
           q == [i \in 0..(n + 1) |-> IF i = n + 1 THEN y.d ELSE r[i]]
<1>3. Trail(r, s) /\ Same(t, a) /\ RowsOf(t, r)
    BY <1>2 DEF Traces
<1>4. Base(t)
    BY DEF TablesInv, BoxesSound, Base
<1>5. /\ n \in Nat /\ DOMAIN t.headers = 1..n /\ Len(s) = n /\ s \in Seq(Block)
      /\ DOMAIN t.undo \subseteq 1..n /\ Height[b] = n + 1
    <2>1. /\ n \in Nat /\ DOMAIN t.headers = 1..n /\ Len(s) = n
        BY ChainOf DEF TablesInv
    <2> QED BY <2>1 DEF TablesInv, HeadersSound, UndoSound, ParentMismatch
<1>6. /\ TablesInv(x.d) /\ IndexedHeight(x.d) = n + 1 /\ Chain(x.d) = Append(s, b)
      /\ x.d.genesisSeeded = t.genesisSeeded
    <2>1. IndexedHeight(x.d) = n + 1 /\ Chain(x.d) = Append(s, b)
        BY <1>1, ExtendedHeaders DEF TablesInv
    <2>2. TablesInv(x.d)
        BY <1>1, ExtendedSound
    <2> QED BY <1>1, <2>1, <2>2 DEF Extended
<1>7. /\ ~ y.corrupt /\ BlockCtx(t, b) = BlockCtx(a, b) /\ Same(x.d, y.d)
      /\ \E u : x.d.undo = Put(t.undo, x.h, u) /\ y.d.undo = Put(a.undo, x.h, u)
    <2> HIDE DEF a
    <2> QED BY <1>3, <1>4, ApplyAlike
<1>8. NewTo(b, Bare(a)) /\ Good(BlockCtx(a, b))
    <2>1. NewTo(b, t)
        BY <1>1, NextIsNew
    <2>2. Bare(t) = Bare(a)
        BY <1>3, SameBare
    <2>3. NewTo(b, Bare(t))
        BY <1>4, <2>1, NewToBare DEF Base
    <2>4. Good(BlockCtx(t, b))
        BY <1>4, BlockCtxGood
    <2> QED BY <1>7, <2>2, <2>3, <2>4
<1> HIDE DEF x, s, n
<1>9. Trail(q, Append(s, b))
    <2>1. a = r[Len(s)] /\ Height[b] = Len(s) + 1
        BY <1>5
    <2> DEFINE v == [i \in 0..(Len(s) + 1) |-> IF i = Len(s) + 1 THEN y.d ELSE r[i]]
    <2>2. v = q
        BY <1>5
    <2> HIDE DEF v, q, a
    <2>3. ~ ApplyBlock(a, b).corrupt
        BY <1>7
    <2> HIDE DEF y
    <2>4. Trail(v, Append(s, b))
        BY <1>3, <1>5, <1>7, <1>8, <2>1, <2>3, TrailStep DEF v, y
    <2> QED BY <2>2, <2>4
<1>10. q[n + 1] = y.d /\ \A i \in 0..n : q[i] = r[i]
    BY <1>5
<1> HIDE DEF y, q
<1>11. RowsOf(x.d, q)
    <2>1. PICK u : x.d.undo = Put(t.undo, n + 1, u) /\ y.d.undo = Put(a.undo, n + 1, u)
        BY <1>1, <1>7 DEF x, n
    <2>2. /\ DOMAIN x.d.undo = {n + 1} \cup DOMAIN t.undo
          /\ x.d.undo[n + 1] = u /\ y.d.undo[n + 1] = u
          /\ \A h \in DOMAIN t.undo : h # n + 1 => x.d.undo[h] = t.undo[h]
        BY <2>1 DEF Put
    <2>3. \A h \in DOMAIN t.undo : h \in 1..n /\ h # n + 1
        BY <1>5
    <2> QED BY <1>3, <1>10, <2>2, <2>3 DEF RowsOf
<1>12. Traces(x.d, q)
    BY <1>6, <1>7, <1>9, <1>10, <1>11 DEF Traces, x, n
<1>13. Seals(t, x.d)
    <2>1. n + 1 \in 1..Len(Append(s, b)) /\ n + 1 - 1 = n /\ q[n] = r[n]
        BY <1>5, <1>10
    <2>2. Sealed(Bare(q[n]), q[n + 1], q[n + 1].undo[n + 1], n + 1)
        <3> DEFINE m == n + 1
        <3>1. m \in 1..Len(Append(s, b)) /\ m - 1 = n
            BY <1>5, <2>1
        <3> HIDE DEF m
        <3>2. Sealed(Bare(q[m - 1]), q[m], q[m].undo[m], m)
            BY <1>9, <3>1 DEF Trail
        <3>3. Sealed(Bare(q[n]), q[m], q[m].undo[m], m)
            BY <3>1, <3>2
        <3> QED BY <3>3 DEF m
    <2>3. DOMAIN a = TableKeys
        BY <1>3 DEF Same, Alike
    <2> QED BY <1>3, <1>7, <1>10, <2>1, <2>2, <2>3 DEF Seals
<1> QED BY <1>1, <1>6, <1>12, <1>13 DEF Traced, x, n, s

(* A store seeded.                                                         *)
LEMMA SeedKeeps ==
    ASSUME NEW t, TablesInv(t), Traced(t), t.headers = <<>>, ~ t.genesisSeeded
    PROVE  Traced(SeedTables(t))
<1> DEFINE x == SeedTables(t)
           r == [i \in {0} |-> x]
<1>1. t = NoTables
    BY DEF Traced
<1>2. Tight(x, 0) /\ x.undo = <<>>
    BY <1>1, SeedTight
<1>3. TablesInv(x) /\ x.genesisSeeded /\ IndexedHeight(x) = 0
    BY SeedTablesSound
<1>4. Len(Chain(x)) = 0
    BY <1>3, ChainOf DEF TablesInv
<1>5. r[0] = x
    OBVIOUS
<1>6. Trail(r, Chain(x))
    <2>1. x = SeedTables(NoTables)
        BY <1>1
    <2> HIDE DEF r, x
    <2>2. 1..Len(Chain(x)) = {}
        BY <1>4
    <2> QED BY <1>2, <1>5, <2>1, <2>2 DEF Trail
<1> HIDE DEF r, x
<1>7. Same(x, r[0]) /\ RowsOf(x, r)
    BY <1>2, <1>5 DEF Same, Alike, RowsOf, Tight
<1>8. Traces(x, r)
    BY <1>3, <1>6, <1>7 DEF Traces
<1> QED BY <1>3, <1>8 DEF Traced, x

-----------------------------------------------------------------------------
(* A batch and a rollback.                                                 *)

Sound(t) == TablesInv(t) /\ Traced(t)

Batching(p, q, base, n, acc) ==
    acc.result = "Ok" => DOMAIN acc = {"tables", "result"} /\ Sound(acc.tables)

LOCAL Batches == INSTANCE FoldTheory WITH
    Op <- LAMBDA p, q, acc, b : ApplyNext(acc, b), Inv <- Batching

LEMMA ApplyNextTraced ==
    ASSUME NEW acc, Batching(0, 0, 0, 0, acc), NEW b \in Block
    PROVE  Batching(0, 0, 0, 0, ApplyNext(acc, b))
<1> DEFINE t == acc.tables
           c == ApplyBlock(t, b)
           e == ApplyNext(acc, b)
<1>1. CASE acc.result # "Ok"
    BY <1>1 DEF ApplyNext, Batching
<1>2. CASE acc.result = "Ok"
    <2>1. DOMAIN acc = {"tables", "result"} /\ TablesInv(t) /\ Traced(t)
        BY <1>2 DEF Batching, Sound
    <2> HIDE DEF t
    <2>2. CASE ParentMismatch(t, b)
        <3>1. e = [acc EXCEPT !.result = "ParentMismatch"]
            BY <1>2, <2>2 DEF ApplyNext, t
        <3> QED BY <2>1, <3>1 DEF Batching
    <2>3. CASE ~ ParentMismatch(t, b) /\ c.corrupt
        <3> HIDE DEF c
        <3>1. e = [acc EXCEPT !.result = "Corrupt"]
            BY <1>2, <2>3 DEF ApplyNext, Advance, t, c
        <3> QED BY <2>1, <3>1 DEF Batching
    <2>4. CASE ~ ParentMismatch(t, b) /\ ~ c.corrupt
        <3> DEFINE x == PruneUndo(c.d, c.h)
        <3>1. TablesInv(c.d) /\ Traced(c.d) /\ c.d.genesisSeeded /\ c.h = IndexedHeight(t) + 1
            BY <2>1, <2>4, ApplyKeeps
        <3>2. c.h \in Nat
            BY <2>1, <3>1 DEF TablesInv, HeadersSound
        <3> HIDE DEF c
        <3>3. TablesInv(x) /\ Traced(x)
            BY <3>1, <3>2, PrunedSound, PruneKeeps
        <3>4. e = [acc EXCEPT !.tables = x]
            BY <1>2, <2>4 DEF ApplyNext, Advance, t, c
        <3> HIDE DEF x, e
        <3>5. DOMAIN e = {"tables", "result"} /\ e.tables = x
            BY <2>1, <3>4
        <3>6. Batching(0, 0, 0, 0, e)
            BY <3>3, <3>5 DEF Batching, Sound
        <3> QED BY <3>6 DEF e
    <2> QED BY <2>2, <2>3, <2>4
<1> QED BY <1>1, <1>2

LEMMA AppliedTraced ==
    ASSUME NEW d, Sound(d), NEW batch \in Seq(Block), Applied(d, batch).result = "Ok"
    PROVE  Sound(Applied(d, batch).tables)
<1> DEFINE base == [tables |-> d, result |-> "Ok"]
           out == Batches!Left(0, 0, base, batch)
<1>1. Applied(d, batch) = out
    BY DEF Applied, FoldLeft, MapThenFoldSet, Max, Batches!Left, Batches!LeftFold,
           Batches!Greatest
<1>2. DOMAIN batch = 1..Len(batch) /\ Len(batch) \in Nat /\ \A i \in 1..Len(batch) : batch[i] \in Block
    OBVIOUS
<1>3. Batching(0, 0, base, 0, base)
    BY DEF Batching
<1>4. ASSUME NEW i \in 1..Len(batch), NEW acc, Batching(0, 0, base, i - 1, acc)
      PROVE  Batching(0, 0, base, i, ApplyNext(acc, batch[i]))
    <2>1. Batching(0, 0, 0, 0, acc)
        BY <1>4 DEF Batching
    <2>2. Batching(0, 0, 0, 0, ApplyNext(acc, batch[i]))
        BY <1>2, <2>1, ApplyNextTraced
    <2> QED BY <2>2 DEF Batching
<1> HIDE DEF base, out
<1>5. Batching(0, 0, base, Len(batch), Batches!Left(0, 0, base, batch))
    BY <1>2, <1>3, <1>4, LeastNatural, Batches!LeftValue
<1>6. Batching(0, 0, base, Len(batch), out)
    BY <1>5 DEF out
<1> QED BY <1>1, <1>6 DEF Batching

Rolling(p, q, base, n, acc) ==
    acc.result = "Ok" => /\ DOMAIN acc = {"tables", "result"} /\ Sound(acc.tables)
                         /\ IndexedHeight(acc.tables) = p - n

LOCAL Rolls == INSTANCE FoldTheory WITH
    Op <- LAMBDA p, q, acc, k : UndoNext(acc, p + 1 - k), Inv <- Rolling

LEMMA UndoNextTraced ==
    ASSUME NEW p \in Nat, NEW i \in Nat, NEW acc, Rolling(p, 0, 0, i - 1, acc)
    PROVE  Rolling(p, 0, 0, i, UndoNext(acc, p + 1 - i))
<1> DEFINE t == acc.tables
           h == p + 1 - i
           e == UndoNext(acc, h)
<1>1. CASE acc.result # "Ok"
    BY <1>1 DEF UndoNext, Rolling
<1>2. CASE acc.result = "Ok"
    <2>1. /\ DOMAIN acc = {"tables", "result"} /\ TablesInv(t) /\ Traced(t)
          /\ IndexedHeight(t) = h
        BY <1>2 DEF Rolling, Sound
    <2> HIDE DEF t, h
    <2>2. CASE h \notin DOMAIN t.undo
        <3>1. e = [acc EXCEPT !.result = "ReindexRequired"]
            BY <1>2, <2>2 DEF UndoNext, t
        <3> QED BY <2>1, <3>1 DEF Rolling, h
    <2>3. CASE h \in DOMAIN t.undo
        <3> DEFINE x == UndoBlock(t, h)
        <3>1. /\ ~ UndoCorrupt(t, t.undo[h]) /\ TablesInv(x) /\ IndexedHeight(x) = h - 1
            BY <2>1, <2>3, UndoTip
        <3>2. Traced(x)
            BY <2>1, <2>3, UndoKeeps
        <3>3. e = [acc EXCEPT !.tables = x]
            BY <1>2, <2>3, <3>1 DEF UndoNext, t
        <3> HIDE DEF x, e
        <3>4. DOMAIN e = {"tables", "result"} /\ e.tables = x
            BY <2>1, <3>3
        <3>5. h - 1 = p - i
            BY DEF h
        <3>6. Rolling(p, 0, 0, i, e)
            BY <3>1, <3>2, <3>4, <3>5 DEF Rolling, Sound
        <3> QED BY <3>6 DEF e, h
    <2> QED BY <2>2, <2>3
<1> QED BY <1>1, <1>2

LEMMA RolledBackTraced ==
    ASSUME NEW d, Sound(d), NEW target \in Nat, target < IndexedHeight(d),
           RolledBack(d, target).result = "Ok"
    PROVE  Sound(RolledBack(d, target).tables)
<1> DEFINE tip == IndexedHeight(d)
           m == tip - target
           places == [k \in 1..m |-> k]
           base == [tables |-> d, result |-> "Ok"]
           out == Rolls!Left(tip, 0, base, places)
<1>1. tip \in Nat
    BY DEF Sound, TablesInv, HeadersSound
<1>2. RolledBack(d, target) = out
    BY DEF RolledBack, FoldLeft, MapThenFoldSet, Max, Rolls!Left, Rolls!LeftFold,
           Rolls!Greatest
<1>3. m \in Nat
    BY <1>1
<1>4. Rolling(tip, 0, base, 0, base)
    BY <1>1 DEF Rolling
<1> HIDE DEF m
<1>5. Len(places) = m /\ DOMAIN places = 1..m /\ \A i \in 1..m : places[i] = i
    BY <1>3, FunctionLength
<1> HIDE DEF places, base, tip
<1>6. ASSUME NEW i \in 1..m, NEW acc, Rolling(tip, 0, base, i - 1, acc)
      PROVE  Rolling(tip, 0, base, i, UndoNext(acc, tip + 1 - places[i]))
    <2>1. i \in Nat /\ places[i] = i
        BY <1>3, <1>5
    <2>2. Rolling(tip, 0, 0, i - 1, acc)
        BY <1>6 DEF Rolling
    <2>3. Rolling(tip, 0, 0, i, UndoNext(acc, tip + 1 - i))
        BY <1>1, <2>1, <2>2, UndoNextTraced
    <2> QED BY <2>1, <2>3 DEF Rolling
<1> HIDE DEF out
<1>7. Rolling(tip, 0, base, Len(places), Rolls!Left(tip, 0, base, places))
    BY <1>3, <1>4, <1>5, <1>6, LeastNatural, Rolls!LeftValue
<1>8. Rolling(tip, 0, base, Len(places), out)
    BY <1>7 DEF out
<1> QED BY <1>2, <1>8 DEF Rolling

-----------------------------------------------------------------------------
(* Every step of the store keeps its tables on a trail.                    *)

TracedInv == StoreInv /\ Traced(db.tables) /\ Traced(disk.tables)

LEMMA AbortTraced ==
    ASSUME TracedInv, NEW error, Abort(error)
    PROVE  Traced(db.tables)' /\ Traced(disk.tables)'
BY DEF TracedInv, Abort

LEMMA CommitTraced ==
    ASSUME TracedInv, NEW t, Traced(t), NEW immediate \in BOOLEAN, Commit(t, immediate)
    PROVE  Traced(db.tables)' /\ Traced(disk.tables)'
<1>1. db'.tables = t
    BY DEF Commit
<1>2. disk' = db' \/ disk' = disk
    BY DEF Commit
<1>3. Traced(db'.tables) /\ Traced(disk'.tables)
    BY <1>1, <1>2 DEF TracedInv
<1> QED BY <1>3

LEMMA SeedGenesisTraced ==
    ASSUME TracedInv, SeedGenesis
    PROVE  Traced(db.tables)' /\ Traced(disk.tables)'
<1> DEFINE d == db.tables
<1>1. CASE d.headers = <<>> /\ ~ d.genesisSeeded /\ Commit(SeedTables(d), TRUE)
    <2>1. TablesInv(d) /\ Traced(d)
        BY InvFacts DEF TracedInv
    <2>2. Traced(SeedTables(d))
        BY <1>1, <2>1, SeedKeeps
    <2> QED BY <1>1, <2>2, CommitTraced
<1>2. CASE \E error : Abort(error)
    BY <1>2, AbortTraced
<1> QED BY <1>1, <1>2 DEF SeedGenesis

LEMMA ApplyBatchTraced ==
    ASSUME TracedInv, NEW batch \in Batch, NEW durable \in BOOLEAN, ApplyBatch(batch, durable)
    PROVE  Traced(db.tables)' /\ Traced(disk.tables)'
<1> DEFINE p == Applied(db.tables, batch)
<1>1. CASE \E error : Abort(error)
    BY <1>1, AbortTraced
<1>2. CASE Finish(p, durable)
    <2>1. CASE p.result = "Ok"
        <3>1. Sound(db.tables) /\ batch \in Seq(Block)
            BY InvFacts, BlockAssumption DEF TracedInv, Sound
        <3>2. Sound(p.tables)
            BY <2>1, <3>1, AppliedTraced
        <3>3. Commit(p.tables, durable)
            BY <1>2, <2>1 DEF Finish
        <3> HIDE DEF p
        <3> QED BY <3>2, <3>3, CommitTraced DEF Sound
    <2>2. CASE p.result # "Ok"
        <3>1. \E error : Abort(error)
            BY <1>2, <2>2 DEF Finish
        <3> QED BY <3>1, AbortTraced
    <2> QED BY <2>1, <2>2
<1> QED BY <1>1, <1>2 DEF ApplyBatch

LEMMA RollbackToTraced ==
    ASSUME TracedInv, NEW target \in 0..IndexedHeight(db.tables), RollbackTo(target)
    PROVE  Traced(db.tables)' /\ Traced(disk.tables)'
<1> DEFINE d == db.tables
           tip == IndexedHeight(d)
           p == RolledBack(d, target)
<1>1. CASE \E error : Abort(error)
    BY <1>1, AbortTraced
<1>2. CASE ~ tip <= target /\ Finish(p, TRUE)
    <2>1. CASE p.result = "Ok"
        <3>1. Sound(d) /\ tip \in Nat
            BY InvFacts DEF TracedInv, Sound
        <3>2. target \in Nat /\ target < tip
            BY <1>2, <3>1
        <3>3. Sound(p.tables)
            BY <2>1, <3>1, <3>2, RolledBackTraced
        <3>4. Commit(p.tables, TRUE)
            BY <1>2, <2>1 DEF Finish
        <3> HIDE DEF p
        <3> QED BY <3>3, <3>4, CommitTraced DEF Sound
    <2>2. CASE p.result # "Ok"
        <3>1. \E error : Abort(error)
            BY <1>2, <2>2 DEF Finish
        <3> QED BY <3>1, AbortTraced
    <2> QED BY <2>1, <2>2
<1> QED BY <1>1, <1>2 DEF RollbackTo

LEMMA TracedNext ==
    ASSUME TracedInv, [Next]_vars
    PROVE  TracedInv'
<1>1. StoreInv'
    BY StoreNext DEF TracedInv
<1>2. CASE SeedGenesis
    BY <1>1, <1>2, SeedGenesisTraced DEF TracedInv
<1>3. CASE RedbError
    BY <1>1, <1>3, AbortTraced DEF RedbError, TracedInv
<1>4. ASSUME NEW batch \in Batch, NEW durable \in BOOLEAN, ApplyBatch(batch, durable)
      PROVE  TracedInv'
    BY <1>1, <1>4, ApplyBatchTraced DEF TracedInv
<1>5. ASSUME NEW target \in 0..IndexedHeight(db.tables), RollbackTo(target)
      PROVE  TracedInv'
    BY <1>1, <1>5, RollbackToTraced DEF TracedInv
<1>6. CASE AuxiliaryCommit
    <2>1. Commit(db.tables, TRUE)
        BY <1>6, Zenon DEF AuxiliaryCommit
    <2>2. Traced(db.tables)
        BY DEF TracedInv
    <2> QED BY <1>1, <2>1, <2>2, CommitTraced DEF TracedInv
<1>7. CASE CrashAndOpen
    BY <1>1, <1>7 DEF CrashAndOpen, TracedInv
<1>8. CASE UNCHANGED vars
    BY <1>1, <1>8 DEF vars, TracedInv
<1> QED BY <1>2, <1>3, <1>4, <1>5, <1>6, <1>7, <1>8 DEF Next

(* After any batches, rollbacks and crashes the tables are, but for their  *)
(* undo rows, those of a fresh sync of the chain they hold, and each undo  *)
(* row is the one that sync wrote at its height: what the next rollback    *)
(* reads is as good as if no reorganisation had ever happened.             *)
THEOREM StoreFollowsFreshSync == Spec => []TracedInv
<1>1. Init => TracedInv
    <2> SUFFICES ASSUME Init PROVE TracedInv
        OBVIOUS
    <2>1. NoTables.genesisSeeded = FALSE
        BY DEF NoTables
    <2>2. Traced(NoTables)
        BY <2>1 DEF Traced
    <2>3. db.tables = NoTables /\ disk.tables = NoTables
        BY DEF Init
    <2> QED BY <2>2, <2>3, StoreInit DEF TracedInv
<1>2. TracedInv /\ [Next]_vars => TracedInv'
    BY TracedNext
<1> QED BY <1>1, <1>2, PTL DEF Spec

OnTrail(p, q, base, n, acc) == acc = p[n]

LOCAL Replaying == INSTANCE FoldTheory WITH
    Op <- LAMBDA p, q, acc, b : ApplyBlock(acc, b).d, Inv <- OnTrail

LEMMA ReplayIs ==
    ASSUME T.genesisSeeded, NEW s \in Seq(Block), NEW r, Trail(r, s)
    PROVE  Replay(s) = r[Len(s)]
<1> DEFINE base == SeedTables(NoTables)
           out == Replaying!Left(r, 0, base, s)
<1>1. Replay(s) = out
    BY DEF Replay, FoldLeft, MapThenFoldSet, Max, Replaying!Left, Replaying!LeftFold,
           Replaying!Greatest
<1>2. DOMAIN s = 1..Len(s) /\ Len(s) \in Nat
    OBVIOUS
<1>3. OnTrail(r, 0, base, 0, base)
    BY DEF Trail, OnTrail
<1>4. ASSUME NEW i \in 1..Len(s), NEW acc, OnTrail(r, 0, base, i - 1, acc)
      PROVE  OnTrail(r, 0, base, i, ApplyBlock(acc, s[i]).d)
    BY <1>4 DEF OnTrail, Trail
<1> HIDE DEF base, out
<1>5. OnTrail(r, 0, base, Len(s), Replaying!Left(r, 0, base, s))
    BY <1>2, <1>3, <1>4, LeastNatural, Replaying!LeftValue
<1>6. OnTrail(r, 0, base, Len(s), out)
    BY <1>5 DEF out
<1> QED BY <1>1, <1>6 DEF OnTrail

LEMMA SameIndexed ==
    ASSUME NEW t, NEW z, Same(t, z)
    PROVE  Indexed(t) = Indexed(z)
<1> DEFINE x == Indexed(t)
           y == Indexed(z)
<1>1. /\ DOMAIN t = TableKeys /\ DOMAIN z = TableKeys
      /\ \A k \in TableKeys \ {"undo", "nextTx"} : t[k] = z[k]
      /\ OrZero(t.nextTx) = OrZero(z.nextTx)
    BY DEF Same, Alike
<1>2. ASSUME NEW d, DOMAIN d = TableKeys
      PROVE  /\ IsTable(Indexed(d)) /\ DOMAIN Indexed(d) = TableKeys
             /\ \A k \in TableKeys \ {"undo", "nextTx"} : Indexed(d)[k] = d[k]
             /\ Indexed(d).undo = <<>> /\ Indexed(d).nextTx = OrZero(d.nextTx)
    <2>1. IsTable(Indexed(d))
        BY DEF Indexed, IsTable
    <2>2. DOMAIN Indexed(d) = TableKeys
        BY <1>2 DEF Indexed
    <2>3. \A k \in TableKeys \ {"undo", "nextTx"} : Indexed(d)[k] = d[k]
        BY <1>2 DEF Indexed
    <2>4. Indexed(d).undo = <<>> /\ Indexed(d).nextTx = OrZero(d.nextTx)
        BY <1>2 DEF Indexed, TableKeys
    <2> QED BY <2>1, <2>2, <2>3, <2>4
<1>3. /\ IsTable(x) /\ DOMAIN x = TableKeys
      /\ \A k \in TableKeys \ {"undo", "nextTx"} : x[k] = t[k]
      /\ x.undo = <<>> /\ x.nextTx = OrZero(t.nextTx)
    BY <1>1, <1>2
<1>4. /\ IsTable(y) /\ DOMAIN y = TableKeys
      /\ \A k \in TableKeys \ {"undo", "nextTx"} : y[k] = z[k]
      /\ y.undo = <<>> /\ y.nextTx = OrZero(z.nextTx)
    BY <1>1, <1>2
<1> HIDE DEF x, y
<1>5. ASSUME NEW k \in TableKeys PROVE x[k] = y[k]
    <2>1. k \in {"undo", "nextTx"} => x[k] = y[k]
        BY <1>1, <1>3, <1>4
    <2>2. k \notin {"undo", "nextTx"} => x[k] = y[k]
        BY <1>1, <1>3, <1>4
    <2> QED BY <2>1, <2>2
<1>6. x = y
    BY <1>3, <1>4, <1>5, SameTable
<1> QED BY <1>6 DEF x, y

(* Whatever was indexed, undone and indexed again, every table but UNDO is *)
(* what a fresh sync of the present chain writes: rollback_to takes back   *)
(* exactly what apply_block wrote, row by row, for every block content,    *)
(* window, batch and chain.                                                *)
THEOREM StoreRollbackRestores == Spec => []RollbackRestores
<1>1. TracedInv => RollbackRestores
    <2> SUFFICES ASSUME TracedInv PROVE RollbackRestores
        OBVIOUS
    <2>1. TablesInv(T) /\ Traced(T)
        BY InvFacts DEF TracedInv, T
    <2>2. CASE ~ T.genesisSeeded
        BY <2>1, <2>2 DEF Traced, RollbackRestores, Replay
    <2>3. CASE T.genesisSeeded
        <3>1. PICK r : Traces(T, r)
            BY <2>1, <2>3 DEF Traced
        <3>2. /\ Chain(T) \in Seq(Block) /\ Len(Chain(T)) = IndexedHeight(T)
            BY <2>1, ChainOf DEF TablesInv, HeadersSound
        <3>3. Replay(Chain(T)) = r[IndexedHeight(T)]
            BY <2>3, <3>1, <3>2, ReplayIs DEF Traces
        <3>4. Same(T, Replay(Chain(T)))
            BY <3>1, <3>3 DEF Traces
        <3>5. Indexed(T) = Indexed(Replay(Chain(T)))
            <4> DEFINE t == T
                       z == Replay(Chain(T))
            <4>1. Same(t, z)
                BY <3>4
            <4> HIDE DEF t, z
            <4>2. Indexed(t) = Indexed(z)
                BY <4>1, SameIndexed
            <4> QED BY <4>2 DEF t, z
        <3> QED BY <3>5 DEF RollbackRestores
    <2> QED BY <2>2, <2>3
<1> QED BY <1>1, StoreFollowsFreshSync, PTL

-----------------------------------------------------------------------------
(* The tables of the chains a client may meet while it turns pages.        *)

(* What a block adds to and never takes back.                              *)
Grows(t, x) ==
    /\ t.ergoTrees \subseteq x.ergoTrees /\ DOMAIN t.headerById \subseteq DOMAIN x.headerById
    /\ x.genesisSeeded = t.genesisSeeded
    /\ \A id \in DOMAIN t.boxes : /\ id \in DOMAIN x.boxes
                                  /\ x.boxes[id].value = t.boxes[id].value
                                  /\ x.boxes[id].tx = t.boxes[id].tx

LEMMA GrowsTrans ==
    ASSUME NEW t, NEW x, NEW y, Grows(t, x), Grows(x, y)
    PROVE  Grows(t, y)
BY DEF Grows

LEMMA SealsGrow ==
    ASSUME NEW t, NEW x, Seals(t, x)
    PROVE  Grows(t, x)
<1>1. PICK a, z, u, h : /\ Same(t, a) /\ Same(x, z) /\ DOMAIN a = TableKeys
                        /\ Sealed(Bare(a), z, u, h)
    BY DEF Seals
<1> DEFINE d == Bare(a)
<1>2. \A k \in TableKeys \ {"nextBox", "nextTx", "undo"} : d[k] = t[k] /\ z[k] = x[k]
    BY <1>1, BareAt DEF Same, Alike
<1>3. Sealed(d, z, u, h)
    BY <1>1
<1> HIDE DEF d
<1>4. /\ d.ergoTrees = t.ergoTrees /\ d.headerById = t.headerById
      /\ d.genesisSeeded = t.genesisSeeded /\ d.boxes = t.boxes
      /\ z.ergoTrees = x.ergoTrees /\ z.headerById = x.headerById
      /\ z.genesisSeeded = x.genesisSeeded /\ z.boxes = x.boxes
    BY <1>2 DEF TableKeys
<1>5. d.ergoTrees \subseteq z.ergoTrees
    BY <1>3 DEF Sealed, TreesSince
<1>6. DOMAIN d.headerById \subseteq DOMAIN z.headerById
    BY <1>3 DEF Sealed, HeaderSealed, Put
<1>7. z.genesisSeeded = d.genesisSeeded
    BY <1>3 DEF Sealed, MetaSealed
<1>8. Numbered(z) /\ BoxesSince(d, z, u.createdBoxes, u.spentBoxes)
    BY <1>3 DEF Sealed, BoxBase, BoxSince
<1>9. ASSUME NEW id \in DOMAIN d.boxes
      PROVE  /\ id \in DOMAIN z.boxes
             /\ z.boxes[id].value = d.boxes[id].value /\ z.boxes[id].tx = d.boxes[id].tx
    <2>1. id \in DOMAIN z.boxes
        BY <1>8 DEF BoxesSince
    <2>2. DOMAIN z.boxes[id] = RowKeys
        BY <1>8, <2>1 DEF Numbered, IsRow
    <2>3. \/ d.boxes[id] = z.boxes[id]
          \/ d.boxes[id] = [z.boxes[id] EXCEPT !.spent = Unspent]
        BY <1>8 DEF BoxesSince
    <2> QED BY <2>1, <2>2, <2>3 DEF RowKeys
<1> QED BY <1>4, <1>5, <1>6, <1>7, <1>9 DEF Grows

-----------------------------------------------------------------------------
(* Replayed, block by block.                                               *)

Fresh == [NewCtx(SeedTables(NoTables), 0) EXCEPT !.h = 0]

More(acc, b) == IF acc.corrupt THEN acc ELSE ApplyBlock(acc.d, b)

OnPath(p, q, base, n, acc) == acc = p[n]

LOCAL Resyncing == INSTANCE FoldTheory WITH
    Op <- LAMBDA p, q, acc, b : IF acc.corrupt THEN acc ELSE ApplyBlock(acc.d, b), Inv <- OnPath

Path(r, c) == r[0] = Fresh /\ \A i \in 1..Len(c) : r[i] = More(r[i - 1], c[i])

Begins(a, c) == Len(a) <= Len(c) /\ \A i \in 1..Len(a) : a[i] = c[i]

LEMMA PathExists ==
    ASSUME NEW c \in Seq(Block)
    PROVE  \E r : Path(r, c)
<1>1. DOMAIN c = 1..Len(c) /\ Len(c) \in Nat
    OBVIOUS
<1>2. \E r : Resyncing!Trace(0, 0, Fresh, c, r)
    BY <1>1, LeastNatural, Resyncing!LeftTrace
<1> QED BY <1>2 DEF Resyncing!Trace, Path, More

LEMMA ReplayedIs ==
    ASSUME NEW c \in Seq(Block), NEW r, Path(r, c), NEW a \in Seq(Block), Begins(a, c)
    PROVE  Replayed(a) = r[Len(a)]
<1> DEFINE out == Resyncing!Left(r, 0, Fresh, a)
<1>1. Replayed(a) = out
    BY DEF Replayed, Fresh, FoldLeft, MapThenFoldSet, Max, Resyncing!Left, Resyncing!LeftFold,
           Resyncing!Greatest
<1>2. DOMAIN a = 1..Len(a) /\ Len(a) \in Nat /\ Len(c) \in Nat
    OBVIOUS
<1>3. OnPath(r, 0, Fresh, 0, Fresh)
    BY DEF Path, OnPath
<1>4. ASSUME NEW i \in 1..Len(a), NEW acc, OnPath(r, 0, Fresh, i - 1, acc)
      PROVE  OnPath(r, 0, Fresh, i, IF acc.corrupt THEN acc ELSE ApplyBlock(acc.d, a[i]))
    <2>1. i \in 1..Len(c) /\ a[i] = c[i]
        BY <1>2 DEF Begins
    <2>2. r[i] = More(acc, a[i])
        BY <1>4, <2>1 DEF OnPath, Path
    <2> QED BY <2>2 DEF OnPath, More
<1> HIDE DEF out
<1>5. OnPath(r, 0, Fresh, Len(a), Resyncing!Left(r, 0, Fresh, a))
    BY <1>2, <1>3, <1>4, LeastNatural, Resyncing!LeftValue
<1>6. OnPath(r, 0, Fresh, Len(a), out)
    BY <1>5 DEF out
<1> QED BY <1>1, <1>6 DEF OnPath

(* What fails stays failed.                                                *)
LEMMA PathSound ==
    ASSUME NEW c \in Seq(Block), NEW r, Path(r, c), NEW n \in 0..Len(c), ~ r[n].corrupt
    PROVE  \A i \in 0..n : ~ r[i].corrupt
<1> DEFINE Bad == {k \in Nat : k <= n /\ r[n - k].corrupt}
<1>1. SUFFICES ASSUME Bad # {} PROVE FALSE
    <2> SUFFICES ASSUME Bad = {}, NEW i \in 0..n PROVE ~ r[i].corrupt
        OBVIOUS
    <2>1. n - i \in Nat /\ n - i <= n /\ n - (n - i) = i
        OBVIOUS
    <2> QED BY <2>1
<1>2. Bad \in SUBSET Nat
    OBVIOUS
<1>3. PICK m \in Bad : \A k \in Bad : m <= k
    <2> HIDE DEF Bad
    <2> QED BY <1>1, <1>2, LeastNatural
<1>4. m # 0
    BY <1>3
<1> DEFINE j == n - m
           k == j + 1
<1>5. k \in 1..Len(c) /\ k - 1 = j /\ m - 1 \in Nat /\ n - (m - 1) = k
    BY <1>3, <1>4
<1>6. r[j].corrupt
    BY <1>3
<1> HIDE DEF j, k
<1>7. r[k] = More(r[j], c[k])
    <2>1. r[k] = More(r[k - 1], c[k])
        BY <1>5 DEF Path
    <2> QED BY <1>5, <2>1
<1>8. r[k].corrupt
    BY <1>6, <1>7 DEF More
<1>9. m - 1 \in Bad
    BY <1>3, <1>5, <1>8
<1>10. m \in Nat
    BY <1>3
<1> HIDE DEF Bad
<1>11. m <= m - 1
    BY <1>3, <1>9
<1> QED BY <1>10, <1>11
-----------------------------------------------------------------------------
(* Each chain the index may hold has sound tables, and a longer one has    *)
(* what its beginnings have.                                               *)

(* acc is what the blocks of c up to n leave. *)
Synced(c, n, acc) ==
    /\ TablesInv(acc.d) /\ Traced(acc.d) /\ acc.d.genesisSeeded
    /\ Len(Chain(acc.d)) = n /\ \A i \in 1..n : Chain(acc.d)[i] = c[i]

LEMMA FreshSynced ==
    ASSUME NEW c
    PROVE  Fresh.corrupt = FALSE /\ Synced(c, 0, Fresh)
<1> DEFINE x == SeedTables(NoTables)
<1>1. NoTables.genesisSeeded = FALSE /\ NoTables.headers = <<>>
    BY DEF NoTables
<1>2. Traced(NoTables) /\ TablesInv(NoTables)
    BY <1>1, NoTablesSound DEF Traced
<1>3. TablesInv(x) /\ x.genesisSeeded /\ IndexedHeight(x) = 0 /\ Traced(x)
    BY <1>1, <1>2, SeedTablesSound, SeedKeeps
<1>4. Len(Chain(x)) = 0
    BY <1>3, ChainOf DEF TablesInv
<1>5. Fresh.d = x /\ Fresh.corrupt = FALSE
    BY DEF Fresh, NewCtx
<1> HIDE DEF x
<1> QED BY <1>3, <1>4, <1>5 DEF Synced

LEMMA MoreSynced ==
    ASSUME NEW c \in Seq(Block), Linked(c), NEW i \in 1..Len(c),
           NEW acc, ~ acc.corrupt, Synced(c, i - 1, acc), ~ More(acc, c[i]).corrupt
    PROVE  Synced(c, i, More(acc, c[i])) /\ Grows(acc.d, More(acc, c[i]).d)
<1> DEFINE b == c[i]
           t == acc.d
           x == ApplyBlock(t, b)
           s == Chain(t)
<1>1. More(acc, b) = x
    BY DEF More
<1>2. TablesInv(t) /\ Traced(t) /\ Len(s) = i - 1 /\ \A k \in 1..(i - 1) : s[k] = c[k]
    BY DEF Synced
<1>3. /\ b \in Block /\ Height[b] = i /\ (i > 1 => Parent[b] = c[i - 1])
      /\ Len(c) \in Nat
    BY DEF Linked
<1> HIDE DEF x, t, b, s
<1>4. /\ IndexedHeight(t) = i - 1 /\ s = [h \in 1..(i - 1) |-> t.headers[h].id]
      /\ s \in Seq(Block)
    BY <1>2, ChainOf DEF TablesInv, s, HeadersSound
<1>5. ~ ParentMismatch(t, b)
    <2>1. i - 1 > 0 => t.headers[i - 1].id = s[i - 1] /\ s[i - 1] = c[i - 1]
        BY <1>2, <1>4
    <2> QED BY <1>3, <1>4, <2>1 DEF ParentMismatch
<1>6. ~ ApplyBlock(t, b).corrupt
    BY <1>1 DEF x, b
<1>7. /\ TablesInv(x.d) /\ Traced(x.d) /\ x.d.genesisSeeded
      /\ Chain(x.d) = Append(s, b) /\ Seals(t, x.d)
    BY <1>2, <1>3, <1>5, <1>6, ApplyKeeps DEF x, s
<1>8. /\ Len(Append(s, b)) = i /\ Append(s, b)[i] = b
      /\ \A k \in 1..(i - 1) : Append(s, b)[k] = s[k]
    BY <1>2, <1>3, <1>4
<1>9. ASSUME NEW k \in 1..i PROVE Append(s, b)[k] = c[k]
    <2>1. CASE k = i
        BY <1>8, <2>1 DEF b
    <2>2. CASE k \in 1..(i - 1)
        BY <1>2, <1>8, <2>2
    <2>3. k = i \/ k \in 1..(i - 1)
        BY <1>3
    <2> QED BY <2>1, <2>2, <2>3
<1>10. Synced(c, i, x)
    BY <1>7, <1>8, <1>9 DEF Synced
<1>11. Grows(t, x.d)
    BY <1>7, SealsGrow
<1> QED BY <1>1, <1>10, <1>11 DEF t, b

Following(p, q, base, n, acc) == acc.corrupt \/ Synced(p, n, acc)

LOCAL Following1 == INSTANCE FoldTheory WITH
    Op <- LAMBDA p, q, acc, b : IF acc.corrupt THEN acc ELSE ApplyBlock(acc.d, b),
    Inv <- Following

LEMMA PathSynced ==
    ASSUME NEW c \in Seq(Block), Linked(c), NEW r, Path(r, c), ~ r[Len(c)].corrupt
    PROVE  /\ \A i \in 0..Len(c) : Synced(c, i, r[i])
           /\ \A i \in 1..Len(c) : Grows(r[i - 1].d, r[i].d)
<1>1. \A i \in 0..Len(c) : ~ r[i].corrupt
    BY PathSound
<1>2. Len(c) \in Nat
    OBVIOUS
<1>3. Following(c, 0, Fresh, 0, Fresh)
    BY FreshSynced DEF Following
<1>4. ASSUME NEW i \in 1..Len(c), NEW acc, Following(c, 0, Fresh, i - 1, acc)
      PROVE  Following(c, 0, Fresh, i, IF acc.corrupt THEN acc ELSE ApplyBlock(acc.d, c[i]))
    <2>1. CASE acc.corrupt
        BY <2>1 DEF Following
    <2>2. CASE ~ acc.corrupt
        <3>1. More(acc, c[i]).corrupt \/ Synced(c, i, More(acc, c[i]))
            BY <1>4, <2>2, MoreSynced DEF Following
        <3> QED BY <3>1 DEF Following, More
    <2> QED BY <2>1, <2>2
<1>5. Following1!Trace(c, 0, Fresh, c, r)
    BY DEF Path, Following1!Trace, More
<1>6. \A i \in 0..Len(c) : Following(c, 0, Fresh, i, r[i])
    BY <1>2, <1>3, <1>4, <1>5, LeastNatural, Following1!TraceKeeps
<1>7. \A i \in 0..Len(c) : Synced(c, i, r[i])
    BY <1>1, <1>6 DEF Following
<1>8. ASSUME NEW i \in 1..Len(c) PROVE Grows(r[i - 1].d, r[i].d)
    <2>1. i \in 0..Len(c) /\ i - 1 \in 0..Len(c)
        BY <1>2
    <2>2. r[i] = More(r[i - 1], c[i])
        BY DEF Path
    <2>3. ~ r[i - 1].corrupt /\ ~ More(r[i - 1], c[i]).corrupt /\ Synced(c, i - 1, r[i - 1])
        BY <1>1, <1>7, <2>1, <2>2
    <2> QED BY <2>2, <2>3, MoreSynced
<1> QED BY <1>7, <1>8

LEMMA PathGrows ==
    ASSUME NEW r, NEW n \in Nat, \A i \in 1..n : Grows(r[i - 1].d, r[i].d), NEW m \in 0..n
    PROVE  Grows(r[m].d, r[n].d)
<1> DEFINE Bad == {k \in Nat : k <= n - m /\ ~ Grows(r[m].d, r[m + k].d)}
<1>1. SUFFICES ASSUME Bad # {} PROVE FALSE
    <2> SUFFICES ASSUME Bad = {} PROVE Grows(r[m].d, r[n].d)
        OBVIOUS
    <2>1. n - m \in Nat /\ n - m <= n - m /\ m + (n - m) = n
        OBVIOUS
    <2> QED BY <2>1
<1>2. Bad \in SUBSET Nat
    OBVIOUS
<1>3. PICK k \in Bad : \A j \in Bad : k <= j
    <2> HIDE DEF Bad
    <2> QED BY <1>1, <1>2, LeastNatural
<1>4. k \in Nat /\ k <= n - m /\ ~ Grows(r[m].d, r[m + k].d)
    BY <1>3
<1>5. k # 0
    <2>1. Grows(r[m].d, r[m].d)
        BY DEF Grows
    <2>2. m + 0 = m
        OBVIOUS
    <2> QED BY <1>4, <2>1, <2>2
<1>6. k - 1 \in Nat /\ k - 1 <= n - m /\ ~ (k <= k - 1)
    BY <1>4, <1>5
<1>7. k - 1 \notin Bad
    <2> HIDE DEF Bad
    <2> QED BY <1>3, <1>6
<1>8. Grows(r[m].d, r[m + (k - 1)].d)
    BY <1>6, <1>7
<1> DEFINE i == m + k
<1>9. i \in 1..n /\ i - 1 = m + (k - 1)
    BY <1>4, <1>5
<1> HIDE DEF i
<1>10. Grows(r[i - 1].d, r[i].d)
    BY <1>9
<1>11. Grows(r[m].d, r[i].d)
    BY <1>8, <1>9, <1>10, GrowsTrans
<1> QED BY <1>4, <1>11 DEF i

-----------------------------------------------------------------------------
(* The chains of the model, and their beginnings.                          *)

InReach(c) == c \in Seq(Block) /\ Len(c) <= MaxHeight /\ Linked(c)

LEMMA ChainsAre ==
    /\ \A c : c \in Chains <=> InReach(c) /\ ~ Replayed(c).corrupt
    /\ \A c \in Chains : Tables[c] = Replayed(c).d
<1> DEFINE S == {b \in UNION {[1..n -> Block] : n \in 0..MaxHeight} : Linked(b)}
<1>1. ASSUME NEW c PROVE c \in S <=> InReach(c)
    <2>1. ASSUME c \in S PROVE InReach(c)
        <3>1. PICK n \in 0..MaxHeight : c \in [1..n -> Block]
            BY <2>1
        <3>2. c \in Seq(Block) /\ Len(c) = n
            BY <3>1, HeightsAssumption
        <3> QED BY <2>1, <3>2, HeightsAssumption DEF InReach
    <2>2. ASSUME InReach(c) PROVE c \in S
        <3>1. c \in [1..Len(c) -> Block] /\ Len(c) \in 0..MaxHeight
            BY <2>2, HeightsAssumption DEF InReach
        <3> QED BY <2>2, <3>1 DEF InReach
    <2> QED BY <2>1, <2>2
<1> HIDE DEF S
<1>2. /\ \A x \in S : \E p \in Replays : p[1] = x /\ p[2] = Replayed(x)
      /\ \A p \in Replays : p[1] \in S /\ p[2] = Replayed(p[1])
    <2>1. Replays = {<<x, Replayed(x)>> : x \in S}
        BY DEF Replays, S
    <2>2. ASSUME NEW x \in S PROVE \E p \in Replays : p[1] = x /\ p[2] = Replayed(x)
        <3>1. <<x, Replayed(x)>> \in Replays
            BY <2>1
        <3> QED BY <3>1
    <2>3. ASSUME NEW p \in Replays PROVE p[1] \in S /\ p[2] = Replayed(p[1])
        BY <2>1
    <2> QED BY <2>2, <2>3
<1>3. ASSUME NEW c PROVE c \in Chains <=> InReach(c) /\ ~ Replayed(c).corrupt
    <2>1. c \in Chains <=> \E p \in Replays : ~ p[2].corrupt /\ p[1] = c
        BY DEF Chains
    <2>2. c \in Chains <=> c \in S /\ ~ Replayed(c).corrupt
        BY <1>2, <2>1
    <2> QED BY <1>1, <2>2
<1>4. ASSUME NEW c \in Chains PROVE Tables[c] = Replayed(c).d
    <2> DEFINE q == CHOOSE p \in Replays : p[1] = c
    <2>1. Tables[c] = q[2].d
        BY DEF Tables
    <2>2. c \in S
        BY <1>1, <1>3
    <2>3. \E p \in Replays : p[1] = c
        BY <1>2, <2>2
    <2>4. q \in Replays /\ q[1] = c
        BY <2>3
    <2> HIDE DEF q
    <2> QED BY <1>2, <2>1, <2>4
<1> QED BY <1>3, <1>4

LEMMA BeginsChain ==
    ASSUME NEW c \in Chains, NEW a \in Seq(Block), Begins(a, c)
    PROVE  a \in Chains /\ Grows(Tables[a], Tables[c])
<1>1. InReach(c) /\ ~ Replayed(c).corrupt /\ c \in Seq(Block) /\ Linked(c)
    BY ChainsAre DEF InReach
<1>2. PICK r : Path(r, c)
    BY <1>1, PathExists
<1>3. Len(a) \in Nat /\ Len(c) \in Nat /\ Len(a) <= Len(c) /\ DOMAIN a = 1..Len(a)
      /\ DOMAIN c = 1..Len(c)
    BY <1>1 DEF Begins
<1>4. Replayed(a) = r[Len(a)] /\ Replayed(c) = r[Len(c)]
    BY <1>1, <1>2, <1>3, ReplayedIs DEF Begins
<1>5. ~ r[Len(c)].corrupt
    BY <1>1, <1>4
<1>6. \A i \in 1..Len(c) : Grows(r[i - 1].d, r[i].d)
    BY <1>1, <1>2, <1>5, PathSynced
<1>7. ~ r[Len(a)].corrupt
    BY <1>1, <1>2, <1>3, <1>5, PathSound
<1>8. Grows(r[Len(a)].d, r[Len(c)].d)
    BY <1>3, <1>6, PathGrows
<1>9. InReach(a)
    <2>1. Len(a) <= MaxHeight
        BY <1>1, <1>3, HeightsAssumption DEF InReach
    <2>2. ASSUME NEW h \in 1..Len(a)
          PROVE  /\ Height[a[h]] = h
                 /\ Parent[a[h]] = IF h = 1 THEN NoParent ELSE a[h - 1]
        <3>1. h \in 1..Len(c) /\ a[h] = c[h] /\ (h # 1 => a[h - 1] = c[h - 1])
            BY <1>3 DEF Begins
        <3> QED BY <1>1, <1>3, <3>1 DEF Linked
    <2> QED BY <1>3, <2>1, <2>2 DEF InReach, Linked
<1>10. a \in Chains
    BY <1>4, <1>7, <1>9, ChainsAre
<1> QED BY <1>1, <1>4, <1>8, <1>10, ChainsAre

(* What the tables of a chain say of it.                                   *)
LEMMA ChainTables ==
    ASSUME NEW c \in Chains
    PROVE  /\ c \in Seq(Block) /\ Linked(c) /\ Len(c) \in Nat /\ DOMAIN c = 1..Len(c)
           /\ DOMAIN Tables[c].headers = 1..Len(c) /\ IndexedHeight(Tables[c]) = Len(c)
           /\ \A h \in 1..Len(c) : Tables[c].headers[h].id = c[h]
           /\ Tables[c].genesisSeeded /\ BoxIds(Genesis) \subseteq DOMAIN Tables[c].boxes
<1> DEFINE d == Tables[c]
<1>1. c \in Seq(Block) /\ Linked(c) /\ ~ Replayed(c).corrupt /\ d = Replayed(c).d
    BY ChainsAre DEF InReach
<1>2. PICK r : Path(r, c)
    BY <1>1, PathExists
<1>3. Len(c) \in Nat /\ DOMAIN c = 1..Len(c)
    BY <1>1
<1>4. Replayed(c) = r[Len(c)]
    BY <1>1, <1>2, <1>3, ReplayedIs DEF Begins
<1>5. Synced(c, Len(c), r[Len(c)])
    BY <1>1, <1>2, <1>3, <1>4, PathSynced
<1> HIDE DEF d
<1>6. /\ TablesInv(d) /\ d.genesisSeeded /\ Len(Chain(d)) = Len(c)
      /\ \A i \in 1..Len(c) : Chain(d)[i] = c[i]
    BY <1>1, <1>4, <1>5 DEF Synced
<1>7. HeadersSound(d)
    BY <1>6 DEF TablesInv
<1>8. IndexedHeight(d) = Len(c) /\ DOMAIN d.headers = 1..Len(c)
      /\ Chain(d) = [h \in 1..Len(c) |-> d.headers[h].id]
    BY <1>6, <1>7, ChainOf
<1>9. BoxIds(Genesis) \subseteq DOMAIN d.boxes
    BY <1>6 DEF TablesInv, BoxesSound, MadeBy
<1> QED BY <1>1, <1>3, <1>6, <1>8, <1>9 DEF d

LEMMA PrefixBegins ==
    ASSUME NEW a \in Seq(Block), NEW c \in Seq(Block)
    PROVE  IsPrefix(a, c) <=> Begins(a, c)
<1> DEFINE n == Len(a)
<1>1. n \in Nat /\ Len(c) \in Nat /\ DOMAIN a = 1..n /\ DOMAIN c = 1..Len(c)
      /\ 1 \in Int /\ n \in Int
    OBVIOUS
<1>2. CASE n > Len(c)
    BY <1>1, <1>2 DEF IsPrefix, Begins
<1>3. CASE n <= Len(c)
    <2>1. \A i \in 1..n : a[i] \in Block /\ c[i] \in Block
        BY <1>1, <1>3
    <2> DEFINE t == SubSeq(c, 1, n)
    <2>2. t \in Seq(Block) /\ Len(t) = n /\ \A i \in 1..n : t[i] = c[i]
        <3>1. /\ t \in Seq(Block)
              /\ Len(t) = IF 1 <= n THEN n - 1 + 1 ELSE 0
              /\ \A i \in 1..(n - 1 + 1) : t[i] = c[1 + i - 1]
            BY <1>1, <2>1, SubSeqProperties
        <3> QED BY <1>1, <3>1
    <2>3. SubSeq(a, 1, n) = a
        BY SubSeqFull
    <2>4. IsPrefix(a, c) <=> a = t
        BY <1>3, <2>3 DEF IsPrefix
    <2> HIDE DEF t
    <2>5. a = t <=> \A i \in 1..n : a[i] = t[i]
        <3>1. DOMAIN t = 1..n
            BY <2>2
        <3>2. a = [i \in 1..n |-> a[i]] /\ t = [i \in 1..n |-> t[i]]
            BY <1>1, <2>2, <3>1
        <3> QED BY <3>2
    <2> QED BY <1>3, <2>2, <2>4, <2>5 DEF Begins
<1> QED BY <1>1, <1>2, <1>3

LEMMA BeginsAll ==
    ASSUME NEW a \in Seq(Block), NEW c \in Seq(Block), Begins(a, c), Len(a) = Len(c)
    PROVE  a = c
<1>1. DOMAIN a = 1..Len(a) /\ DOMAIN c = 1..Len(a)
    OBVIOUS
<1>2. a = [i \in 1..Len(a) |-> a[i]] /\ c = [i \in 1..Len(a) |-> c[i]]
    BY <1>1
<1> QED BY <1>2 DEF Begins

(* Two chains with the same block at a height agree up to it.              *)
LEMMA LinkedAgree ==
    ASSUME NEW a \in Seq(Block), NEW c \in Seq(Block), Linked(a), Linked(c),
           Len(a) > 0, Len(a) <= Len(c), c[Len(a)] = a[Len(a)]
    PROVE  Begins(a, c)
<1> DEFINE n == Len(a)
           Bad == {k \in Nat : k < n /\ a[n - k] # c[n - k]}
<1>1. n \in Nat /\ n > 0 /\ DOMAIN a = 1..n /\ DOMAIN c = 1..Len(c) /\ Len(c) \in Nat
    OBVIOUS
<1>2. SUFFICES ASSUME Bad # {} PROVE FALSE
    <2> SUFFICES ASSUME Bad = {}, NEW i \in 1..n PROVE a[i] = c[i]
        BY DEF Begins
    <2>1. n - i \in Nat /\ n - i < n /\ n - (n - i) = i
        BY <1>1
    <2> QED BY <2>1
<1>3. Bad \in SUBSET Nat
    OBVIOUS
<1>4. PICK m \in Bad : \A k \in Bad : m <= k
    <2> HIDE DEF Bad
    <2> QED BY <1>2, <1>3, LeastNatural
<1>5. m \in Nat /\ m < n /\ a[n - m] # c[n - m]
    BY <1>4
<1>6. m # 0
    BY <1>1, <1>5
<1> DEFINE i == n - m
           j == i + 1
<1>7. j \in 1..n /\ j # 1 /\ i = j - 1 /\ m - 1 \in Nat /\ m - 1 < n /\ n - (m - 1) = j
      /\ ~ (m <= m - 1)
    BY <1>1, <1>5, <1>6
<1>8. m - 1 \notin Bad
    <2> HIDE DEF Bad
    <2> QED BY <1>4, <1>7
<1>9. a[j] = c[j]
    BY <1>7, <1>8
<1> HIDE DEF i, j, Bad
<1>10. Parent[a[j]] = a[i] /\ Parent[c[j]] = c[i]
    <2>1. j \in DOMAIN a /\ j \in DOMAIN c
        BY <1>1, <1>7
    <2> QED BY <1>7, <2>1 DEF Linked
<1> QED BY <1>5, <1>9, <1>10 DEF i

-----------------------------------------------------------------------------
(* What a continuation compares.                                           *)

LEMMA TipIs ==
    ASSUME NEW c \in Chains
    PROVE  IndexedTip(Tables[c]) = Len(c) /\ Tip(Tables[c]) = Len(c)
BY ChainTables DEF IndexedHeight, IndexedTip, Tip

LEMMA AnchorIs ==
    ASSUME NEW c \in Chains, NEW h \in 0..Len(c)
    PROVE  AnchorAt(Tables[c], h) = [height |-> h, block |-> IF h = 0 THEN NoBlock ELSE c[h]]
<1>1. h # 0 => Tables[c].headers[h].id = c[h]
    BY ChainTables
<1> QED BY <1>1 DEF AnchorAt

LEMMA ObservedIs ==
    ASSUME NEW c \in Chains
    PROVE  /\ Observed(Tables[c]) = NoAnchor <=> Len(c) = 0
           /\ Len(c) > 0 => Observed(Tables[c]) = [height |-> Len(c), block |-> c[Len(c)]]
<1>1. Len(c) \in Nat /\ IndexedTip(Tables[c]) = Len(c)
    BY ChainTables, TipIs
<1>2. CASE Len(c) = 0
    BY <1>1, <1>2 DEF Observed
<1>3. CASE Len(c) # 0
    <2>1. Observed(Tables[c]) = AnchorAt(Tables[c], Len(c))
        BY <1>1, <1>3 DEF Observed
    <2>2. AnchorAt(Tables[c], Len(c)) = [height |-> Len(c), block |-> c[Len(c)]]
        BY <1>1, <1>3, AnchorIs
    <2> QED BY <1>3, <2>1, <2>2 DEF NoAnchor
<1> QED BY <1>1, <1>2, <1>3

(* A token is refused exactly when the chain it was made on is not the     *)
(* beginning of this one, or not all of it.                                *)
LEMMA LostIs ==
    ASSUME NEW route, NEW a \in Chains, Len(a) > 0, NEW c \in Chains
    PROVE  AnchorLost(Tables[c], route, Observed(Tables[a]))
               <=> IF ImmutableMembership(route) THEN ~ Begins(a, c) ELSE a # c
<1> DEFINE d == Tables[c]
           at == Observed(Tables[a])
           n == Len(a)
           m == Len(c)
<1>1. /\ a \in Seq(Block) /\ Linked(a) /\ n \in Nat
      /\ c \in Seq(Block) /\ Linked(c) /\ m \in Nat
      /\ DOMAIN d.headers = 1..m /\ \A h \in 1..m : d.headers[h].id = c[h]
    BY ChainTables
<1>2. at = [height |-> n, block |-> a[n]]
    BY ObservedIs
<1>3. /\ Observed(d) = NoAnchor <=> m = 0
      /\ m > 0 => Observed(d) = [height |-> m, block |-> c[m]]
    BY ObservedIs
<1>4. n <= m => HeaderAt(d, n)[1].id = c[n]
    BY <1>1 DEF HeaderAt
<1>5. Begins(a, c) <=> n <= m /\ c[n] = a[n]
    <2>1. Begins(a, c) => n <= m /\ c[n] = a[n]
        BY <1>1 DEF Begins
    <2> QED BY <1>1, <2>1, LinkedAgree
<1>6. a = c <=> Begins(a, c) /\ n = m
    <2>1. a = c => Begins(a, c)
        BY <1>1 DEF Begins
    <2> QED BY <1>1, <2>1, BeginsAll
<1> HIDE DEF d, at, n, m
<1>7. n > 0 /\ at.height = n /\ at.block = a[n]
    BY <1>2 DEF n
<1>8. m > 0 => (at # Observed(d) <=> n # m \/ a[n] # c[m])
    BY <1>2, <1>3
<1>9. AnchorLost(d, route, at) <=> \/ m = 0 \/ n > m
                                   \/ ~ ImmutableMembership(route) /\ (n # m \/ a[n] # c[m])
                                   \/ c[n] # a[n]
    <2>1. CASE m = 0
        BY <1>3, <2>1 DEF AnchorLost
    <2>2. CASE m > 0 /\ n > m
        <3>1. at.height > Observed(d).height
            BY <1>3, <1>7, <2>2
        <3> QED BY <2>2, <3>1 DEF AnchorLost
    <2>3. CASE m > 0 /\ n <= m
        <3>1. ~ (at.height > Observed(d).height) /\ HeaderAt(d, at.height)[1].id = c[n]
            BY <1>1, <1>3, <1>4, <1>7, <2>3
        <3> QED BY <1>1, <1>3, <1>7, <1>8, <2>3, <3>1 DEF AnchorLost
    <2> QED BY <1>1, <2>1, <2>2, <2>3
<1>10. CASE ImmutableMembership(route)
    BY <1>1, <1>5, <1>7, <1>9, <1>10 DEF d, at
<1>11. CASE ~ ImmutableMembership(route)
    BY <1>1, <1>5, <1>6, <1>7, <1>9, <1>11 DEF d, at
<1> QED BY <1>10, <1>11 DEF d, at

(* Whatever a selector named on a chain it names on a longer one.          *)
LEMMA SelectedStays ==
    ASSUME NEW a \in Chains, NEW c \in Chains, Begins(a, c), NEW q, Found(Tables[a], q)
    PROVE  Found(Tables[c], q) /\ Binding(Tables[c], q) = Binding(Tables[a], q)
<1> DEFINE d == Tables[a]
           x == Tables[c]
<1>1. Grows(d, x)
    BY BeginsChain, ChainTables
<1>2. /\ Len(a) \in Nat /\ Len(c) \in Nat /\ Len(a) <= Len(c)
      /\ DOMAIN d.headers = 1..Len(a) /\ DOMAIN x.headers = 1..Len(c)
      /\ \A h \in 1..Len(a) : d.headers[h].id = x.headers[h].id
    <2>1. Len(a) \in Nat /\ Len(c) \in Nat /\ Len(a) <= Len(c)
        BY ChainTables DEF Begins
    <2>2. \A h \in 1..Len(a) : h \in 1..Len(c) /\ a[h] = c[h]
        BY <2>1 DEF Begins
    <2> QED BY <2>1, <2>2, ChainTables
<1> HIDE DEF d, x
<1>3. ASSUME Selected(d, q) # {} PROVE Selected(x, q) = Selected(d, q)
    <2>1. CASE "height" \in DOMAIN q.by
        <3>1. q.by.height \in DOMAIN d.headers
            BY <1>3, <2>1 DEF Selected
        <3>2. q.by.height \in DOMAIN x.headers
              /\ x.headers[q.by.height].id = d.headers[q.by.height].id
            BY <1>2, <3>1
        <3> QED BY <2>1, <3>1, <3>2 DEF Selected
    <2>2. CASE "height" \notin DOMAIN q.by /\ "id" \in DOMAIN q.by
        BY <1>1, <1>3, <2>2 DEF Selected, Grows
    <2>3. CASE "height" \notin DOMAIN q.by /\ "id" \notin DOMAIN q.by
        BY <1>1, <1>3, <2>3 DEF Selected, Grows
    <2> QED BY <2>1, <2>2, <2>3
<1>4. Resolves(q) => Selected(d, q) # {}
    BY DEF Found, d
<1>5. Found(x, q)
    BY <1>3, <1>4 DEF Found
<1>6. Binding(x, q) = Binding(d, q)
    <2>1. CASE q.route # "block_summaries"
        BY <2>1 DEF Binding
    <2>2. CASE q.route = "block_summaries"
        <3>1. Selected(x, q) = Selected(d, q)
            BY <1>3, <1>4, <2>2 DEF Resolves
        <3> QED BY <3>1 DEF Binding
    <2> QED BY <2>1, <2>2
<1> QED BY <1>5, <1>6 DEF d, x

(* The chain-spec boxes are either right on every chain or on none.        *)
LEMMA GenesisStays ==
    ASSUME NEW a \in Chains, NEW c \in Chains, MainnetGenesis(Tables[a])
    PROVE  MainnetGenesis(Tables[c])
<1>1. <<>> \in Seq(Block) /\ Begins(<<>>, a) /\ Begins(<<>>, c)
    BY ChainTables DEF Begins
<1>2. <<>> \in Chains /\ Grows(Tables[<<>>], Tables[a]) /\ Grows(Tables[<<>>], Tables[c])
    BY <1>1, BeginsChain
<1>3. FullHistory(Tables[c])
    BY ChainTables DEF FullHistory
<1>4. ASSUME NEW o \in Range(Genesis)
      PROVE  /\ o.id \in DOMAIN Tables[c].boxes
             /\ Tables[c].boxes[o.id].value = o.value
             /\ Tables[c].boxes[o.id].tx = "genesis"
    <2>1. o.id \in DOMAIN Tables[<<>>].boxes
        BY <1>2, ChainTables DEF BoxIds
    <2>2. Tables[a].boxes[o.id].value = o.value /\ Tables[a].boxes[o.id].tx = "genesis"
        BY DEF MainnetGenesis
    <2> QED BY <1>2, <2>1, <2>2 DEF Grows
<1> QED BY <1>3, <1>4 DEF MainnetGenesis

-----------------------------------------------------------------------------
(* The session.                                                            *)

(* An open listing of the tables of a moment: the token names the first    *)
(* page's tip, and its binding what the query meant on that chain.         *)
PinnedToTip(s) ==
    /\ s.base \in Chains /\ Len(s.base) > 0
    /\ Found(Tables[s.base], s.query) /\ Known(Tables[s.base], s.query)
    /\ s.token.at = Observed(Tables[s.base])
    /\ s.token.binding = Binding(Tables[s.base], s.query)

(* An open listing of the boxes at a height: the token names its block.    *)
PinnedToHeight(s) ==
    /\ s.asked = s.query /\ s.token.binding = s.query
    /\ s.base \in Chains /\ Len(s.base) = s.query.by.at
    /\ MainnetGenesis(Tables[s.base])
    /\ s.token.at = AnchorAt(Tables[s.base], s.query.by.at)

SessionKeys == {"state", "query", "asked", "got", "token", "base"}

PagingInv ==
    /\ chain \in Chains
    /\ DOMAIN session = SessionKeys
    /\ session.state = "open" =>
          /\ session.query \in Query
          /\ IF Strict(session.query) THEN PinnedToTip(session) ELSE PinnedToHeight(session)

LEMMA TurnedIs ==
    ASSUME NEW s, DOMAIN s = SessionKeys, NEW q, NEW d, NEW at, NEW page
    PROVE  LET t == Turned(s, q, d, at, page)
           IN  /\ DOMAIN t = SessionKeys
               /\ t.state = AfterPage(page, at) /\ t.asked = q
               /\ t.query = s.query /\ t.base = s.base
               /\ t.token.at = at /\ t.token.binding = Binding(d, q)
<1> DEFINE f == [at |-> at, cursor |-> page.next, binding |-> Binding(d, q)]
           t == Turned(s, q, d, at, page)
<1>1. f.at = at /\ f.binding = Binding(d, q)
    OBVIOUS
<1>2. t = [s EXCEPT !.state = AfterPage(page, at), !.asked = q,
                    !.got = @ \o page.items, !.token = f]
    BY DEF Turned
<1> HIDE DEF f, t
<1>3. /\ DOMAIN t = SessionKeys /\ t.state = AfterPage(page, at) /\ t.asked = q
      /\ t.query = s.query /\ t.base = s.base /\ t.token = f
    BY <1>2 DEF SessionKeys
<1> QED BY <1>1, <1>3 DEF t

LEMMA HistoryTurnedIs ==
    ASSUME NEW s, DOMAIN s = SessionKeys, NEW q, NEW d, NEW page
    PROVE  LET t == HistoryTurned(s, d, q, page)
           IN  /\ DOMAIN t = SessionKeys
               /\ t.state \in {"refused", "open", "done"} /\ t.asked = s.asked
               /\ t.query = s.query /\ t.base = s.base
               /\ t.token.at = AnchorAt(d, q.by.at) /\ t.token.binding = Binding(d, q)
<1> DEFINE f == [at |-> AnchorAt(d, q.by.at), cursor |-> page.last, binding |-> Binding(d, q)]
           t == HistoryTurned(s, d, q, page)
           v == IF page.refused \/ (page.more /\ page.last = NoRow) THEN "refused"
                ELSE IF page.more THEN "open" ELSE "done"
<1>1. f.at = AnchorAt(d, q.by.at) /\ f.binding = Binding(d, q)
    OBVIOUS
<1>2. t = [s EXCEPT !.state = v, !.got = @ \o page.items, !.token = f]
    BY DEF HistoryTurned
<1>3. v \in {"refused", "open", "done"}
    OBVIOUS
<1> HIDE DEF f, t, v
<1>4. /\ DOMAIN t = SessionKeys /\ t.state = v /\ t.asked = s.asked
      /\ t.query = s.query /\ t.base = s.base /\ t.token = f
    BY <1>2 DEF SessionKeys
<1> QED BY <1>1, <1>3, <1>4 DEF t

(* What a query binds: its route and direction, and itself unless it must  *)
(* be resolved.                                                            *)
LEMMA BindingIs ==
    ASSUME NEW q \in Query, NEW d
    PROVE  /\ Binding(d, q).route = q.route /\ Binding(d, q).dir = q.dir
           /\ q.route # "block_summaries" => Binding(d, q) = q
<1>1. q = [route |-> q.route, dir |-> q.dir, by |-> q.by]
    BY QueryAssumption
<1>2. ASSUME NEW x, NEW y, x = [q EXCEPT !.by = y] PROVE x.route = q.route /\ x.dir = q.dir
    BY <1>1, <1>2
<1> QED BY <1>2 DEF Binding

(* What follows from a token that holds: the listing is still there, and   *)
(* bound to what it was bound to.                                          *)
LEMMA TokenHolds ==
    ASSUME PagingInv, session.state = "open", Strict(session.query),
           ~ AnchorLost(Tables[chain], session.query.route, session.token.at)
    PROVE  /\ Found(Tables[chain], session.query) /\ Known(Tables[chain], session.query)
           /\ Binding(Tables[chain], session.query) = session.token.binding
<1> DEFINE q == session.query
           a == session.base
<1>1. PinnedToTip(session) /\ chain \in Chains /\ q \in Query
    BY DEF PagingInv
<1>2. a \in Chains /\ Len(a) > 0
    BY <1>1 DEF PinnedToTip
<1>3. IF ImmutableMembership(q.route) THEN Begins(a, chain) ELSE a = chain
    BY <1>1, <1>2, LostIs DEF PinnedToTip
<1>4. CASE ~ ImmutableMembership(q.route)
    BY <1>1, <1>3, <1>4 DEF PinnedToTip
<1>5. CASE ImmutableMembership(q.route)
    <2>1. Found(Tables[a], q)
        BY <1>1 DEF PinnedToTip
    <2>2. Found(Tables[chain], q) /\ Binding(Tables[chain], q) = Binding(Tables[a], q)
        BY <1>1, <1>2, <1>3, <1>5, <2>1, SelectedStays
    <2>3. Known(Tables[chain], q)
        BY <1>5 DEF ImmutableMembership, Known
    <2> QED BY <1>1, <2>2, <2>3 DEF PinnedToTip
<1> QED BY <1>4, <1>5

LEMMA StrictExpires ==
    ASSUME PagingInv, session.state = "open", Strict(session.query)
    PROVE  Expires(session, chain)
               <=> AnchorLost(Tables[chain], session.query.route, session.token.at)
<1> DEFINE q == session.query
           a == session.base
<1>1. PinnedToTip(session) /\ chain \in Chains
    BY DEF PagingInv
<1>2. a \in Chains /\ Len(a) > 0 /\ session.token.at = Observed(Tables[a])
    BY <1>1 DEF PinnedToTip
<1>3. a \in Seq(Block) /\ chain \in Seq(Block)
    BY <1>1, <1>2, ChainTables
<1>4. IsPrefix(a, chain) <=> Begins(a, chain)
    BY <1>3, PrefixBegins
<1>5. q.route \in Pinned <=> ImmutableMembership(q.route)
    BY DEF Strict, Pinned, ImmutableMembership
<1>6. AnchorLost(Tables[chain], q.route, session.token.at)
          <=> IF ImmutableMembership(q.route) THEN ~ Begins(a, chain) ELSE a # chain
    BY <1>1, <1>2, LostIs
<1> QED BY <1>4, <1>5, <1>6 DEF Expires

(* The schedule's 503 comes first, and only when its listing has expired.  *)
LEMMA UnavailableIs ==
    ASSUME NEW c \in Chains, NEW q
    PROVE  Unavailable(Tables[c], q) <=> c = <<>> /\ q.route = "rent_schedule"
<1>1. c \in Seq(Block) /\ IndexedTip(Tables[c]) = Len(c)
    BY ChainTables, TipIs
<1>2. c = <<>> <=> Len(c) = 0
    BY <1>1
<1> QED BY <1>1, <1>2 DEF Unavailable, ScheduleUnavailable

LEMMA UnavailableExpires ==
    ASSUME PagingInv, session.state = "open", Strict(session.query),
           Unavailable(Tables[chain], session.query)
    PROVE  Expires(session, chain)
<1>1. PinnedToTip(session) /\ chain \in Chains
    BY DEF PagingInv
<1>2. chain = <<>> /\ session.query.route = "rent_schedule"
    BY <1>1, UnavailableIs
<1>3. session.base # chain
    BY <1>1, <1>2 DEF PinnedToTip
<1> QED BY <1>2, <1>3 DEF Expires, Pinned

LEMMA VerdictIs ==
    ASSUME PagingInv, session.state = "open", Strict(session.query),
           NEW q \in Query, q.route = session.query.route
    PROVE  LET d == Tables[chain]
               verdict == Verdict(d, q, session.token)
           IN  /\ verdict \in {"unavailable", "invalid", "changed", "open"}
               /\ verdict = "open" => Binding(d, q) = session.token.binding
               /\ verdict = "unavailable" <=> Unavailable(d, q)
               /\ q = session.query =>
                     /\ verdict # "invalid"
                     /\ verdict \in {"changed", "unavailable"} <=> Expires(session, chain)
<1> DEFINE d == Tables[chain]
           a == session.base
           old == session.query
           b == session.token.binding
           bound == Found(d, q) /\ Binding(d, q) = b
           gone == Unavailable(d, q)
           lost == AnchorLost(d, q.route, session.token.at)
           verdict == Verdict(d, q, session.token)
<1>1. /\ PinnedToTip(session) /\ old \in Query /\ chain \in Chains
      /\ b = Binding(Tables[a], old)
    BY DEF PagingInv, PinnedToTip
<1>2. b.route = old.route /\ b.dir = old.dir /\ (old.route # "block_summaries" => b = old)
    BY <1>1, BindingIs
<1>3. q.route # "block_summaries" => Binding(d, q) = q
    BY BindingIs
<1>4. lost <=> Expires(session, chain)
    BY StrictExpires
<1>5. ~ lost => Known(d, old) /\ Found(d, old) /\ Binding(d, old) = b
    BY TokenHolds
<1>6. Verdict(d, q, session.token)
          = IF gone THEN "unavailable"
            ELSE IF \/ q.route # b.route \/ q.dir # b.dir
                    \/ ~ Resolves(q) /\ ~ bound
            THEN "invalid"
            ELSE IF lost THEN "changed"
            ELSE IF ~ bound THEN "invalid"
            ELSE IF ~ Known(d, q) THEN "absent"
            ELSE "open"
    BY Zenon DEF Verdict
<1>7. bound /\ ~ lost => Known(d, q)
    <2>1. CASE q.route = "block_summaries"
        BY <2>1 DEF Known
    <2>2. CASE q.route # "block_summaries"
        <3>1. bound => q = old
            BY <1>2, <1>3, <2>2
        <3> QED BY <1>5, <3>1
    <2> QED BY <2>1, <2>2
<1>8. q = old /\ ~ Resolves(q) => bound
    <2>1. ~ Resolves(q) => q.route # "block_summaries" /\ Found(d, q)
        BY DEF Resolves, Found
    <2> QED BY <1>2, <1>3, <2>1
<1>9. q = old /\ ~ lost => bound
    BY <1>5
<1>10. q = old /\ gone => lost
    BY <1>4, UnavailableExpires
<1> HIDE DEF d, a, old, b, bound, gone, lost
<1>11. /\ verdict \in {"unavailable", "invalid", "changed", "open"}
       /\ verdict = "unavailable" <=> gone
    BY <1>6, <1>7
<1>12. verdict = "open" => bound
    BY <1>6
<1>13. q = old => verdict = IF gone THEN "unavailable" ELSE IF lost THEN "changed" ELSE "open"
    BY <1>2, <1>6, <1>7, <1>8, <1>9
<1> HIDE DEF verdict
<1>14. verdict = "open" => Binding(d, q) = b
    BY <1>12 DEF bound
<1>15. q = old => verdict # "invalid"
                  /\ (verdict \in {"changed", "unavailable"} <=> Expires(session, chain))
    BY <1>4, <1>13, <1>10
<1> QED BY <1>11, <1>14, <1>15 DEF verdict, d, old, b, gone

(* A next page keeps what the first one pinned.                            *)
LEMMA ContinueStep ==
    ASSUME PagingInv, NEW q \in Query, q.route = session.query.route, NEW limit,
           Continue(q, limit)
    PROVE  PagingInv' /\ FairAnswer
<1> DEFINE d == Tables[chain]
           s == session
           verdict == Verdict(d, q, s.token)
           page == ReadPage(d, q, s.token.at, s.token.cursor, limit)
           t == session'
<1>1. /\ s.state = "open" /\ Strict(q) /\ Strict(s.query)
      /\ t = Continued(s, d, q, limit) /\ chain' = chain
    BY DEF Continue
<1>2. /\ chain \in Chains /\ DOMAIN s = SessionKeys /\ s.query \in Query /\ PinnedToTip(s)
    BY <1>1 DEF PagingInv
<1>3. /\ verdict \in {"unavailable", "invalid", "changed", "open"}
      /\ verdict = "open" => Binding(d, q) = s.token.binding
      /\ verdict = "unavailable" <=> chain = <<>> /\ s.query.route = "rent_schedule"
      /\ q = s.query =>
            verdict # "invalid" /\ (verdict \in {"changed", "unavailable"} <=> Expires(s, chain))
    BY <1>1, <1>2, VerdictIs, UnavailableIs
<1>4. CASE verdict # "open"
    <2>1. t = [s EXCEPT !.state = verdict, !.asked = q]
        BY <1>1, <1>4 DEF Continued
    <2>2. DOMAIN t = SessionKeys /\ t.state = verdict /\ t.asked = q
        BY <1>2, <2>1 DEF SessionKeys
    <2>3. PagingInv'
        BY <1>1, <1>2, <1>4, <2>2 DEF PagingInv
    <2>4. FairAnswer
        BY <1>3, <1>4, <2>2 DEF FairAnswer
    <2> QED BY <2>3, <2>4
<1>5. CASE verdict = "open"
    <2>1. t = Turned(s, q, d, s.token.at, page)
        BY <1>1, <1>5 DEF Continued
    <2>2. /\ DOMAIN t = SessionKeys
          /\ t.state = AfterPage(page, s.token.at) /\ t.asked = q
          /\ t.query = s.query /\ t.base = s.base
          /\ t.token.at = s.token.at /\ t.token.binding = Binding(d, q)
        BY <1>2, <2>1, TurnedIs
    <2>3. t.token.binding = s.token.binding
        BY <1>3, <1>5, <2>2
    <2>4. PinnedToTip(t)
        BY <1>2, <2>2, <2>3 DEF PinnedToTip
    <2>5. PagingInv'
        BY <1>1, <1>2, <2>2, <2>4 DEF PagingInv
    <2>6. t.state \in {"corrupt", "done", "unanchored", "open"}
        BY <2>2 DEF AfterPage
    <2>7. FairAnswer
        BY <1>3, <1>5, <2>2, <2>6 DEF FairAnswer
    <2> QED BY <2>5, <2>7
<1> QED BY <1>4, <1>5

LEMMA HistoryExpires ==
    ASSUME PagingInv, session.state = "open", ~ Strict(session.query)
    PROVE  Expires(session, chain)
               <=> Anchor(Tables[chain], session.query.by.at, NoBlock, session.token.at) # "ok"
<1> DEFINE q == session.query
           d == Tables[chain]
           a == session.base
           h == q.by.at
           at == session.token.at
<1>1. chain \in Chains /\ q \in Query /\ PinnedToHeight(session) /\ q.route = "boxes_at"
    BY DEF PagingInv, Strict
<1>2. /\ a \in Chains /\ Len(a) = h /\ h \in Nat /\ MainnetGenesis(d)
      /\ at = AnchorAt(Tables[a], h)
    BY <1>1, ChainTables, GenesisStays DEF PinnedToHeight
<1>3. /\ a \in Seq(Block) /\ Linked(a) /\ chain \in Seq(Block) /\ Linked(chain)
      /\ Len(chain) \in Nat /\ Tip(d) = Len(chain)
    BY <1>1, <1>2, ChainTables, TipIs
<1>4. Expires(session, chain) <=> ~ Begins(a, chain)
    <2>1. IsPrefix(a, chain) <=> Begins(a, chain)
        BY <1>3, PrefixBegins
    <2> QED BY <1>1, <2>1 DEF Expires, Pinned
<1>5. at = [height |-> h, block |-> IF h = 0 THEN NoBlock ELSE a[h]]
    BY <1>2, AnchorIs
<1>6. at # <<>>
    <2>1. DOMAIN at # {} /\ DOMAIN <<>> = {}
        BY <1>5
    <2> QED BY <2>1
<1>7. h <= Len(chain) =>
          AnchorAt(d, h) = [height |-> h, block |-> IF h = 0 THEN NoBlock ELSE chain[h]]
    BY <1>1, <1>2, <1>3, AnchorIs
<1> HIDE DEF d, at, h, a
<1>8. h <= Len(chain) => (AnchorAt(d, h) # at <=> h # 0 /\ a[h] # chain[h])
    BY <1>5, <1>7
<1>9. Anchor(d, h, NoBlock, at) # "ok" <=> h > Len(chain) \/ (h # 0 /\ a[h] # chain[h])
    <2>1. CASE h > Len(chain)
        BY <1>2, <1>3, <1>6, <2>1 DEF Anchor
    <2>2. CASE h <= Len(chain)
        BY <1>2, <1>3, <1>6, <1>8, <2>2 DEF Anchor
    <2> QED BY <1>2, <1>3, <2>1, <2>2
<1>10. Begins(a, chain) <=> h <= Len(chain) /\ (h # 0 => a[h] = chain[h])
    <2>1. Begins(a, chain) => h <= Len(chain) /\ (h # 0 => a[h] = chain[h])
        BY <1>2, <1>3 DEF Begins
    <2>2. CASE h = 0
        BY <1>2, <1>3, <2>2 DEF Begins
    <2>3. CASE h # 0
        BY <1>2, <1>3, <2>1, <2>3, LinkedAgree
    <2> QED BY <2>1, <2>2, <2>3
<1> QED BY <1>2, <1>3, <1>4, <1>9, <1>10 DEF d, at, h

LEMMA ContinueHistoryStep ==
    ASSUME PagingInv, NEW limit, NEW patience, ContinueHistory(limit, patience)
    PROVE  PagingInv' /\ FairAnswer
<1> DEFINE d == Tables[chain]
           s == session
           q == s.query
           t == session'
           page == BoxesAt(d, q.by.tree, q.by.at, s.token.cursor, limit, patience)
<1>1. /\ s.state = "open" /\ ~ Strict(q)
      /\ t = HistoryContinued(s, d, limit, patience) /\ chain' = chain
    BY DEF ContinueHistory
<1>2. /\ chain \in Chains /\ DOMAIN s = SessionKeys /\ q \in Query /\ PinnedToHeight(s)
      /\ q.route = "boxes_at"
    BY <1>1 DEF PagingInv, Strict
<1>3. Expires(s, chain) <=> Anchor(d, q.by.at, NoBlock, s.token.at) # "ok"
    BY <1>1, HistoryExpires
<1>4. Binding(d, q) = q
    BY <1>2, BindingIs
<1>5. CASE Anchor(d, q.by.at, NoBlock, s.token.at) # "ok"
    <2>1. t = [s EXCEPT !.state = "changed"]
        BY <1>1, <1>5 DEF HistoryContinued
    <2>2. DOMAIN t = SessionKeys /\ t.state = "changed"
        BY <1>2, <2>1 DEF SessionKeys
    <2>3. PagingInv'
        BY <1>1, <1>2, <2>2 DEF PagingInv
    <2>4. FairAnswer
        BY <1>2, <1>3, <1>5, <2>2 DEF FairAnswer
    <2> QED BY <2>3, <2>4
<1>6. CASE Anchor(d, q.by.at, NoBlock, s.token.at) = "ok"
    <2>1. t = HistoryTurned(s, d, q, page)
        BY <1>1, <1>6 DEF HistoryContinued
    <2>2. /\ DOMAIN t = SessionKeys
          /\ t.state \in {"refused", "open", "done"} /\ t.asked = s.asked
          /\ t.query = q /\ t.base = s.base
          /\ t.token.at = AnchorAt(d, q.by.at) /\ t.token.binding = Binding(d, q)
        BY <1>2, <2>1, HistoryTurnedIs
    <2>3. AnchorAt(d, q.by.at) = s.token.at
        <3>1. s.token.at # <<>>
            <4>1. s.token.at = AnchorAt(Tables[s.base], q.by.at)
                BY <1>2 DEF PinnedToHeight
            <4>2. DOMAIN s.token.at # {} /\ DOMAIN <<>> = {}
                BY <4>1 DEF AnchorAt
            <4> QED BY <4>2
        <3> QED BY <1>6, <3>1 DEF Anchor
    <2>4. PinnedToHeight(t)
        BY <1>2, <1>4, <2>2, <2>3 DEF PinnedToHeight
    <2>5. PagingInv'
        BY <1>1, <1>2, <2>2, <2>4 DEF PagingInv
    <2>6. FairAnswer
        <3>1. t.asked = q /\ s.token.binding = q
            BY <1>2, <2>2 DEF PinnedToHeight
        <3> QED BY <1>2, <1>3, <1>4, <1>6, <2>2, <3>1 DEF FairAnswer
    <2> QED BY <2>5, <2>6
<1> QED BY <1>5, <1>6

(* A first page pins the tip it was read from.                             *)
LEMMA StartStep ==
    ASSUME PagingInv, NEW q \in Query, NEW limit, Start(q, limit)
    PROVE  PagingInv'
<1> DEFINE d == Tables[chain]
           new == [NoSession EXCEPT !.query = q, !.asked = q, !.base = chain]
           page == ReadPage(d, q, Observed(d), NoRow, limit)
           t == session'
           verdict == FirstVerdict(d, q)
<1>1. /\ Strict(q) /\ chain' = chain
      /\ t = IF verdict # "open" THEN [new EXCEPT !.state = verdict]
             ELSE Turned(new, q, d, Observed(d), page)
    BY DEF Start
<1>2. chain \in Chains
    BY DEF PagingInv
<1>3. DOMAIN new = SessionKeys /\ new.query = q /\ new.base = chain
    BY DEF NoSession, SessionKeys
<1> HIDE DEF new
<1>4. CASE verdict # "open"
    <2>1. t = [new EXCEPT !.state = verdict]
        BY <1>1, <1>4
    <2>2. DOMAIN t = SessionKeys /\ t.state = verdict
        BY <1>3, <2>1 DEF SessionKeys
    <2> QED BY <1>1, <1>2, <1>4, <2>2 DEF PagingInv
<1>5. CASE verdict = "open"
    <2>1. t = Turned(new, q, d, Observed(d), page)
        BY <1>1, <1>5
    <2>2. /\ DOMAIN t = SessionKeys /\ t.state = AfterPage(page, Observed(d))
          /\ t.query = q /\ t.base = chain
          /\ t.token.at = Observed(d) /\ t.token.binding = Binding(d, q)
        BY <1>3, <2>1, TurnedIs
    <2>3. Found(d, q) /\ Known(d, q)
        BY <1>5 DEF FirstVerdict
    <2>4. ASSUME t.state = "open" PROVE PinnedToTip(t)
        <3>1. Observed(d) # NoAnchor
            BY <2>2, <2>4 DEF AfterPage
        <3>2. Len(chain) \in Nat /\ (Observed(d) = NoAnchor <=> Len(chain) = 0)
            BY <1>2, ChainTables, ObservedIs
        <3>3. Len(chain) > 0
            BY <3>1, <3>2
        <3> QED BY <1>2, <2>2, <2>3, <3>3 DEF PinnedToTip
    <2> QED BY <1>1, <1>2, <2>2, <2>4 DEF PagingInv
<1> QED BY <1>4, <1>5

(* A first page of a history pins the block of its height.                 *)
LEMMA StartHistoryStep ==
    ASSUME PagingInv, NEW q \in Query, NEW limit, NEW patience,
           StartHistory(q, limit, patience)
    PROVE  PagingInv'
<1> DEFINE d == Tables[chain]
           h == q.by.at
           base == SubSeq(chain, 1, h)
           new == [NoSession EXCEPT !.query = q, !.asked = q]
           old == [new EXCEPT !.base = base]
           page == BoxesAt(d, q.by.tree, h, NoRow, limit, patience)
           t == session'
           verdict == Anchor(d, h, NoBlock, <<>>)
<1>1. /\ ~ Strict(q) /\ chain' = chain
      /\ t = IF verdict # "ok" THEN [new EXCEPT !.state = "absent"]
             ELSE HistoryTurned(old, d, q, page)
    BY DEF StartHistory
<1>2. chain \in Chains /\ q.route = "boxes_at" /\ h \in Nat
    BY <1>1, QueryAssumption DEF PagingInv, Strict
<1>3. /\ DOMAIN new = SessionKeys /\ DOMAIN old = SessionKeys
      /\ old.query = q /\ old.asked = q /\ old.base = base
    BY DEF NoSession, SessionKeys
<1> HIDE DEF new, old
<1>4. CASE verdict # "ok"
    <2>1. t = [new EXCEPT !.state = "absent"]
        BY <1>1, <1>4
    <2>2. DOMAIN t = SessionKeys /\ t.state = "absent"
        BY <1>3, <2>1 DEF SessionKeys
    <2> QED BY <1>1, <1>2, <2>2 DEF PagingInv
<1>5. CASE verdict = "ok"
    <2>1. t = HistoryTurned(old, d, q, page)
        BY <1>1, <1>5
    <2>2. /\ DOMAIN t = SessionKeys /\ t.asked = q
          /\ t.query = q /\ t.base = base
          /\ t.token.at = AnchorAt(d, h) /\ t.token.binding = Binding(d, q)
        BY <1>3, <2>1, HistoryTurnedIs
    <2>3. MainnetGenesis(d) /\ ~ (h > Tip(d))
        BY <1>5 DEF Anchor
    <2>4. chain \in Seq(Block) /\ DOMAIN chain = 1..Len(chain) /\ Len(chain) \in Nat
          /\ h <= Len(chain)
        BY <1>2, <2>3, ChainTables, TipIs
    <2>5. base \in Seq(Block) /\ Len(base) = h /\ \A i \in 1..h : base[i] = chain[i]
        <3>1. \A i \in 1..h : chain[i] \in Block
            BY <1>2, <2>4
        <3>2. /\ base \in Seq(Block)
              /\ Len(base) = IF 1 <= h THEN h - 1 + 1 ELSE 0
              /\ \A i \in 1..(h - 1 + 1) : base[i] = chain[1 + i - 1]
            BY <1>2, <3>1, SubSeqProperties
        <3> QED BY <1>2, <3>2
    <2>6. Begins(base, chain)
        BY <2>4, <2>5 DEF Begins
    <2> HIDE DEF base
    <2>7. base \in Chains
        BY <1>2, <2>5, <2>6, BeginsChain
    <2>8. MainnetGenesis(Tables[base])
        BY <1>2, <2>3, <2>7, GenesisStays
    <2>9. AnchorAt(d, h) = AnchorAt(Tables[base], h)
        <3>1. AnchorAt(d, h) = [height |-> h, block |-> IF h = 0 THEN NoBlock ELSE chain[h]]
            BY <1>2, <2>4, AnchorIs
        <3>2. AnchorAt(Tables[base], h)
                  = [height |-> h, block |-> IF h = 0 THEN NoBlock ELSE base[h]]
            BY <1>2, <2>5, <2>7, AnchorIs
        <3>3. h # 0 => base[h] = chain[h]
            BY <1>2, <2>5
        <3> QED BY <3>1, <3>2, <3>3
    <2>10. PinnedToHeight(t)
        BY <1>2, <2>2, <2>5, <2>7, <2>8, <2>9, BindingIs DEF PinnedToHeight
    <2> QED BY <1>1, <1>2, <2>2, <2>10 DEF PagingInv
<1> QED BY <1>4, <1>5

LEMMA ShrinkStep ==
    ASSUME PagingInv, NEW h \in 0..MaxHeight, Shrink(h)
    PROVE  PagingInv'
<1>1. h < Len(chain) /\ chain' = SubSeq(chain, 1, h) /\ session' = session /\ chain \in Chains
    BY DEF Shrink, PagingInv
<1>2. chain \in Seq(Block) /\ DOMAIN chain = 1..Len(chain) /\ Len(chain) \in Nat /\ h \in Nat
    BY <1>1, ChainTables, HeightsAssumption
<1>3. \A i \in 1..h : chain[i] \in Block
    BY <1>1, <1>2
<1>4. /\ chain' \in Seq(Block)
      /\ Len(chain') = IF 1 <= h THEN h - 1 + 1 ELSE 0
      /\ \A i \in 1..(h - 1 + 1) : chain'[i] = chain[1 + i - 1]
    BY <1>1, <1>2, <1>3, SubSeqProperties
<1>5. Begins(chain', chain)
    BY <1>1, <1>2, <1>4 DEF Begins
<1>6. chain' \in Chains
    BY <1>1, <1>4, <1>5, BeginsChain
<1> QED BY <1>1, <1>6 DEF PagingInv

LEMMA PagingStart ==
    ASSUME PagingInit
    PROVE  PagingInv
<1>1. chain = <<>> /\ session = NoSession
    BY DEF PagingInit
<1>2. <<>> \in Chains
    <2>1. <<>> \in Seq(Block) /\ Len(<<>>) = 0 /\ DOMAIN <<>> = {}
        OBVIOUS
    <2>2. InReach(<<>>)
        BY <2>1, HeightsAssumption DEF InReach, Linked
    <2>3. PICK r : Path(r, <<>>)
        BY <2>1, PathExists
    <2>4. Begins(<<>>, <<>>)
        BY <2>1 DEF Begins
    <2>5. Replayed(<<>>) = r[Len(<<>>)]
        BY <2>1, <2>3, <2>4, ReplayedIs
    <2>6. Replayed(<<>>) = Fresh
        BY <2>1, <2>3, <2>5 DEF Path
    <2>7. Fresh.corrupt = FALSE
        BY FreshSynced
    <2> QED BY <2>2, <2>6, <2>7, ChainsAre
<1>3. DOMAIN NoSession = SessionKeys /\ NoSession.state = "none"
    BY DEF NoSession, SessionKeys
<1> QED BY <1>1, <1>2, <1>3 DEF PagingInv

LEMMA PagingStep ==
    ASSUME PagingInv, [PagingNext]_pagingVars
    PROVE  /\ PagingInv'
           /\ session.state = "open" /\ session' # session => FairAnswer
<1>1. ASSUME NEW b \in Block, Grow(b)
      PROVE  PagingInv' /\ session' = session
    BY <1>1 DEF Grow, PagingInv
<1>2. ASSUME NEW h \in 0..MaxHeight, Shrink(h)
      PROVE  PagingInv' /\ session' = session
    BY <1>2, ShrinkStep DEF Shrink
<1>3. ASSUME NEW q \in Query, NEW limit \in PageLimit, Start(q, limit)
      PROVE  PagingInv' /\ session.state = "none"
    BY <1>3, StartStep DEF Start
<1>4. ASSUME NEW q \in Query, q.route = session.query.route, NEW limit \in PageLimit,
             Continue(q, limit)
      PROVE  PagingInv' /\ FairAnswer
    BY <1>4, ContinueStep
<1>5. ASSUME NEW q \in Query, NEW limit \in PageLimit, NEW patience \in Patience,
             StartHistory(q, limit, patience)
      PROVE  PagingInv' /\ session.state = "none"
    BY <1>5, StartHistoryStep DEF StartHistory
<1>6. ASSUME NEW limit \in PageLimit, NEW patience \in Patience,
             ContinueHistory(limit, patience)
      PROVE  PagingInv' /\ FairAnswer
    BY <1>6, ContinueHistoryStep
<1>7. CASE Restart
    <2>1. session.state # "open" /\ session' = NoSession /\ chain' = chain
        BY <1>7 DEF Restart, Watched
    <2>2. DOMAIN NoSession = SessionKeys /\ NoSession.state = "none"
        BY DEF NoSession, SessionKeys
    <2> QED BY <2>1, <2>2 DEF PagingInv
<1>8. CASE UNCHANGED pagingVars
    <2>1. chain' = chain /\ session' = session
        BY <1>8 DEF pagingVars
    <2> QED BY <2>1 DEF PagingInv
<1> QED BY <1>1, <1>2, <1>3, <1>4, <1>5, <1>6, <1>7, <1>8 DEF PagingNext

(* However the chain moves while a client turns pages (paging.rs resolve,  *)
(* with_page; history.rs anchor), a listing is refused with 409 exactly    *)
(* when what its token names is not the chain any more, or with the rent   *)
(* schedule's 503 when no chain is left; with 400 only when the client     *)
(* asks for another listing, and never with 404; what it reads on is what  *)
(* its token is bound to.                                                  *)
THEOREM PagingExpiresOnlyWhenChanged == PagingSpec => ExpiresOnlyWhenChanged
<1>1. PagingSpec => []PagingInv
    <2>1. PagingInit => PagingInv
        BY PagingStart
    <2>2. PagingInv /\ [PagingNext]_pagingVars => PagingInv'
        BY PagingStep
    <2> QED BY <2>1, <2>2, PTL DEF PagingSpec
<1>2. PagingInv /\ [PagingNext]_pagingVars =>
          [session.state = "open" /\ session' # session => FairAnswer]_pagingVars
    BY PagingStep
<1> QED BY <1>1, <1>2, PTL DEF PagingSpec, ExpiresOnlyWhenChanged
=============================================================================
