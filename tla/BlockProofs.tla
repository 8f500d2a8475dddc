---------------------------- MODULE BlockProofs -----------------------------
(***************************************************************************)
(* What a block changes.  Since says how the tables of a block in progress *)
(* differ from those it began over, in terms of what its undo row names;   *)
(* it is kept by every helper of apply_block, for every chain, window and  *)
(* block content.                                                          *)
(***************************************************************************)
EXTENDS StoreProofs

-----------------------------------------------------------------------------
(* The four things a helper does to the tables of boxes.                   *)

SameNumbers(d, e) ==
    /\ e.boxByGidx = d.boxByGidx /\ e.nextBox = d.nextBox /\ e.registerIdx = d.registerIdx

Spends(d, e, id, by) ==
    /\ SameNumbers(d, e)
    /\ e.boxes = [d.boxes EXCEPT ![id].spent = by]
    /\ \A kind \in Kinds :
          /\ Every(kind, e) = Every(kind, d)
          /\ Open(kind, e) = IF kind = "token" THEN Open(kind, d)
                             ELSE Open(kind, d) \ KeysOf(kind, d.boxes[id], id)

Makes(d, e, id, row, regs) ==
    /\ row.gidx = d.nextBox /\ e.nextBox = d.nextBox + 1
    /\ e.boxes = Put(d.boxes, id, row) /\ e.boxByGidx = Put(d.boxByGidx, row.gidx, id)
    /\ e.registerIdx = d.registerIdx \cup regs
    /\ \A k \in regs : k[3] = d.nextBox
    /\ \A kind \in Kinds :
          /\ Every(kind, e) = IF kind \in {"tree", "template"}
                              THEN Every(kind, d) \cup KeysOf(kind, row, id) ELSE Every(kind, d)
          /\ Open(kind, e) = IF kind = "token" THEN Open(kind, d)
                             ELSE Open(kind, d) \cup KeysOf(kind, row, id)

Releases(d, e, row, id) ==
    /\ SameNumbers(d, e) /\ e.boxes = d.boxes
    /\ \A kind \in Kinds :
          /\ Every(kind, e) = Every(kind, d)
          /\ Open(kind, e) = IF kind = "token" THEN Open(kind, d) \ KeysOf(kind, row, id)
                             ELSE Open(kind, d)

Holds(d, e, row, id) ==
    /\ SameNumbers(d, e) /\ e.boxes = d.boxes
    /\ \A kind \in Kinds :
          /\ Every(kind, e) = IF kind = "token" THEN Every(kind, d) \cup KeysOf(kind, row, id)
                              ELSE Every(kind, d)
          /\ Open(kind, e) = IF kind = "token" THEN Open(kind, d) \cup KeysOf(kind, row, id)
                             ELSE Open(kind, d)

(* Two boxes have no key in common.                                        *)
LEMMA KeysApart ==
    ASSUME NEW d, Numbered(d), NEW i \in DOMAIN d.boxes, NEW j \in DOMAIN d.boxes, i # j,
           NEW kind
    PROVE  KeysOf(kind, d.boxes[i], i) \cap KeysOf(kind, d.boxes[j], j) = {}
<1>1. d.boxes[i].gidx # d.boxes[j].gidx
    BY DEF Numbered
<1> QED BY <1>1, KeyNumber

LEMMA SpentRow ==
    ASSUME NEW r, IsRow(r), NEW by
    PROVE  /\ IsRow([r EXCEPT !.spent = by]) /\ SameRow(r, [r EXCEPT !.spent = by])
           /\ [r EXCEPT !.spent = by].spent = by
           /\ r.spent = Unspent => [[r EXCEPT !.spent = by] EXCEPT !.spent = Unspent] = r
<1>1. IsRow([r EXCEPT !.spent = by]) /\ SameRow(r, [r EXCEPT !.spent = by])
    BY DEF IsRow, SameRow, IsTable, RowKeys
<1>2. [r EXCEPT !.spent = by].spent = by
    BY DEF IsRow, RowKeys
<1>3. ASSUME r.spent = Unspent
      PROVE  [[r EXCEPT !.spent = by] EXCEPT !.spent = Unspent] = r
    BY <1>3 DEF IsRow, IsTable, RowKeys
<1> QED BY <1>1, <1>2, <1>3

Marked(d, e, id, by) ==
    /\ IsTable(e.boxes) /\ DOMAIN e.boxes = DOMAIN d.boxes
    /\ \A x \in DOMAIN d.boxes : SameRow(d.boxes[x], e.boxes[x]) /\ IsRow(e.boxes[x])
    /\ \A x \in DOMAIN d.boxes : x # id => e.boxes[x] = d.boxes[x]
    /\ e.boxes[id] = [d.boxes[id] EXCEPT !.spent = by]
    /\ e.boxes[id].spent = by

LEMMA SpendsRows ==
    ASSUME NEW d, NEW e, Numbered(d), NEW id \in DOMAIN d.boxes, NEW by, Spends(d, e, id, by)
    PROVE  Marked(d, e, id, by)
<1>1. /\ IsTable(e.boxes) /\ DOMAIN e.boxes = DOMAIN d.boxes
      /\ \A x \in DOMAIN d.boxes : x # id => e.boxes[x] = d.boxes[x]
      /\ e.boxes[id] = [d.boxes[id] EXCEPT !.spent = by]
    BY DEF Spends, IsTable
<1>2. ASSUME NEW x \in DOMAIN d.boxes
      PROVE  SameRow(d.boxes[x], e.boxes[x]) /\ IsRow(e.boxes[x])
    <2>1. IsRow(d.boxes[x])
        BY DEF Numbered
    <2>2. SameRow(d.boxes[x], d.boxes[x])
        BY <2>1 DEF IsRow, SameRow
    <2>3. CASE x = id
        <3>1. SameRow(d.boxes[id], [d.boxes[id] EXCEPT !.spent = by])
              /\ IsRow([d.boxes[id] EXCEPT !.spent = by])
            BY <2>1, <2>3, SpentRow, Zenon
        <3> QED BY <1>1, <2>3, <3>1, Zenon
    <2>4. CASE x # id
        BY <1>1, <2>1, <2>2, <2>4
    <2> QED BY <2>3, <2>4
<1>3. e.boxes[id].spent = by
    <2>1. IsRow(d.boxes[id])
        BY DEF Numbered
    <2>2. [d.boxes[id] EXCEPT !.spent = by].spent = by
        BY <2>1, SpentRow, Zenon
    <2> QED BY <1>1, <2>2, Zenon
<1> QED BY <1>1, <1>2, <1>3 DEF Marked

(* Rows alike and numbers alike keep the numbering.                        *)
LEMMA NumberedSame ==
    ASSUME NEW d, NEW e, Numbered(d), SameNumbers(d, e), IsTable(e.boxes),
           DOMAIN e.boxes = DOMAIN d.boxes,
           \A x \in DOMAIN d.boxes : SameRow(d.boxes[x], e.boxes[x]) /\ IsRow(e.boxes[x])
    PROVE  Numbered(e)
<1>1. \A x \in DOMAIN d.boxes : /\ e.boxes[x].gidx = d.boxes[x].gidx
                                /\ e.boxes[x].tokens = d.boxes[x].tokens
    BY DEF SameRow, RowKeys
<1> QED BY <1>1 DEF Numbered, SameNumbers

LEMMA SpendsKeeps ==
    ASSUME NEW d, NEW e, BoxOK(d, {}), NEW id \in DOMAIN d.boxes, NEW by, Spends(d, e, id, by),
           by # Unspent
    PROVE  BoxOK(e, {})
<1>0. Numbered(d)
    BY DEF BoxOK
<1>9. Marked(d, e, id, by)
    BY <1>0, SpendsRows
<1>1. Numbered(e)
    BY <1>0, <1>9, NumberedSame DEF Spends, Marked
<1>2. Bounded(e)
    <2>1. \A kind \in Kinds : /\ Open(kind, e) \subseteq Open(kind, d)
                              /\ Every(kind, e) = Every(kind, d)
        BY DEF Spends
    <2>2. DOMAIN e.boxes = DOMAIN d.boxes /\ e.nextBox = d.nextBox /\ e.registerIdx = d.registerIdx
        BY DEF Spends, SameNumbers
    <2>3. e.rentMatures \subseteq d.rentMatures
        BY <2>1 DEF Open, Kinds
    <2> QED BY <2>1, <2>2, <2>3 DEF Bounded, BoxOK
<1>3. Listed(e, {})
    <2> SUFFICES ASSUME NEW x \in DOMAIN e.boxes, e.boxes[x].spent = Unspent, NEW kind \in Kinds
                 PROVE  KeysOf(kind, e.boxes[x], x) \subseteq Open(kind, e)
        BY DEF Listed
    <2>0. /\ DOMAIN e.boxes = DOMAIN d.boxes /\ e.boxes[id].spent = by
          /\ \A y \in DOMAIN d.boxes : y # id => e.boxes[y] = d.boxes[y]
        BY <1>9 DEF Marked
    <2>1. x # id /\ x \in DOMAIN d.boxes /\ e.boxes[x] = d.boxes[x]
        BY <2>0
    <2>2. KeysOf(kind, d.boxes[x], x) \subseteq Open(kind, d)
        BY <2>1 DEF BoxOK, Listed
    <2>3. KeysOf(kind, d.boxes[x], x) \cap KeysOf(kind, d.boxes[id], id) = {}
        BY <2>1, KeysApart DEF BoxOK
    <2> QED BY <2>1, <2>2, <2>3 DEF Spends
<1> QED BY <1>1, <1>2, <1>3 DEF BoxOK

Grown(d, e, id, row) ==
    /\ DOMAIN e.boxes = DOMAIN d.boxes \cup {id} /\ e.boxes[id] = row
    /\ \A x \in DOMAIN d.boxes : e.boxes[x] = d.boxes[x]
    /\ DOMAIN e.boxByGidx = DOMAIN d.boxByGidx \cup {d.nextBox}
    /\ e.boxByGidx[d.nextBox] = id
    /\ \A g \in DOMAIN d.boxByGidx : e.boxByGidx[g] = d.boxByGidx[g]

LEMMA MakesRows ==
    ASSUME NEW d, NEW e, Numbered(d), NEW id, id \notin DOMAIN d.boxes, NEW row, NEW regs,
           Makes(d, e, id, row, regs), IsRow(row), IsABag(row.tokens)
    PROVE  Grown(d, e, id, row) /\ Numbered(e)
<1>1. /\ DOMAIN e.boxes = DOMAIN d.boxes \cup {id} /\ e.boxes[id] = row
      /\ \A x \in DOMAIN d.boxes : e.boxes[x] = d.boxes[x]
      /\ IsTable(e.boxes)
    BY DEF Makes, Put, IsTable
<1>2. /\ DOMAIN e.boxByGidx = DOMAIN d.boxByGidx \cup {d.nextBox}
      /\ e.boxByGidx[d.nextBox] = id
      /\ IsTable(e.boxByGidx)
    BY DEF Makes, Put, IsTable
<1>3. \A g \in DOMAIN d.boxByGidx : e.boxByGidx[g] = d.boxByGidx[g]
    <2>1. d.nextBox \notin DOMAIN d.boxByGidx
        BY DEF Numbered
    <2> QED BY <2>1 DEF Makes, Put
<1>4. d.nextBox \in Nat /\ e.nextBox = d.nextBox + 1 /\ row.gidx = d.nextBox
    BY DEF Numbered, Makes
<1>5. ASSUME NEW x \in DOMAIN e.boxes
      PROVE  /\ IsRow(e.boxes[x]) /\ IsABag(e.boxes[x].tokens)
             /\ e.boxes[x].gidx \in Nat /\ e.boxes[x].gidx < e.nextBox
             /\ e.boxes[x].gidx \in DOMAIN e.boxByGidx
             /\ e.boxByGidx[e.boxes[x].gidx] = x
    <2>1. CASE x = id
        BY <1>1, <1>2, <1>4, <2>1
    <2>2. CASE x # id
        <3>1. x \in DOMAIN d.boxes /\ e.boxes[x] = d.boxes[x]
            BY <1>1, <2>2
        <3> QED BY <1>2, <1>3, <1>4, <3>1 DEF Numbered
    <2> QED BY <2>1, <2>2
<1>6. \A g \in DOMAIN e.boxByGidx : g \in Nat /\ g < e.nextBox
    BY <1>2, <1>4 DEF Numbered
<1>7. Numbered(e)
    BY <1>1, <1>2, <1>4, <1>5, <1>6 DEF Numbered
<1> QED BY <1>1, <1>2, <1>3, <1>7 DEF Grown

LEMMA MakesKeeps ==
    ASSUME NEW d, NEW e, NEW pending, BoxOK(d, pending), NEW id, id \notin DOMAIN d.boxes,
           NEW row, NEW regs, Makes(d, e, id, row, regs), IsRow(row), IsABag(row.tokens)
    PROVE  BoxOK(e, pending \cup {id})
<1>0. Numbered(d) /\ Bounded(d) /\ Listed(d, pending) /\ d.nextBox \in Nat
    BY DEF BoxOK, Numbered
<1>1. /\ DOMAIN e.boxes = DOMAIN d.boxes \cup {id} /\ e.boxes[id] = row
      /\ \A x \in DOMAIN d.boxes : e.boxes[x] = d.boxes[x]
      /\ Numbered(e)
    BY <1>0, MakesRows DEF Grown
<1>2. Bounded(e)
    <2>1. ASSUME NEW kind \in Kinds, NEW k \in Open(kind, e) \cup Every(kind, e)
          PROVE  k[2] \in Nat /\ k[2] < e.nextBox
        <3>1. CASE k \in Open(kind, d) \cup Every(kind, d)
            BY <1>0, <3>1 DEF Bounded, Makes
        <3>2. CASE k \in KeysOf(kind, row, id)
            BY <1>0, <3>2, KeyNumber DEF Makes
        <3> QED BY <2>1, <3>1, <3>2 DEF Makes
    <2>2. \A k \in e.rentMatures : k[3] \in DOMAIN e.boxes
        <3>1. Open("rent", e) = Open("rent", d) \cup KeysOf("rent", row, id)
            BY DEF Makes, Kinds
        <3>2. e.rentMatures
                = d.rentMatures \cup {<<MaturityHeight(row.creation), row.gidx, id>>}
            BY <3>1 DEF Open, KeysOf
        <3> QED BY <1>0, <1>1, <3>2 DEF Bounded
    <2>3. \A k \in e.registerIdx : k[3] \in Nat /\ k[3] < e.nextBox
        BY <1>0 DEF Makes, Bounded
    <2> QED BY <2>1, <2>2, <2>3 DEF Bounded
<1>3. Listed(e, pending \cup {id})
    <2> SUFFICES ASSUME NEW x \in DOMAIN e.boxes, e.boxes[x].spent = Unspent, NEW kind \in Kinds,
                        kind # "token" \/ x \notin pending \cup {id}
                 PROVE  KeysOf(kind, e.boxes[x], x) \subseteq Open(kind, e)
        BY DEF Listed
    <2>1. CASE x = id
        BY <1>1, <2>1 DEF Makes
    <2>2. CASE x # id
        <3>1. x \in DOMAIN d.boxes /\ e.boxes[x] = d.boxes[x]
            BY <1>1, <2>2
        <3>2. KeysOf(kind, d.boxes[x], x) \subseteq Open(kind, d)
            BY <1>0, <3>1 DEF Listed
        <3> QED BY <3>1, <3>2 DEF Makes
    <2> QED BY <2>1, <2>2
<1> QED BY <1>1, <1>2, <1>3 DEF BoxOK

LEMMA ReleasesKeeps ==
    ASSUME NEW d, NEW e, NEW pending, BoxOK(d, pending), NEW id \in DOMAIN d.boxes,
           d.boxes[id].spent # Unspent, Releases(d, e, d.boxes[id], id)
    PROVE  BoxOK(e, pending)
<1>0. Numbered(d) /\ Bounded(d) /\ Listed(d, pending)
    BY DEF BoxOK
<1>1. Numbered(e)
    BY <1>0 DEF Numbered, Releases, SameNumbers
<1>2. Bounded(e)
    <2>1. \A kind \in Kinds : /\ Open(kind, e) \subseteq Open(kind, d)
                              /\ Every(kind, e) = Every(kind, d)
        BY DEF Releases
    <2>2. e.boxes = d.boxes /\ e.nextBox = d.nextBox /\ e.registerIdx = d.registerIdx
        BY DEF Releases, SameNumbers
    <2>3. e.rentMatures \subseteq d.rentMatures
        BY <2>1 DEF Open, Kinds
    <2> QED BY <1>0, <2>1, <2>2, <2>3 DEF Bounded
<1>3. Listed(e, pending)
    <2> SUFFICES ASSUME NEW x \in DOMAIN e.boxes, e.boxes[x].spent = Unspent, NEW kind \in Kinds,
                        kind # "token" \/ x \notin pending
                 PROVE  KeysOf(kind, e.boxes[x], x) \subseteq Open(kind, e)
        BY DEF Listed
    <2>1. x \in DOMAIN d.boxes /\ x # id /\ e.boxes = d.boxes
        BY DEF Releases
    <2>2. KeysOf(kind, d.boxes[x], x) \subseteq Open(kind, d)
        BY <1>0, <2>1 DEF Listed
    <2>3. KeysOf(kind, d.boxes[x], x) \cap KeysOf(kind, d.boxes[id], id) = {}
        BY <1>0, <2>1, KeysApart
    <2> QED BY <2>1, <2>2, <2>3 DEF Releases
<1> QED BY <1>1, <1>2, <1>3 DEF BoxOK

LEMMA HoldsKeeps ==
    ASSUME NEW d, NEW e, NEW pending, BoxOK(d, pending), NEW id \in DOMAIN d.boxes,
           Holds(d, e, d.boxes[id], id)
    PROVE  BoxOK(e, pending \ {id})
<1>0. Numbered(d) /\ Bounded(d) /\ Listed(d, pending)
    BY DEF BoxOK
<1>1. Numbered(e)
    BY <1>0 DEF Numbered, Holds, SameNumbers
<1>2. Bounded(e)
    <2>1. ASSUME NEW kind \in Kinds, NEW k \in Open(kind, e) \cup Every(kind, e)
          PROVE  k[2] \in Nat /\ k[2] < e.nextBox
        <3>0. e.nextBox = d.nextBox
            BY DEF Holds, SameNumbers
        <3>1. CASE k \in Open(kind, d) \cup Every(kind, d)
            BY <1>0, <3>0, <3>1 DEF Bounded
        <3>2. CASE k \in KeysOf(kind, d.boxes[id], id)
            <4>1. k[2] = d.boxes[id].gidx
                BY <3>2, KeyNumber
            <4> QED BY <1>0, <3>0, <4>1 DEF Numbered
        <3> QED BY <2>1, <3>1, <3>2 DEF Holds
    <2>2. e.boxes = d.boxes /\ e.nextBox = d.nextBox /\ e.registerIdx = d.registerIdx
        BY DEF Holds, SameNumbers
    <2>3. e.rentMatures = d.rentMatures
        <3>1. Open("rent", e) = Open("rent", d)
            BY DEF Holds, Kinds
        <3> QED BY <3>1 DEF Open
    <2> QED BY <1>0, <2>1, <2>2, <2>3 DEF Bounded
<1>3. Listed(e, pending \ {id})
    <2> SUFFICES ASSUME NEW x \in DOMAIN e.boxes, e.boxes[x].spent = Unspent, NEW kind \in Kinds,
                        kind # "token" \/ x \notin pending \ {id}
                 PROVE  KeysOf(kind, e.boxes[x], x) \subseteq Open(kind, e)
        BY DEF Listed
    <2>1. e.boxes = d.boxes /\ Open(kind, d) \subseteq Open(kind, e)
        BY DEF Holds
    <2>2. CASE kind = "token" /\ x = id
        BY <2>1, <2>2 DEF Holds
    <2>3. CASE ~ (kind = "token" /\ x = id)
        <3>1. KeysOf(kind, d.boxes[x], x) \subseteq Open(kind, d)
            BY <1>0, <2>1, <2>3 DEF Listed
        <3> QED BY <2>1, <3>1
    <2> QED BY <2>2, <2>3
<1> QED BY <1>1, <1>2, <1>3 DEF BoxOK

-----------------------------------------------------------------------------
(* Each of the four keeps what is said of the boxes since the block began. *)

(* A box of before the block that is unspent now is as it was, and listed. *)
LEMMA OldUnspent ==
    ASSUME NEW d, NEW e, NEW u, BoxBase(d, e, u), NEW id \in DOMAIN d.boxes,
           e.boxes[id].spent = Unspent
    PROVE  /\ e.boxes[id] = d.boxes[id] /\ id \notin u.spentBoxes
           /\ \A kind \in Kinds : KeysOf(kind, d.boxes[id], id) \subseteq Open(kind, d)
<1>1. e.boxes[id] = d.boxes[id] /\ id \notin u.spentBoxes
    BY DEF BoxBase, BoxSince, BoxesSince
<1> QED BY <1>1 DEF BoxBase, BoxOK, Listed

LEMMA SpendsSince ==
    ASSUME NEW d, NEW c, NEW e, NEW u, NEW v, BoxBase(d, c, u), NEW id \in DOMAIN c.boxes,
           c.boxes[id].spent = Unspent, NEW by, by # Unspent, Spends(c, e, id, by),
           v.createdBoxes = u.createdBoxes, v.spentBoxes = u.spentBoxes \cup {id},
           v.registerKeys = u.registerKeys
    PROVE  BoxSince(d, e, v)
<1> DEFINE made == u.createdBoxes
           old == u.spentBoxes \cap DOMAIN d.boxes
           new == v.spentBoxes \cap DOMAIN d.boxes
           keys(kind) == KeysOf(kind, c.boxes[id], id)
<1>1. Numbered(c) /\ BoxSince(d, c, u)
    BY DEF BoxBase
<1>2. Marked(c, e, id, by)
    BY <1>1, SpendsRows
<1>3. /\ DOMAIN e.boxes = DOMAIN c.boxes
      /\ \A x \in DOMAIN c.boxes : SameRow(c.boxes[x], e.boxes[x])
      /\ \A x \in DOMAIN c.boxes : e.boxes[x].gidx = c.boxes[x].gidx
      /\ \A x \in DOMAIN c.boxes : x # id => e.boxes[x] = c.boxes[x]
      /\ e.boxes[id] = [c.boxes[id] EXCEPT !.spent = by]
      /\ e.boxes[id].spent = by
    BY <1>2 DEF Marked, SameRow, RowKeys
<1>4. SameNumbers(c, e)
    BY DEF Spends
<1>5. /\ made \cap DOMAIN d.boxes = {} /\ DOMAIN c.boxes = DOMAIN d.boxes \cup made
      /\ old \subseteq DOMAIN c.boxes /\ made \subseteq DOMAIN c.boxes
      /\ new \subseteq DOMAIN c.boxes
    BY <1>1 DEF BoxSince, BoxesSince
<1>6. id \in DOMAIN d.boxes => /\ c.boxes[id] = d.boxes[id] /\ id \notin u.spentBoxes
                               /\ \A kind \in Kinds : keys(kind) \subseteq Open(kind, d)
    BY OldUnspent
<1>7. BoxesSince(d, e, made, v.spentBoxes)
    <2>1. ASSUME NEW x \in DOMAIN d.boxes
          PROVE  IF x \in v.spentBoxes
                 THEN /\ d.boxes[x].spent = Unspent
                      /\ d.boxes[x] = [e.boxes[x] EXCEPT !.spent = Unspent]
                 ELSE e.boxes[x] = d.boxes[x]
        <3>1. CASE x = id
            <4>1. IsRow(c.boxes[id])
                BY <1>1 DEF Numbered
            <4>2. [[c.boxes[id] EXCEPT !.spent = by] EXCEPT !.spent = Unspent] = c.boxes[id]
                BY <4>1, SpentRow, Zenon
            <4>3. e.boxes[x] = [c.boxes[id] EXCEPT !.spent = by] /\ d.boxes[x] = c.boxes[id]
                BY <1>3, <1>6, <3>1
            <4>4. d.boxes[x] = [e.boxes[x] EXCEPT !.spent = Unspent]
                BY <4>2, <4>3
            <4> QED BY <3>1, <4>3, <4>4
        <3>2. CASE x # id
            <4>1. x \in DOMAIN c.boxes /\ e.boxes[x] = c.boxes[x]
                BY <1>3, <1>5, <3>2
            <4> QED BY <1>1, <3>2, <4>1 DEF BoxSince, BoxesSince
        <3> QED BY <3>1, <3>2
    <2>2. \A x \in v.spentBoxes : x \in DOMAIN e.boxes /\ e.boxes[x].spent # Unspent
        BY <1>1, <1>3 DEF BoxSince, BoxesSince
    <2>3. d.nextBox <= e.nextBox /\ \A x \in made : d.nextBox <= e.boxes[x].gidx
        BY <1>1, <1>3, <1>4, <1>5 DEF BoxSince, BoxesSince, SameNumbers
    <2> HIDE DEF made
    <2> QED BY <1>3, <1>5, <2>1, <2>2, <2>3 DEF BoxesSince
<1>8. NumbersSince(d, e, made)
    BY <1>1, <1>3, <1>4, <1>5 DEF BoxSince, NumbersSince, SameNumbers
<1>9. RegistersSince(d, e, v.registerKeys)
    BY <1>1, <1>4 DEF BoxSince, RegistersSince, SameNumbers
<1>10. \A kind : /\ Held(kind, e.boxes, made) = Held(kind, c.boxes, made)
                 /\ Held(kind, e.boxes, new) = Held(kind, c.boxes, new)
    BY <1>3, <1>5, HeldSame
<1>11. EverySince(d, e, made)
    BY <1>1, <1>10 DEF BoxSince, EverySince, Spends
<1>12. OpenSince(d, e, made, v.spentBoxes)
    <2> SUFFICES ASSUME NEW kind \in Kinds
                 PROVE  Shuffled(Open(kind, d), Open(kind, e), Held(kind, e.boxes, made),
                                 Held(kind, e.boxes, new))
        BY DEF OpenSince
    <2>1. Shuffled(Open(kind, d), Open(kind, c), Held(kind, c.boxes, made),
                   Held(kind, c.boxes, old))
        BY <1>1 DEF BoxSince, OpenSince
    <2>2. Open(kind, c) \ keys(kind) \subseteq Open(kind, e) /\ Open(kind, e) \subseteq Open(kind, c)
        BY DEF Spends
    <2>3. CASE id \in DOMAIN d.boxes
        <3>1. new = old \cup {id}
            BY <2>3
        <3>2. Held(kind, c.boxes, new) = Held(kind, c.boxes, old) \cup keys(kind)
            BY <3>1, HeldMore
        <3> HIDE DEF made, old, new, keys
        <3> QED BY <1>6, <1>10, <2>1, <2>2, <2>3, <3>2 DEF Shuffled
    <2>4. CASE id \notin DOMAIN d.boxes
        <3>1. new = old /\ id \in made
            BY <1>5, <2>4
        <3>2. keys(kind) \cap Open(kind, d) = {}
            BY <3>1, NewApart
        <3> HIDE DEF made, old, new, keys
        <3> QED BY <1>10, <2>1, <2>2, <3>1, <3>2 DEF Shuffled
    <2> QED BY <2>3, <2>4
<1> QED BY <1>7, <1>8, <1>9, <1>11, <1>12 DEF BoxSince

LEMMA MakesSince ==
    ASSUME NEW d, NEW c, NEW e, NEW u, NEW v, BoxBase(d, c, u), NEW id, id \notin DOMAIN c.boxes,
           NEW row, NEW regs, IsRow(row), IsABag(row.tokens), Makes(c, e, id, row, regs),
           v.createdBoxes = u.createdBoxes \cup {id}, v.spentBoxes = u.spentBoxes,
           v.registerKeys = u.registerKeys \cup regs
    PROVE  BoxSince(d, e, v)
<1> DEFINE made == u.createdBoxes
           now == v.createdBoxes
           old == u.spentBoxes \cap DOMAIN d.boxes
           keys(kind) == KeysOf(kind, row, id)
<1>1. /\ Numbered(c) /\ BoxSince(d, c, u)
      /\ c.nextBox \in Nat /\ d.nextBox \in Nat /\ d.nextBox <= c.nextBox
    BY DEF BoxBase, BoxOK, Numbered, BoxSince, BoxesSince
<1>2. Grown(c, e, id, row)
    BY <1>1, MakesRows
<1>3. /\ DOMAIN e.boxes = DOMAIN c.boxes \cup {id} /\ e.boxes[id] = row
      /\ \A x \in DOMAIN c.boxes : e.boxes[x] = c.boxes[x]
      /\ DOMAIN e.boxByGidx = DOMAIN c.boxByGidx \cup {c.nextBox}
      /\ \A g \in DOMAIN c.boxByGidx : e.boxByGidx[g] = c.boxByGidx[g]
    BY <1>2 DEF Grown
<1>4. row.gidx = c.nextBox /\ e.nextBox = c.nextBox + 1
    BY DEF Makes
<1>5. /\ made \cap DOMAIN d.boxes = {} /\ DOMAIN c.boxes = DOMAIN d.boxes \cup made
      /\ old \subseteq DOMAIN c.boxes /\ u.spentBoxes \subseteq DOMAIN c.boxes
      /\ now = made \cup {id} /\ id \notin DOMAIN d.boxes
    BY <1>1 DEF BoxSince, BoxesSince
<1>7. BoxesSince(d, e, now, v.spentBoxes)
    <2>1. \A x \in DOMAIN d.boxes : e.boxes[x] = c.boxes[x]
        BY <1>3, <1>5
    <2>2. \A x \in DOMAIN d.boxes :
            IF x \in v.spentBoxes
            THEN /\ d.boxes[x].spent = Unspent
                 /\ d.boxes[x] = [e.boxes[x] EXCEPT !.spent = Unspent]
            ELSE e.boxes[x] = d.boxes[x]
        BY <1>1, <2>1 DEF BoxSince, BoxesSince
    <2>3. \A x \in now : d.nextBox <= e.boxes[x].gidx
        BY <1>1, <1>3, <1>4, <1>5 DEF BoxSince, BoxesSince
    <2>4. \A x \in v.spentBoxes : x \in DOMAIN e.boxes /\ e.boxes[x].spent # Unspent
        BY <1>1, <1>3 DEF BoxSince, BoxesSince
    <2> HIDE DEF made, now
    <2> QED BY <1>1, <1>3, <1>4, <1>5, <2>2, <2>3, <2>4 DEF BoxesSince
<1>8. NumbersSince(d, e, now)
    <2>1. ASSUME NEW g \in DOMAIN e.boxByGidx, g \notin DOMAIN d.boxByGidx
          PROVE  \E x \in now : e.boxes[x].gidx = g
        <3>1. CASE g = c.nextBox
            BY <1>3, <1>4, <1>5, <3>1
        <3>2. CASE g # c.nextBox
            <4>1. PICK x \in made : c.boxes[x].gidx = g
                BY <1>1, <1>3, <2>1, <3>2 DEF BoxSince, NumbersSince
            <4> QED BY <1>3, <1>5, <4>1
        <3> QED BY <3>1, <3>2
    <2> QED BY <1>1, <1>3, <2>1 DEF BoxSince, NumbersSince
<1>9. RegistersSince(d, e, v.registerKeys)
    <2>1. Shuffled(d.registerIdx, e.registerIdx, v.registerKeys, {})
        BY <1>1 DEF BoxSince, RegistersSince, Shuffled, Makes
    <2> QED BY <1>1, <1>4, <2>1 DEF BoxSince, RegistersSince, Makes
<1>10. \A kind : /\ Held(kind, e.boxes, now) = Held(kind, c.boxes, made) \cup keys(kind)
                 /\ Held(kind, e.boxes, old) = Held(kind, c.boxes, old)
    <2>1. \A x \in DOMAIN c.boxes : SameRow(e.boxes[x], c.boxes[x])
        BY <1>1, <1>3 DEF Numbered, IsRow, SameRow
    <2>2. \A kind : /\ Held(kind, e.boxes, made) = Held(kind, c.boxes, made)
                    /\ Held(kind, e.boxes, old) = Held(kind, c.boxes, old)
        BY <1>5, <2>1, HeldSame
    <2>3. \A kind : Held(kind, e.boxes, now)
                        = Held(kind, e.boxes, made) \cup KeysOf(kind, e.boxes[id], id)
        <3> TAKE kind
        <3> QED BY <1>5 DEF Held
    <2> QED BY <1>3, <2>2, <2>3
<1>11. EverySince(d, e, now)
    <2> SUFFICES ASSUME NEW kind \in Kinds
                 PROVE  Shuffled(Every(kind, d), Every(kind, e), Held(kind, e.boxes, now), {})
        BY DEF EverySince
    <2>1. Shuffled(Every(kind, d), Every(kind, c), Held(kind, c.boxes, made), {})
        BY <1>1 DEF BoxSince, EverySince
    <2>2. /\ Every(kind, c) \subseteq Every(kind, e)
          /\ Every(kind, e) \subseteq Every(kind, c) \cup keys(kind)
        BY DEF Makes
    <2> HIDE DEF made, now, keys
    <2> QED BY <1>10, <2>1, <2>2 DEF Shuffled
<1>12. OpenSince(d, e, now, v.spentBoxes)
    <2> SUFFICES ASSUME NEW kind \in Kinds
                 PROVE  Shuffled(Open(kind, d), Open(kind, e), Held(kind, e.boxes, now),
                                 Held(kind, e.boxes, old))
        BY DEF OpenSince
    <2>1. Shuffled(Open(kind, d), Open(kind, c), Held(kind, c.boxes, made),
                   Held(kind, c.boxes, old))
        BY <1>1 DEF BoxSince, OpenSince
    <2>2. /\ Open(kind, c) \subseteq Open(kind, e)
          /\ Open(kind, e) \subseteq Open(kind, c) \cup keys(kind)
        BY DEF Makes
    <2> HIDE DEF made, now, old, keys
    <2> QED BY <1>10, <2>1, <2>2 DEF Shuffled
<1> QED BY <1>7, <1>8, <1>9, <1>11, <1>12 DEF BoxSince

(* What is said of the boxes but for the token keys depends on neither.    *)
LEMMA TokensSince ==
    ASSUME NEW d, NEW c, NEW e, NEW u, BoxBase(d, c, u), SameNumbers(c, e), e.boxes = c.boxes,
           \A kind \in Kinds : kind # "token" => /\ Every(kind, e) = Every(kind, c)
                                                 /\ Open(kind, e) = Open(kind, c),
           Shuffled(Every("token", d), Every("token", e),
                    Held("token", c.boxes, u.createdBoxes), {}),
           Shuffled(Open("token", d), Open("token", e),
                    Held("token", c.boxes, u.createdBoxes),
                    Held("token", c.boxes, u.spentBoxes \cap DOMAIN d.boxes))
    PROVE  BoxSince(d, e, u)
<1>1. BoxesSince(d, e, u.createdBoxes, u.spentBoxes)
    BY DEF BoxBase, BoxSince, BoxesSince, SameNumbers
<1>2. NumbersSince(d, e, u.createdBoxes) /\ RegistersSince(d, e, u.registerKeys)
    BY DEF BoxBase, BoxSince, NumbersSince, RegistersSince, SameNumbers
<1>3. OpenSince(d, e, u.createdBoxes, u.spentBoxes)
    BY DEF BoxBase, BoxSince, OpenSince
<1>4. EverySince(d, e, u.createdBoxes)
    BY DEF BoxBase, BoxSince, EverySince
<1> QED BY <1>1, <1>2, <1>3, <1>4 DEF BoxSince

LEMMA ReleasesSince ==
    ASSUME NEW d, NEW c, NEW e, NEW u, BoxBase(d, c, u), NEW id \in u.spentBoxes,
           Releases(c, e, c.boxes[id], id)
    PROVE  BoxSince(d, e, u)
<1> DEFINE come == Held("token", c.boxes, u.createdBoxes)
           gone == Held("token", c.boxes, u.spentBoxes \cap DOMAIN d.boxes)
           keys == KeysOf("token", c.boxes[id], id)
<1>1. /\ Shuffled(Open("token", d), Open("token", c), come, gone)
      /\ Shuffled(Every("token", d), Every("token", c), come, {})
    BY DEF BoxBase, BoxSince, OpenSince, EverySince, Kinds
<1>2. Open("token", e) = Open("token", c) \ keys /\ Every("token", e) = Every("token", c)
    BY DEF Releases, Kinds
<1>3. keys \subseteq gone \/ keys \cap Open("token", d) = {}
    <2>1. CASE id \in DOMAIN d.boxes
        BY <2>1, HeldIn
    <2>2. CASE id \notin DOMAIN d.boxes
        <3>1. id \in u.createdBoxes
            BY <2>2 DEF BoxBase, BoxSince, BoxesSince
        <3> QED BY <3>1, NewApart DEF Kinds
    <2> QED BY <2>1, <2>2
<1>4. /\ Shuffled(Open("token", d), Open("token", e), come, gone)
      /\ Shuffled(Every("token", d), Every("token", e), come, {})
    <2> HIDE DEF come, gone, keys
    <2> QED BY <1>1, <1>2, <1>3 DEF Shuffled
<1> QED BY <1>4, TokensSince DEF Releases

LEMMA HoldsSince ==
    ASSUME NEW d, NEW c, NEW e, NEW u, BoxBase(d, c, u), NEW id \in u.createdBoxes,
           Holds(c, e, c.boxes[id], id)
    PROVE  BoxSince(d, e, u)
<1> DEFINE come == Held("token", c.boxes, u.createdBoxes)
           gone == Held("token", c.boxes, u.spentBoxes \cap DOMAIN d.boxes)
           keys == KeysOf("token", c.boxes[id], id)
<1>1. /\ Shuffled(Open("token", d), Open("token", c), come, gone)
      /\ Shuffled(Every("token", d), Every("token", c), come, {})
    BY DEF BoxBase, BoxSince, OpenSince, EverySince, Kinds
<1>2. /\ Open("token", e) = Open("token", c) \cup keys
      /\ Every("token", e) = Every("token", c) \cup keys
    BY DEF Holds, Kinds
<1>3. keys \subseteq come
    BY HeldIn
<1>4. /\ Shuffled(Open("token", d), Open("token", e), come, gone)
      /\ Shuffled(Every("token", d), Every("token", e), come, {})
    <2> HIDE DEF come, gone, keys
    <2> QED BY <1>1, <1>2, <1>3 DEF Shuffled
<1> QED BY <1>4, TokensSince DEF Holds

-----------------------------------------------------------------------------
Kept(d, e) ==
    /\ e.headers = d.headers /\ e.headerById = d.headerById /\ e.undo = d.undo
    /\ e.genesisSeeded = d.genesisSeeded /\ e.genesisToken = d.genesisToken
    /\ e.emissionTree = d.emissionTree
    /\ e.treeBalance = d.treeBalance /\ e.rich = d.rich /\ e.templates = d.templates
    /\ e.tokens = d.tokens /\ e.tokensByHolders = d.tokensByHolders
    /\ e.tokenHolders = d.tokenHolders /\ e.tokenHolderAmt = d.tokenHolderAmt

(* A block in progress that began over d; pending as in Listed.            *)
Since(d, c, pending) ==
    /\ Kept(d, c.d) /\ BoxOK(c.d, pending) /\ BoxSince(d, c.d, c.undo)
    /\ TxOK(c.d) /\ TxSince(d, c.d, c.undo.txIds, c.undo.treeTxs)
    /\ TreesSince(d, c.d, c.undo.newTrees)
    /\ MintOK(c.d) /\ MintSince(d, c.d, c.tok)
    /\ IsAmounts(c.hold)

SameTxs(d, e) ==
    /\ e.txs = d.txs /\ e.txByGidx = d.txByGidx /\ e.treeTxs = d.treeTxs /\ e.nextTx = d.nextTx

SameNotes(u, v) ==
    v.txIds = u.txIds /\ v.treeTxs = u.treeTxs

(* A helper that only touches the tables of boxes and the caches.          *)
LEMMA SinceBoxes ==
    ASSUME NEW d, NEW c, NEW e, NEW p, NEW q, Ready(d), Since(d, c, p),
           Kept(c.d, e.d), SameTxs(c.d, e.d), SameNotes(c.undo, e.undo),
           c.d.nextBox \in Nat, e.d.nextBox \in Nat, c.d.nextBox <= e.d.nextBox,
           e.d.tokensByGidx = c.d.tokensByGidx, e.tok = c.tok, IsAmounts(e.hold),
           TreesSince(d, e.d, e.undo.newTrees),
           BoxOK(e.d, q), BoxSince(d, e.d, e.undo)
    PROVE  Since(d, e, q)
<1>1. Kept(d, e.d)
    BY DEF Since, Kept
<1>2. TxOK(e.d) /\ TxSince(d, e.d, e.undo.txIds, e.undo.treeTxs)
    BY DEF Since, SameTxs, SameNotes, TxOK, TxSince
<1>3. MintOK(e.d) /\ MintSince(d, e.d, e.tok)
    BY DEF Since, MintOK, MintSince
<1> QED BY <1>1, <1>2, <1>3 DEF Since

LEMMA SinceBase ==
    ASSUME NEW d, NEW c, NEW p, Ready(d), Since(d, c, p)
    PROVE  BoxBase(d, c.d, c.undo)
BY DEF Ready, Since, BoxOK, BoxBase

-----------------------------------------------------------------------------
BoxKeys == {"boxes", "boxByGidx", "nextBox", "treeBoxes", "treeUnspent", "rentMatures",
            "templateBoxes", "templateUnspent", "tokenBoxes", "tokenUnspent", "registerIdx",
            "ergoTrees"}

LEMMA BoxKeysOnly ==
    ASSUME NEW d, NEW e, DOMAIN d = TableKeys, NEW S \in SUBSET BoxKeys, Differ(d, e, S)
    PROVE  /\ Kept(d, e) /\ SameTxs(d, e) /\ e.tokensByGidx = d.tokensByGidx
<1>1. \A x \in TableKeys \ BoxKeys : e[x] = d[x]
    BY DEF Differ
<1>2. /\ e.headers = d.headers /\ e.headerById = d.headerById /\ e.undo = d.undo
      /\ e.genesisSeeded = d.genesisSeeded /\ e.genesisToken = d.genesisToken
      /\ e.emissionTree = d.emissionTree
    BY <1>1 DEF TableKeys, BoxKeys
<1>3. /\ e.treeBalance = d.treeBalance /\ e.rich = d.rich /\ e.templates = d.templates
      /\ e.tokens = d.tokens /\ e.tokensByHolders = d.tokensByHolders
      /\ e.tokenHolders = d.tokenHolders /\ e.tokenHolderAmt = d.tokenHolderAmt
    BY <1>1 DEF TableKeys, BoxKeys
<1>4. /\ e.txs = d.txs /\ e.txByGidx = d.txByGidx /\ e.treeTxs = d.treeTxs
      /\ e.nextTx = d.nextTx /\ e.tokensByGidx = d.tokensByGidx
    BY <1>1 DEF TableKeys, BoxKeys
<1> QED BY <1>2, <1>3, <1>4 DEF Kept, SameTxs

Shaped(c) == DOMAIN c = CtxKeys /\ DOMAIN c.d = TableKeys /\ DOMAIN c.undo = UndoKeys

LEMMA GoodShape ==
    ASSUME NEW c, Good(c)
    PROVE  Shaped(c)
BY DEF Good, Shaped

LEMMA CorruptSays ==
    ASSUME NEW c, Shaped(c)
    PROVE  Corrupt(c).corrupt
BY DEF Corrupt, Shaped, CtxKeys

LEMMA ExtrasOnSpendDiffers ==
    ASSUME NEW c, Shaped(c), NEW row, ~ ExtrasOnSpend(c, row).corrupt
    PROVE  /\ Differ(c, ExtrasOnSpend(c, row), {"d", "tmpl"})
           /\ Differ(c.d, ExtrasOnSpend(c, row).d, {"templateUnspent"})
           /\ ExtrasOnSpend(c, row).d.templateUnspent
                = c.d.templateUnspent \ {<<Template[row.tree], row.gidx>>}
<1> DEFINE t == TemplateRow(c, row.tree)
           rows == Put(c.tmpl, Template[row.tree], [t EXCEPT !.unspentCount = @ - 1])
           e == [c EXCEPT
                  !.d.templateUnspent = @ \ {<<Template[row.tree], row.gidx>>},
                  !.tmpl = rows]
<1>1. ExtrasOnSpend(c, row) = e
    <2>1. ExtrasOnSpend(c, row) # Corrupt(c)
        BY CorruptSays, Zenon
    <2> QED BY <2>1, Zenon DEF ExtrasOnSpend
<1> HIDE DEF rows
<1>2. Differ(c, e, {"d", "tmpl"})
    BY DEF Differ
<1>3. /\ Differ(c.d, e.d, {"templateUnspent"})
      /\ e.d.templateUnspent = c.d.templateUnspent \ {<<Template[row.tree], row.gidx>>}
    BY DEF Differ, Shaped, CtxKeys, TableKeys
<1> QED BY <1>1, <1>2, <1>3

(* What a spend that is not refused writes.                                *)
LEMMA SpendBoxDiffers ==
    ASSUME NEW c, Shaped(c), NEW id \in DOMAIN c.d.boxes, NEW tx,
           ~ SpendBox(c, id, tx).corrupt
    PROVE  LET e == SpendBox(c, id, tx)
           IN  /\ Differ(c, e, {"d", "bal", "tmpl", "undo"})
               /\ Differ(c.d, e.d, {"boxes", "treeUnspent", "rentMatures", "templateUnspent"})
               /\ Differ(c.undo, e.undo, {"spentBoxes"})
               /\ Spends(c.d, e.d, id, <<tx, c.h>>)
               /\ e.undo.spentBoxes = c.undo.spentBoxes \cup {id}
<1> DEFINE row == c.d.boxes[id]
           bal == LoadBalance(c, row.tree)
           mine == Put(c.bal, row.tree, DebitBalance(bal, row, c.h))
           s == [c EXCEPT
            !.d.boxes[id].spent = <<tx, c.h>>,
            !.d.treeUnspent = @ \ {<<row.tree, row.gidx>>},
            !.d.rentMatures = @ \ {<<MaturityHeight(row.creation), row.gidx, id>>},
            !.bal = mine,
            !.undo.spentBoxes = @ \cup {id}]
           e == ExtrasOnSpend(s, row)
<1> HIDE DEF mine, bal
<1>1. SpendBox(c, id, tx) = e
    <2>1. SpendBox(c, id, tx) # Corrupt(c)
        BY CorruptSays, Zenon
    <2> QED BY <2>1, Zenon DEF SpendBox, mine, bal
<1>2. Differ(c, s, {"d", "bal", "undo"})
    BY DEF Differ
<1>3. /\ Differ(c.d, s.d, {"boxes", "treeUnspent", "rentMatures"})
      /\ s.d.boxes = [c.d.boxes EXCEPT ![id].spent = <<tx, c.h>>]
      /\ s.d.treeUnspent = c.d.treeUnspent \ {<<row.tree, row.gidx>>}
      /\ s.d.rentMatures = c.d.rentMatures \ {<<MaturityHeight(row.creation), row.gidx, id>>}
    BY DEF Differ, Shaped, CtxKeys, TableKeys
<1>4. Differ(c.undo, s.undo, {"spentBoxes"}) /\ s.undo.spentBoxes = c.undo.spentBoxes \cup {id}
    BY DEF Differ, Shaped, CtxKeys, UndoKeys
<1>5. Shaped(s)
    BY <1>2, <1>3, <1>4 DEF Shaped, Differ
<1> HIDE DEF s
<1>6. /\ Differ(s, e, {"d", "tmpl"}) /\ Differ(s.d, e.d, {"templateUnspent"})
      /\ e.d.templateUnspent = s.d.templateUnspent \ {<<Template[row.tree], row.gidx>>}
    BY <1>1, <1>5, ExtrasOnSpendDiffers
<1> HIDE DEF e
<1>7. Differ(c, e, {"d", "bal", "tmpl", "undo"})
    BY <1>2, <1>6 DEF Differ
<1>8. Differ(c.d, e.d, {"boxes", "treeUnspent", "rentMatures", "templateUnspent"})
    BY <1>3, <1>6 DEF Differ
<1>9. e.undo = s.undo /\ c.h = s.h
    BY <1>2, <1>6 DEF Differ, Shaped, CtxKeys
<1>10. Spends(c.d, e.d, id, <<tx, c.h>>)
    <2>1. /\ e.d.boxes = s.d.boxes /\ e.d.treeUnspent = s.d.treeUnspent
          /\ e.d.rentMatures = s.d.rentMatures
          /\ s.d.templateUnspent = c.d.templateUnspent
        BY <1>3, <1>6 DEF Differ, Shaped, TableKeys
    <2>2. SameNumbers(c.d, e.d)
        BY <1>8 DEF Differ, Shaped, TableKeys, SameNumbers
    <2>3. /\ e.d.tokenUnspent = c.d.tokenUnspent /\ e.d.treeBoxes = c.d.treeBoxes
          /\ e.d.templateBoxes = c.d.templateBoxes /\ e.d.tokenBoxes = c.d.tokenBoxes
        BY <1>8 DEF Differ, Shaped, TableKeys
    <2>4. \A kind \in Kinds : Every(kind, e.d) = Every(kind, c.d)
        BY <2>3, Zenon DEF Every
    <2>5. ASSUME NEW kind \in Kinds
          PROVE  Open(kind, e.d) = IF kind = "token" THEN Open(kind, c.d)
                                   ELSE Open(kind, c.d) \ KeysOf(kind, row, id)
        BY <1>3, <1>6, <2>1, <2>3 DEF Open, KeysOf, Kinds
    <2> QED BY <1>3, <2>1, <2>2, <2>4, <2>5 DEF Spends
<1> QED BY <1>1, <1>4, <1>7, <1>8, <1>9, <1>10

LEMMA SpendBoxSince ==
    ASSUME NEW d, NEW c, Ready(d), Shaped(c), Since(d, c, {}), NEW id \in DOMAIN c.d.boxes,
           c.d.boxes[id].spent = Unspent, NEW tx, ~ SpendBox(c, id, tx).corrupt
    PROVE  LET e == SpendBox(c, id, tx)
           IN  /\ Since(d, e, {}) /\ Shaped(e)
               /\ e.undo.spentBoxes = c.undo.spentBoxes \cup {id}
<1> DEFINE e == SpendBox(c, id, tx)
           S == {"boxes", "treeUnspent", "rentMatures", "templateUnspent"}
<1>1. /\ Differ(c, e, {"d", "bal", "tmpl", "undo"})
      /\ Differ(c.d, e.d, S) /\ Differ(c.undo, e.undo, {"spentBoxes"})
      /\ Spends(c.d, e.d, id, <<tx, c.h>>)
      /\ e.undo.spentBoxes = c.undo.spentBoxes \cup {id}
    BY SpendBoxDiffers
<1> HIDE DEF e
<1>2. S \in SUBSET BoxKeys
    BY DEF BoxKeys
<1>3. Kept(c.d, e.d) /\ SameTxs(c.d, e.d) /\ e.d.tokensByGidx = c.d.tokensByGidx
    BY <1>1, <1>2, BoxKeysOnly DEF Shaped
<1>4. /\ SameNotes(c.undo, e.undo) /\ e.undo.newTrees = c.undo.newTrees
      /\ e.undo.createdBoxes = c.undo.createdBoxes /\ e.undo.registerKeys = c.undo.registerKeys
    BY <1>1 DEF Differ, Shaped, UndoKeys, SameNotes
<1>5. e.tok = c.tok /\ e.hold = c.hold /\ e.d.ergoTrees = c.d.ergoTrees
    BY <1>1 DEF Differ, Shaped, CtxKeys, TableKeys
<1>6. <<tx, c.h>> # Unspent
    BY DEF Unspent
<1>7. BoxOK(e.d, {})
    BY <1>1, <1>6, SpendsKeeps DEF Since
<1>8. BoxSince(d, e.d, e.undo)
    BY <1>1, <1>4, <1>6, SinceBase, SpendsSince
<1>9. TreesSince(d, e.d, e.undo.newTrees)
    BY <1>4, <1>5 DEF Since, TreesSince
<1>10. c.d.nextBox \in Nat /\ e.d.nextBox = c.d.nextBox
    BY <1>1 DEF Since, BoxOK, Numbered, Spends, SameNumbers
<1>11. Since(d, e, {})
    BY <1>3, <1>4, <1>5, <1>7, <1>8, <1>9, <1>10, SinceBoxes DEF Since
<1>12. Shaped(e)
    BY <1>1 DEF Shaped, Differ
<1> QED BY <1>1, <1>11, <1>12 DEF e

(* Inv of the loop over inputs, ids: Since, or the block is refused.       *)
SinceSpends(p, ids, d, base, n, acc) ==
    /\ Good(acc)
    /\ acc.corrupt \/ /\ Since(d, acc, {})
                      /\ \A k \in 1..n : ids[k] \in acc.undo.spentBoxes

Spending(p, q, base, n, acc) == SinceSpends(p, q.ids, q.d, base, n, acc)

LOCAL Spenders == INSTANCE FoldTheory WITH
    Op <- LAMBDA p, q, acc, id : SpendInput(acc, id, p), Inv <- Spending

LEMMA SpendInputSince ==
    ASSUME NEW d, Ready(d), NEW c, Good(c), NEW id, NEW tx, c.corrupt \/ Since(d, c, {})
    PROVE  LET e == SpendInput(c, id, tx)
           IN  /\ Good(e)
               /\ e.corrupt \/ /\ ~ c.corrupt /\ Since(d, e, {})
                               /\ e.undo.spentBoxes = c.undo.spentBoxes \cup {id}
<1> DEFINE e == SpendInput(c, id, tx)
<1>1. Good(e) /\ Shaped(c)
    BY SpendInputQuiet, QuietGood, GoodShape
<1>2. CASE c.corrupt \/ id \notin DOMAIN c.d.boxes \/ c.d.boxes[id].spent # Unspent
    <2>1. e = Corrupt(c)
        BY <1>2 DEF SpendInput
    <2>2. e.corrupt
        BY <1>1, <2>1, CorruptSays
    <2> HIDE DEF e
    <2> QED BY <1>1, <2>2 DEF e
<1>3. CASE ~ c.corrupt /\ id \in DOMAIN c.d.boxes /\ c.d.boxes[id].spent = Unspent
    <2>1. e = SpendBox(c, id, tx)
        BY <1>3 DEF SpendInput
    <2>2. e.corrupt \/ /\ Since(d, e, {})
                       /\ e.undo.spentBoxes = c.undo.spentBoxes \cup {id}
        BY <1>1, <1>3, <2>1, SpendBoxSince
    <2> HIDE DEF e
    <2> QED BY <1>1, <1>3, <2>2 DEF e
<1> QED BY <1>2, <1>3

LEMMA SpendInputsSince ==
    ASSUME NEW d, Ready(d), NEW c, Good(c), c.corrupt \/ Since(d, c, {}), NEW tx,
           DOMAIN tx.inputs = 1..Len(tx.inputs), Len(tx.inputs) \in Nat
    PROVE  LET e == SpendInputs(c, tx)
           IN  /\ Good(e)
               /\ e.corrupt \/ /\ Since(d, e, {})
                               /\ \A k \in DOMAIN tx.inputs : tx.inputs[k] \in e.undo.spentBoxes
<1> DEFINE ids == tx.inputs
           q == [ids |-> ids, d |-> d]
           out == Spenders!Left(tx.id, q, c, ids)
<1>1. SpendInputs(c, tx) = out
    BY DEF SpendInputs, FoldLeft, MapThenFoldSet, Max, Spenders!Left, Spenders!LeftFold,
           Spenders!Greatest
<1>2. \A n, acc : Spending(tx.id, q, c, n, acc) <=> SinceSpends(tx.id, ids, d, c, n, acc)
    BY DEF Spending
<1> HIDE DEF q
<1>3. Spending(tx.id, q, c, 0, c)
    <2>1. \A k \in 1..0 : FALSE
        OBVIOUS
    <2> QED BY <1>2, <2>1 DEF SinceSpends
<1>4. ASSUME NEW i \in 1..Len(ids), NEW acc, Spending(tx.id, q, c, i - 1, acc)
      PROVE  Spending(tx.id, q, c, i, SpendInput(acc, ids[i], tx.id))
    <2> DEFINE e == SpendInput(acc, ids[i], tx.id)
    <2>1. /\ Good(acc)
          /\ acc.corrupt \/ /\ Since(d, acc, {})
                            /\ \A k \in 1..(i - 1) : ids[k] \in acc.undo.spentBoxes
        BY <1>2, <1>4 DEF SinceSpends
    <2>2. /\ Good(e)
          /\ e.corrupt \/ /\ ~ acc.corrupt /\ Since(d, e, {})
                          /\ e.undo.spentBoxes = acc.undo.spentBoxes \cup {ids[i]}
        BY <2>1, SpendInputSince
    <2> HIDE DEF e, ids
    <2>3. \A k \in 1..i : k = i \/ k \in 1..(i - 1)
        BY <1>4
    <2>4. e.corrupt \/ \A k \in 1..i : ids[k] \in e.undo.spentBoxes
        BY <2>1, <2>2, <2>3
    <2>5. Spending(tx.id, q, c, i, e)
        BY <1>2, <2>2, <2>4 DEF SinceSpends
    <2> QED BY <2>5 DEF e
<1>5. Spending(tx.id, q, c, Len(ids), out)
    <2> HIDE DEF ids
    <2>1. DOMAIN ids = 1..Len(ids) /\ Len(ids) \in Nat
        BY DEF ids
    <2> QED BY <1>3, <1>4, <2>1, LeastNatural, Spenders!LeftValue
<1> HIDE DEF out
<1> QED BY <1>1, <1>2, <1>5 DEF SinceSpends

-----------------------------------------------------------------------------
(* Outputs.                                                                *)

RowOf(gidx, o, tx) ==
    [gidx |-> gidx, value |-> o.value, tree |-> o.tree, creation |-> o.creation,
     tx |-> tx, tokens |-> o.tokens, spent |-> Unspent]

RegistersAt(gidx, o) == {<<r[1], r[2], gidx>> : r \in o.registers}

LEMMA RowOfIsRow ==
    ASSUME NEW gidx, NEW o, NEW tx
    PROVE  LET r == RowOf(gidx, o, tx)
           IN  IsRow(r) /\ r.gidx = gidx /\ r.tokens = o.tokens /\ r.tree = o.tree
                        /\ r.creation = o.creation /\ r.spent = Unspent
BY DEF RowOf, IsRow, IsTable, RowKeys

LEMMA InsertOutputDiffers ==
    ASSUME NEW d, DOMAIN d = TableKeys, NEW gidx, NEW o, NEW tx
    PROVE  LET e == InsertOutput(d, gidx, o, tx)
           IN  /\ Differ(d, e, {"boxes", "boxByGidx", "treeBoxes", "treeUnspent", "rentMatures"})
               /\ e.boxes = Put(d.boxes, o.id, RowOf(gidx, o, tx))
               /\ e.boxByGidx = Put(d.boxByGidx, gidx, o.id)
               /\ e.treeBoxes = d.treeBoxes \cup {<<o.tree, gidx>>}
               /\ e.treeUnspent = d.treeUnspent \cup {<<o.tree, gidx>>}
               /\ e.rentMatures = d.rentMatures \cup {<<MaturityHeight(o.creation), gidx, o.id>>}
<1> DEFINE boxes == Put(d.boxes, o.id, RowOf(gidx, o, tx))
           places == Put(d.boxByGidx, gidx, o.id)
           due == <<MaturityHeight(o.creation), gidx, o.id>>
           e == [d EXCEPT !.boxes = boxes, !.boxByGidx = places,
                          !.treeBoxes = @ \cup {<<o.tree, gidx>>},
                          !.treeUnspent = @ \cup {<<o.tree, gidx>>},
                          !.rentMatures = @ \cup {due}]
<1>1. InsertOutput(d, gidx, o, tx) = e
    BY Zenon DEF InsertOutput, RowOf
<1> HIDE DEF boxes, places, due
<1>2. Differ(d, e, {"boxes", "boxByGidx", "treeBoxes", "treeUnspent", "rentMatures"})
    BY DEF Differ
<1>3. /\ e.boxes = boxes /\ e.boxByGidx = places
      /\ e.treeBoxes = d.treeBoxes \cup {<<o.tree, gidx>>}
      /\ e.treeUnspent = d.treeUnspent \cup {<<o.tree, gidx>>}
      /\ e.rentMatures = d.rentMatures \cup {due}
    BY DEF TableKeys
<1> HIDE DEF e
<1> QED BY <1>1, <1>2, <1>3 DEF boxes, places, due

LEMMA ExtrasOnOutputDiffers ==
    ASSUME NEW c, Shaped(c), NEW gidx, NEW o
    PROVE  LET e == ExtrasOnOutput(c, gidx, o)
           IN  /\ Differ(c, e, {"d", "undo", "tmpl"})
               /\ Differ(c.d, e.d, {"templateBoxes", "templateUnspent", "registerIdx"})
               /\ Differ(c.undo, e.undo, {"registerKeys"})
               /\ e.d.templateBoxes = c.d.templateBoxes \cup {<<Template[o.tree], gidx>>}
               /\ e.d.templateUnspent = c.d.templateUnspent \cup {<<Template[o.tree], gidx>>}
               /\ e.d.registerIdx = c.d.registerIdx \cup RegistersAt(gidx, o)
               /\ e.undo.registerKeys = c.undo.registerKeys \cup RegistersAt(gidx, o)
<1> DEFINE regs == RegistersAt(gidx, o)
           row == TemplateRow(c, o.tree)
           rows == Put(c.tmpl, Template[o.tree],
                       [row EXCEPT !.boxCount = @ + 1, !.unspentCount = @ + 1])
           e == [c EXCEPT
                  !.d.templateBoxes   = @ \cup {<<Template[o.tree], gidx>>},
                  !.d.templateUnspent = @ \cup {<<Template[o.tree], gidx>>},
                  !.d.registerIdx     = @ \cup regs,
                  !.undo.registerKeys = @ \cup regs,
                  !.tmpl = rows]
<1>1. ExtrasOnOutput(c, gidx, o) = e
    BY Zenon DEF ExtrasOnOutput, RegistersAt
<1> HIDE DEF regs, rows
<1>2. Differ(c, e, {"d", "undo", "tmpl"})
    BY DEF Differ
<1>3. /\ Differ(c.d, e.d, {"templateBoxes", "templateUnspent", "registerIdx"})
      /\ e.d.templateBoxes = c.d.templateBoxes \cup {<<Template[o.tree], gidx>>}
      /\ e.d.templateUnspent = c.d.templateUnspent \cup {<<Template[o.tree], gidx>>}
      /\ e.d.registerIdx = c.d.registerIdx \cup regs
    BY DEF Differ, Shaped, CtxKeys, TableKeys
<1>4. /\ Differ(c.undo, e.undo, {"registerKeys"})
      /\ e.undo.registerKeys = c.undo.registerKeys \cup regs
    BY DEF Differ, Shaped, CtxKeys, UndoKeys
<1> HIDE DEF e
<1> QED BY <1>1, <1>2, <1>3, <1>4 DEF regs

(* The tables after one output, and after its extras, from those before.   *)
LEMMA OutputMakes ==
    ASSUME NEW c, DOMAIN c = TableKeys, NEW e, NEW f, NEW o, NEW tx, NEW S,
           S \cap {"templateBoxes", "templateUnspent", "tokenBoxes", "tokenUnspent",
                   "registerIdx", "boxes", "boxByGidx", "treeBoxes", "treeUnspent",
                   "rentMatures"} = {},
           Differ(InsertOutput(c, c.nextBox, o, tx), e, S), e.nextBox = c.nextBox + 1,
           Differ(e, f, {"templateBoxes", "templateUnspent", "registerIdx"}),
           f.templateBoxes = e.templateBoxes \cup {<<Template[o.tree], c.nextBox>>},
           f.templateUnspent = e.templateUnspent \cup {<<Template[o.tree], c.nextBox>>},
           f.registerIdx = e.registerIdx \cup RegistersAt(c.nextBox, o)
    PROVE  Makes(c, f, o.id, RowOf(c.nextBox, o, tx), RegistersAt(c.nextBox, o))
<1> DEFINE gidx == c.nextBox
           i == InsertOutput(c, gidx, o, tx)
           row == RowOf(gidx, o, tx)
           regs == RegistersAt(gidx, o)
<1>1. /\ Differ(c, i, {"boxes", "boxByGidx", "treeBoxes", "treeUnspent", "rentMatures"})
      /\ i.boxes = Put(c.boxes, o.id, row) /\ i.boxByGidx = Put(c.boxByGidx, gidx, o.id)
      /\ i.treeBoxes = c.treeBoxes \cup {<<o.tree, gidx>>}
      /\ i.treeUnspent = c.treeUnspent \cup {<<o.tree, gidx>>}
      /\ i.rentMatures = c.rentMatures \cup {<<MaturityHeight(o.creation), gidx, o.id>>}
    BY InsertOutputDiffers
<1>2. DOMAIN i = TableKeys /\ DOMAIN e = TableKeys /\ DOMAIN f = TableKeys
    BY <1>1 DEF Differ
<1>3. row.gidx = gidx /\ row.tokens = o.tokens /\ row.tree = o.tree /\ row.creation = o.creation
    BY RowOfIsRow
<1> HIDE DEF i, row
<1>4. /\ e.boxes = i.boxes /\ e.boxByGidx = i.boxByGidx /\ e.treeBoxes = i.treeBoxes
      /\ e.treeUnspent = i.treeUnspent /\ e.rentMatures = i.rentMatures
    BY <1>2 DEF Differ, TableKeys, i
<1>5. /\ f.boxes = e.boxes /\ f.boxByGidx = e.boxByGidx /\ f.treeBoxes = e.treeBoxes
      /\ f.treeUnspent = e.treeUnspent /\ f.rentMatures = e.rentMatures
      /\ f.tokenBoxes = e.tokenBoxes /\ f.tokenUnspent = e.tokenUnspent
      /\ f.nextBox = e.nextBox
    BY <1>2 DEF Differ, TableKeys
<1>6. /\ e.templateBoxes = i.templateBoxes /\ e.templateUnspent = i.templateUnspent
      /\ e.tokenBoxes = i.tokenBoxes /\ e.tokenUnspent = i.tokenUnspent
      /\ e.registerIdx = i.registerIdx
    BY <1>2 DEF Differ, TableKeys, i
<1>7. /\ i.templateBoxes = c.templateBoxes /\ i.templateUnspent = c.templateUnspent
      /\ i.tokenBoxes = c.tokenBoxes /\ i.tokenUnspent = c.tokenUnspent
      /\ i.registerIdx = c.registerIdx
    BY <1>1 DEF Differ, TableKeys
<1>8. \A k \in regs : k[3] = gidx
    BY DEF RegistersAt
<1>9. ASSUME NEW kind \in Kinds
      PROVE  Every(kind, f) = IF kind \in {"tree", "template"}
                              THEN Every(kind, c) \cup KeysOf(kind, row, o.id) ELSE Every(kind, c)
    BY <1>1, <1>3, <1>4, <1>5, <1>6, <1>7 DEF Every, KeysOf, Kinds
<1>10. ASSUME NEW kind \in Kinds
       PROVE  Open(kind, f) = IF kind = "token" THEN Open(kind, c)
                              ELSE Open(kind, c) \cup KeysOf(kind, row, o.id)
    BY <1>1, <1>3, <1>4, <1>5, <1>6, <1>7 DEF Open, KeysOf, Kinds
<1>11. Makes(c, f, o.id, row, regs)
    BY <1>1, <1>3, <1>4, <1>5, <1>6, <1>7, <1>8, <1>9, <1>10 DEF Makes
<1> QED BY <1>11 DEF row

LEMMA CreateOutputDiffers ==
    ASSUME NEW c, Shaped(c), NEW o, NEW tx
    PROVE  LET e == CreateOutput(c, o, tx)
           IN  /\ Differ(c, e, {"d", "bal", "tmpl", "undo"})
               /\ Differ(c.d, e.d, BoxKeys)
               /\ Differ(c.undo, e.undo, {"newTrees", "createdBoxes", "registerKeys"})
               /\ Makes(c.d, e.d, o.id, RowOf(c.d.nextBox, o, tx), RegistersAt(c.d.nextBox, o))
               /\ e.d.ergoTrees = c.d.ergoTrees \cup {o.tree}
               /\ e.undo.newTrees = c.undo.newTrees \cup ({o.tree} \ c.d.ergoTrees)
               /\ e.undo.createdBoxes = c.undo.createdBoxes \cup {o.id}
               /\ e.undo.registerKeys = c.undo.registerKeys \cup RegistersAt(c.d.nextBox, o)
<1> DEFINE gidx == c.d.nextBox
           i == InsertOutput(c.d, gidx, o, tx)
           d == [i EXCEPT !.nextBox = @ + 1, !.ergoTrees = @ \cup {o.tree}]
           mine == Put(c.bal, o.tree, CreditBalance(LoadBalance(c, o.tree), o, c.h))
           s == [c EXCEPT !.d = d, !.bal = mine,
                          !.undo.newTrees = @ \cup ({o.tree} \ c.d.ergoTrees),
                          !.undo.createdBoxes = @ \cup {o.id}]
           e == ExtrasOnOutput(s, gidx, o)
           S == {"boxes", "boxByGidx", "treeBoxes", "treeUnspent", "rentMatures"}
           X == {"templateBoxes", "templateUnspent", "registerIdx"}
<1>1. CreateOutput(c, o, tx) = e
    BY Zenon DEF CreateOutput
<1>2. DOMAIN c.d = TableKeys /\ DOMAIN i = TableKeys /\ Differ(c.d, i, S)
    BY InsertOutputDiffers DEF Shaped, Differ
<1> HIDE DEF i, mine
<1>3. /\ Differ(i, d, {"nextBox", "ergoTrees"}) /\ d.nextBox = i.nextBox + 1
      /\ d.ergoTrees = i.ergoTrees \cup {o.tree}
    BY <1>2 DEF Differ, TableKeys
<1>4. i.nextBox = c.d.nextBox /\ i.ergoTrees = c.d.ergoTrees
    BY <1>2 DEF Differ, TableKeys
<1> HIDE DEF d
<1>5. Differ(c, s, {"d", "bal", "undo"}) /\ s.d = d
    BY DEF Differ, Shaped, CtxKeys
<1>6. /\ Differ(c.undo, s.undo, {"newTrees", "createdBoxes"})
      /\ s.undo.newTrees = c.undo.newTrees \cup ({o.tree} \ c.d.ergoTrees)
      /\ s.undo.createdBoxes = c.undo.createdBoxes \cup {o.id}
    BY DEF Differ, Shaped, CtxKeys, UndoKeys
<1>7. Shaped(s)
    BY <1>2, <1>3, <1>5, <1>6 DEF Shaped, Differ
<1> HIDE DEF s
<1>8. /\ Differ(s, e, {"d", "undo", "tmpl"}) /\ Differ(s.d, e.d, X)
      /\ Differ(s.undo, e.undo, {"registerKeys"})
      /\ e.d.templateBoxes = s.d.templateBoxes \cup {<<Template[o.tree], gidx>>}
      /\ e.d.templateUnspent = s.d.templateUnspent \cup {<<Template[o.tree], gidx>>}
      /\ e.d.registerIdx = s.d.registerIdx \cup RegistersAt(gidx, o)
      /\ e.undo.registerKeys = s.undo.registerKeys \cup RegistersAt(gidx, o)
    BY <1>7, ExtrasOnOutputDiffers
<1> HIDE DEF e
<1>9. Differ(c, e, {"d", "bal", "tmpl", "undo"})
    BY <1>5, <1>8 DEF Differ
<1>10. Differ(c.undo, e.undo, {"newTrees", "createdBoxes", "registerKeys"})
    BY <1>6, <1>8 DEF Differ
<1>11. /\ e.undo.newTrees = s.undo.newTrees /\ e.undo.createdBoxes = s.undo.createdBoxes
       /\ s.undo.registerKeys = c.undo.registerKeys
    BY <1>6, <1>7, <1>8 DEF Differ, Shaped, UndoKeys
<1>12. Differ(c.d, e.d, BoxKeys)
    <2>1. Differ(c.d, e.d, (S \cup {"nextBox", "ergoTrees"}) \cup X)
        BY <1>2, <1>3, <1>5, <1>8, DifferTrans
    <2>2. (S \cup {"nextBox", "ergoTrees"}) \cup X \subseteq BoxKeys
        BY DEF BoxKeys
    <2> QED BY <2>1, <2>2 DEF Differ
<1>13. e.d.ergoTrees = s.d.ergoTrees
    BY <1>7, <1>8 DEF Differ, Shaped, TableKeys
<1>14. Makes(c.d, e.d, o.id, RowOf(gidx, o, tx), RegistersAt(gidx, o))
    BY <1>2, <1>3, <1>4, <1>5, <1>8, OutputMakes DEF i
<1> QED BY <1>1, <1>3, <1>4, <1>5, <1>6, <1>8, <1>9, <1>10, <1>11, <1>12, <1>13, <1>14

Adds(d, c, e, o, tx, pending) ==
    /\ Since(d, e, pending \cup {o.id}) /\ Shaped(e)
    /\ Grown(c.d, e.d, o.id, RowOf(c.d.nextBox, o, tx))
    /\ e.d.nextBox = c.d.nextBox + 1
    /\ e.undo.spentBoxes = c.undo.spentBoxes
    /\ e.undo.createdBoxes = c.undo.createdBoxes \cup {o.id}
    /\ e.corrupt = c.corrupt /\ e.tok = c.tok /\ e.d.nextTx = c.d.nextTx

LEMMA CreateOutputSince ==
    ASSUME NEW d, NEW c, NEW pending, Ready(d), Shaped(c), Since(d, c, pending), NEW o,
           o.id \notin DOMAIN c.d.boxes, IsABag(o.tokens), NEW tx
    PROVE  Adds(d, c, CreateOutput(c, o, tx), o, tx, pending)
<1> DEFINE e == CreateOutput(c, o, tx)
           row == RowOf(c.d.nextBox, o, tx)
           regs == RegistersAt(c.d.nextBox, o)
<1>1. /\ Differ(c, e, {"d", "bal", "tmpl", "undo"}) /\ Differ(c.d, e.d, BoxKeys)
      /\ Differ(c.undo, e.undo, {"newTrees", "createdBoxes", "registerKeys"})
      /\ Makes(c.d, e.d, o.id, row, regs)
      /\ e.d.ergoTrees = c.d.ergoTrees \cup {o.tree}
      /\ e.undo.newTrees = c.undo.newTrees \cup ({o.tree} \ c.d.ergoTrees)
      /\ e.undo.createdBoxes = c.undo.createdBoxes \cup {o.id}
      /\ e.undo.registerKeys = c.undo.registerKeys \cup regs
    BY CreateOutputDiffers
<1>2. IsRow(row) /\ row.tokens = o.tokens
    BY RowOfIsRow
<1> HIDE DEF e, row, regs
<1>3. Kept(c.d, e.d) /\ SameTxs(c.d, e.d) /\ e.d.tokensByGidx = c.d.tokensByGidx
    BY <1>1, BoxKeysOnly DEF Shaped
<1>4. SameNotes(c.undo, e.undo) /\ e.undo.spentBoxes = c.undo.spentBoxes
    BY <1>1 DEF Differ, Shaped, UndoKeys, SameNotes
<1>5. e.tok = c.tok /\ e.hold = c.hold /\ e.corrupt = c.corrupt
    BY <1>1 DEF Differ, Shaped, CtxKeys
<1>6. BoxOK(e.d, pending \cup {o.id})
    BY <1>1, <1>2, MakesKeeps DEF Since
<1>7. BoxSince(d, e.d, e.undo)
    BY <1>1, <1>2, <1>4, SinceBase, MakesSince
<1>8. TreesSince(d, e.d, e.undo.newTrees)
    BY <1>1 DEF Since, TreesSince
<1>9. c.d.nextBox \in Nat /\ e.d.nextBox = c.d.nextBox + 1
    BY <1>1 DEF Since, BoxOK, Numbered, Makes
<1>10. IsAmounts(c.hold)
    BY DEF Since
<1>11. Since(d, e, pending \cup {o.id})
    BY <1>3, <1>4, <1>5, <1>6, <1>7, <1>8, <1>9, <1>10, SinceBoxes
<1>12. Shaped(e)
    BY <1>1 DEF Shaped, Differ
<1>13. Grown(c.d, e.d, o.id, row)
    BY <1>1, <1>2, MakesRows DEF Since, BoxOK
<1>14. e.d.nextTx = c.d.nextTx
    BY <1>3 DEF SameTxs
<1> QED BY <1>1, <1>4, <1>5, <1>9, <1>11, <1>12, <1>13, <1>14 DEF Adds, e, row

(* Inv of the loop over outputs, boxes, from c.                            *)
IdsOf(boxes, n) == {boxes[k].id : k \in 1..n}

Placed(c, e, boxes, tx, n) ==
    /\ DOMAIN e.d.boxes = DOMAIN c.d.boxes \cup IdsOf(boxes, n)
    /\ \A x \in DOMAIN c.d.boxes : e.d.boxes[x] = c.d.boxes[x]
    /\ \A k \in 1..n : e.d.boxes[boxes[k].id] = RowOf(c.d.nextBox + k - 1, boxes[k], tx)
    /\ e.d.nextBox = c.d.nextBox + n
    /\ e.undo.spentBoxes = c.undo.spentBoxes
    /\ e.undo.createdBoxes = c.undo.createdBoxes \cup IdsOf(boxes, n)
    /\ e.corrupt = c.corrupt /\ e.tok = c.tok /\ e.d.nextTx = c.d.nextTx

SinceOutputs(tx, boxes, d, c, n, acc) ==
    Shaped(acc) /\ Since(d, acc, IdsOf(boxes, n)) /\ Placed(c, acc, boxes, tx, n)

Creating(p, q, base, n, acc) == SinceOutputs(p, q.boxes, q.d, base, n, acc)

LOCAL Creators == INSTANCE FoldTheory WITH
    Op <- LAMBDA p, q, acc, o : CreateOutput(acc, o, p), Inv <- Creating

FreshBoxes(boxes, d) ==
    /\ Distinct(boxes) /\ \A k \in DOMAIN boxes : boxes[k].id \notin DOMAIN d.boxes
    /\ \A k \in DOMAIN boxes : IsABag(boxes[k].tokens)

LEMMA NextIds ==
    ASSUME NEW boxes, NEW i \in Nat \ {0}
    PROVE  IdsOf(boxes, i) = IdsOf(boxes, i - 1) \cup {boxes[i].id}
<1>1. 1..i = 1..(i - 1) \cup {i}
    OBVIOUS
<1> QED BY <1>1 DEF IdsOf

LEMMA NoIds ==
    ASSUME NEW boxes
    PROVE  IdsOf(boxes, 0) = {}
BY DEF IdsOf

LEMMA CreateOutputsSince ==
    ASSUME NEW d, Ready(d), NEW c, Shaped(c), Since(d, c, {}), NEW tx, NEW m \in Nat,
           DOMAIN tx.outputs = 1..m, FreshBoxes(tx.outputs, c.d)
    PROVE  SinceOutputs(tx.id, tx.outputs, d, c, m, CreateOutputs(c, tx))
<1> DEFINE boxes == tx.outputs
           q == [boxes |-> boxes, d |-> d]
           out == Creators!Left(tx.id, q, c, boxes)
<1>1. CreateOutputs(c, tx) = out
    BY DEF CreateOutputs, FoldLeft, MapThenFoldSet, Max, Creators!Left, Creators!LeftFold,
           Creators!Greatest
<1>2. \A n, acc : Creating(tx.id, q, c, n, acc) <=> SinceOutputs(tx.id, boxes, d, c, n, acc)
    BY DEF Creating
<1>3. c.d.nextBox \in Nat
    BY DEF Since, BoxOK, Numbered
<1> HIDE DEF q
<1>4. Creating(tx.id, q, c, 0, c)
    <2>1. \A k \in 1..0 : FALSE
        OBVIOUS
    <2>2. Placed(c, c, boxes, tx.id, 0)
        BY <1>3, <2>1, NoIds DEF Placed
    <2> QED BY <1>2, <2>2, NoIds DEF SinceOutputs
<1>5. ASSUME NEW i \in 1..m, NEW acc, Creating(tx.id, q, c, i - 1, acc)
      PROVE  Creating(tx.id, q, c, i, CreateOutput(acc, boxes[i], tx.id))
    <2> DEFINE e == CreateOutput(acc, boxes[i], tx.id)
               o == boxes[i]
    <2>1. /\ Shaped(acc) /\ Since(d, acc, IdsOf(boxes, i - 1))
          /\ Placed(c, acc, boxes, tx.id, i - 1)
        BY <1>2, <1>5 DEF SinceOutputs
    <2>2. IsABag(o.tokens) /\ o.id \notin DOMAIN c.d.boxes
          /\ \A k \in 1..(i - 1) : boxes[k].id # o.id
        BY DEF FreshBoxes, Distinct
    <2>3. o.id \notin DOMAIN acc.d.boxes
        BY <2>1, <2>2 DEF Placed, IdsOf
    <2>4. /\ Since(d, e, IdsOf(boxes, i - 1) \cup {o.id}) /\ Shaped(e)
          /\ Grown(acc.d, e.d, o.id, RowOf(acc.d.nextBox, o, tx.id))
          /\ e.d.nextBox = acc.d.nextBox + 1
          /\ e.undo.spentBoxes = acc.undo.spentBoxes
          /\ e.undo.createdBoxes = acc.undo.createdBoxes \cup {o.id}
          /\ e.corrupt = acc.corrupt /\ e.tok = acc.tok /\ e.d.nextTx = acc.d.nextTx
        <3>1. Adds(d, acc, e, o, tx.id, IdsOf(boxes, i - 1))
            BY <2>1, <2>2, <2>3, CreateOutputSince
        <3> HIDE DEF e, o
        <3> QED BY <3>1 DEF Adds
    <2>5. IdsOf(boxes, i) = IdsOf(boxes, i - 1) \cup {o.id} /\ i \in Nat
        BY NextIds
    <2> HIDE DEF e, boxes
    <2>6. acc.d.nextBox = c.d.nextBox + i - 1
        BY <1>3, <2>1, <2>5 DEF Placed
    <2>7. /\ DOMAIN e.d.boxes = DOMAIN c.d.boxes \cup IdsOf(boxes, i)
          /\ \A x \in DOMAIN c.d.boxes : e.d.boxes[x] = c.d.boxes[x]
        BY <2>1, <2>4, <2>5 DEF Placed, Grown
    <2>8. ASSUME NEW k \in 1..i
          PROVE  e.d.boxes[boxes[k].id] = RowOf(c.d.nextBox + k - 1, boxes[k], tx.id)
        <3>1. CASE k = i
            BY <2>4, <2>6, <3>1 DEF Grown
        <3>2. CASE k # i
            <4>1. k \in 1..(i - 1)
                BY <2>5, <3>2
            <4>2. boxes[k].id \in DOMAIN acc.d.boxes
                BY <2>1, <4>1 DEF Placed, IdsOf
            <4> QED BY <2>1, <2>4, <4>1, <4>2 DEF Placed, Grown
        <3> QED BY <3>1, <3>2
    <2>9. Placed(c, e, boxes, tx.id, i)
        BY <1>3, <2>1, <2>4, <2>5, <2>6, <2>7, <2>8 DEF Placed
    <2>10. SinceOutputs(tx.id, boxes, d, c, i, e)
        BY <2>4, <2>5, <2>9 DEF SinceOutputs
    <2> QED BY <1>2, <2>10 DEF e
<1>6. Creating(tx.id, q, c, Len(boxes), out) /\ Len(boxes) = m
    <2> HIDE DEF boxes
    <2>1. DOMAIN boxes = 1..Len(boxes) /\ Len(boxes) = m
        BY FunctionLength DEF boxes
    <2> QED BY <1>4, <1>5, <2>1, LeastNatural, Creators!LeftValue
<1> HIDE DEF out
<1> QED BY <1>1, <1>2, <1>6

-----------------------------------------------------------------------------
(* Tokens.  What writes no table of boxes keeps all that is said of them.  *)

LEMMA BoxesUntouched ==
    ASSUME NEW c, NEW e, DOMAIN c = TableKeys, NEW S, S \cap BoxKeys = {}, Differ(c, e, S)
    PROVE  /\ e.boxes = c.boxes /\ SameNumbers(c, e) /\ e.ergoTrees = c.ergoTrees
           /\ \A kind : Open(kind, e) = Open(kind, c) /\ Every(kind, e) = Every(kind, c)
<1>1. \A x \in BoxKeys : e[x] = c[x]
    BY DEF Differ, BoxKeys, TableKeys
<1>2. /\ e.boxes = c.boxes /\ SameNumbers(c, e) /\ e.ergoTrees = c.ergoTrees
    BY <1>1 DEF BoxKeys, SameNumbers
<1>3. /\ e.treeUnspent = c.treeUnspent /\ e.templateUnspent = c.templateUnspent
      /\ e.tokenUnspent = c.tokenUnspent /\ e.rentMatures = c.rentMatures
      /\ e.treeBoxes = c.treeBoxes /\ e.templateBoxes = c.templateBoxes
      /\ e.tokenBoxes = c.tokenBoxes
    BY <1>1 DEF BoxKeys
<1>4. \A kind : Open(kind, e) = Open(kind, c) /\ Every(kind, e) = Every(kind, c)
    BY <1>3, Zenon DEF Open, Every
<1> QED BY <1>2, <1>4

LEMMA SameBoxFacts ==
    ASSUME NEW d, NEW c, NEW e, NEW u, NEW p, e.boxes = c.boxes, SameNumbers(c, e),
           \A kind : Open(kind, e) = Open(kind, c) /\ Every(kind, e) = Every(kind, c),
           e.rentMatures = c.rentMatures, BoxOK(c, p), BoxSince(d, c, u)
    PROVE  BoxOK(e, p) /\ BoxSince(d, e, u)
<1>1. Numbered(e) /\ Bounded(e) /\ Listed(e, p)
    BY DEF BoxOK, Numbered, Bounded, Listed, SameNumbers
<1>2. /\ BoxesSince(d, e, u.createdBoxes, u.spentBoxes) /\ NumbersSince(d, e, u.createdBoxes)
      /\ RegistersSince(d, e, u.registerKeys)
    BY DEF BoxSince, BoxesSince, NumbersSince, RegistersSince, SameNumbers
<1>3. OpenSince(d, e, u.createdBoxes, u.spentBoxes) /\ EverySince(d, e, u.createdBoxes)
    BY DEF BoxSince, OpenSince, EverySince
<1> QED BY <1>1, <1>2, <1>3 DEF BoxOK, BoxSince

LEMMA RentOpen ==
    ASSUME NEW c, NEW e, \A kind : Open(kind, e) = Open(kind, c)
    PROVE  e.rentMatures = c.rentMatures
<1>1. Open("rent", e) = Open("rent", c)
    OBVIOUS
<1> QED BY <1>1 DEF Open

(* A helper that only touches the minted tokens.                           *)
LEMMA SinceMint ==
    ASSUME NEW d, NEW c, NEW e, NEW p, Ready(d), Since(d, c, p), DOMAIN c.d = TableKeys,
           Differ(c.d, e.d, {"tokensByGidx"}), e.undo = c.undo, e.hold = c.hold,
           MintOK(e.d), MintSince(d, e.d, e.tok)
    PROVE  Since(d, e, p)
<1>1. {"tokensByGidx"} \cap BoxKeys = {}
    BY DEF BoxKeys
<1>2. /\ e.d.boxes = c.d.boxes /\ SameNumbers(c.d, e.d) /\ e.d.ergoTrees = c.d.ergoTrees
      /\ \A kind : Open(kind, e.d) = Open(kind, c.d) /\ Every(kind, e.d) = Every(kind, c.d)
    BY <1>1, BoxesUntouched
<1>3. BoxOK(e.d, p) /\ BoxSince(d, e.d, c.undo)
    BY <1>2, RentOpen, SameBoxFacts DEF Since
<1>4. Kept(c.d, e.d) /\ SameTxs(c.d, e.d)
    <2>1. \A x \in TableKeys \ {"tokensByGidx"} : e.d[x] = c.d[x]
        BY DEF Differ
    <2>2. /\ e.d.headers = c.d.headers /\ e.d.headerById = c.d.headerById
          /\ e.d.undo = c.d.undo
          /\ e.d.genesisSeeded = c.d.genesisSeeded /\ e.d.genesisToken = c.d.genesisToken
          /\ e.d.emissionTree = c.d.emissionTree
        BY <2>1 DEF TableKeys
    <2>3. /\ e.d.treeBalance = c.d.treeBalance /\ e.d.rich = c.d.rich
          /\ e.d.templates = c.d.templates
          /\ e.d.tokens = c.d.tokens /\ e.d.tokensByHolders = c.d.tokensByHolders
          /\ e.d.tokenHolders = c.d.tokenHolders /\ e.d.tokenHolderAmt = c.d.tokenHolderAmt
        BY <2>1 DEF TableKeys
    <2>4. SameTxs(c.d, e.d)
        BY <2>1 DEF TableKeys, SameTxs
    <2> QED BY <2>2, <2>3, <2>4 DEF Kept
<1>5. Kept(d, e.d)
    BY <1>4 DEF Since, Kept
<1>6. TxOK(e.d) /\ TxSince(d, e.d, c.undo.txIds, c.undo.treeTxs)
    BY <1>4 DEF Since, SameTxs, TxOK, TxSince
<1>7. TreesSince(d, e.d, c.undo.newTrees)
    BY <1>2 DEF Since, TreesSince
<1>8. IsAmounts(e.hold)
    BY DEF Since
<1> QED BY <1>3, <1>5, <1>6, <1>7, <1>8 DEF Since

(* No output holds the token: it is not in the sum.                        *)
Nothing(p, q, base, n, acc) == acc = 0

LOCAL Summing == INSTANCE FoldTheory WITH
    Op <- LAMBDA p, q, acc, b : acc + Copies(p, b.tokens), Inv <- Nothing

LEMMA AmountOfNone ==
    ASSUME NEW boxes, NEW n \in Nat, DOMAIN boxes = 1..n, NEW token,
           \A i \in 1..n : ~ BagIn(token, boxes[i].tokens)
    PROVE  AmountIn(boxes, token) = 0
<1> DEFINE out == Summing!Left(token, 0, 0, boxes)
<1>1. AmountIn(boxes, token) = out
    BY DEF AmountIn, FoldLeft, MapThenFoldSet, Max, Summing!Left, Summing!LeftFold,
           Summing!Greatest
<1>2. Len(boxes) = n
    BY FunctionLength
<1>3. \A i \in 1..n : Copies(token, boxes[i].tokens) = 0
    BY DEF Copies, Lookup, BagIn, BagToSet
<1>4. Nothing(token, 0, 0, 0, 0)
    BY DEF Nothing
<1>5. \A i \in 1..n : \A acc : Nothing(token, 0, 0, i - 1, acc) =>
            Nothing(token, 0, 0, i, acc + Copies(token, boxes[i].tokens))
    BY <1>3 DEF Nothing
<1>6. Nothing(token, 0, 0, Len(boxes), out)
    BY <1>2, <1>4, <1>5, LeastNatural, Summing!LeftValue
<1> QED BY <1>1, <1>6 DEF Nothing

FirstHolding(boxes, token) == SelectInSeq(boxes, LAMBDA o : BagIn(token, o.tokens))

LEMMA MintPlace ==
    ASSUME NEW boxes, NEW n \in Nat, DOMAIN boxes = 1..n, NEW token,
           AmountIn(boxes, token) # 0
    PROVE  FirstHolding(boxes, token) \in 1..n
<1> DEFINE I == {i \in 1..n : BagIn(token, boxes[i].tokens)}
<1>1. Len(boxes) = n
    BY FunctionLength
<1>2. I # {} /\ I \in SUBSET Nat
    BY AmountOfNone
<1>3. \E k \in I : \A j \in I : k <= j
    <2> HIDE DEF I
    <2> QED BY <1>2, LeastNatural
<1>4. FirstHolding(boxes, token) = CHOOSE k \in I : \A j \in I : k <= j
    BY <1>1, <1>2 DEF FirstHolding, SelectInSeq, Min
<1>5. (CHOOSE k \in I : \A j \in I : k <= j) \in I
    BY <1>3
<1> QED BY <1>4, <1>5

(* The new token's place is among the boxes of its transaction.            *)
LEMMA OnMintSince ==
    ASSUME NEW d, NEW c, NEW p, Ready(d), Shaped(c), Since(d, c, p), NEW tx, NEW firstOut \in Nat,
           NEW m \in Nat, DOMAIN tx.outputs = 1..m, d.nextBox <= firstOut,
           c.d.nextBox = firstOut + m
    PROVE  LET e == OnMint(c, tx, firstOut)
           IN  /\ Since(d, e, p) /\ Shaped(e)
               /\ e.d.boxes = c.d.boxes /\ e.d.nextBox = c.d.nextBox /\ e.d.nextTx = c.d.nextTx
               /\ e.undo = c.undo /\ e.corrupt = c.corrupt
<1> DEFINE token == tx.inputs[1]
           emission == AmountIn(tx.outputs, token)
           i == SelectInSeq(tx.outputs, LAMBDA o : BagIn(token, o.tokens))
           place == firstOut + i - 1
           row == [mintTx |-> tx.id, mintBox |-> tx.outputs[i].id, mintHeight |-> c.h,
                   mintGidx |-> place, emission |-> emission,
                   burned |-> 0, holderCount |-> 0, boxCount |-> 0]
           places == Put(c.d.tokensByGidx, place, token)
           rows == Put(c.tok, token, row)
           e == [c EXCEPT !.d.tokensByGidx = places, !.tok = rows]
           out == OnMint(c, tx, firstOut)
<1>1. CASE tx.inputs = <<>> \/ emission = 0 \/ TokenKnown(c, token)
    <2>1. out = c
        BY <1>1, Zenon DEF OnMint
    <2> HIDE DEF out
    <2> QED BY <2>1 DEF out
<1>2. CASE ~ (tx.inputs = <<>> \/ emission = 0 \/ TokenKnown(c, token))
    <2>1. out = e
        BY <1>2, Zenon DEF OnMint
    <2>2. i \in 1..m
        <3>1. FirstHolding(tx.outputs, token) \in 1..m
            BY <1>2, MintPlace
        <3> QED BY <3>1 DEF FirstHolding
    <2>3. token \notin DOMAIN c.tok /\ token \notin DOMAIN c.d.tokens
        BY <1>2 DEF TokenKnown
    <2>4. row.mintGidx = place /\ "mintGidx" \in DOMAIN row
        OBVIOUS
    <2> HIDE DEF row, emission, i, token
    <2>5. /\ place \in Nat /\ firstOut <= place /\ place < firstOut + m
        BY <2>2
    <2> HIDE DEF place, rows, places
    <2>6. /\ Differ(c.d, e.d, {"tokensByGidx"}) /\ e.d.tokensByGidx = places
        BY DEF Differ, Shaped, CtxKeys, TableKeys
    <2>7. e.undo = c.undo /\ e.hold = c.hold /\ e.tok = rows /\ e.corrupt = c.corrupt /\ Shaped(e)
        BY DEF Shaped, CtxKeys, TableKeys
    <2> HIDE DEF e
    <2>8. /\ IsTable(places) /\ DOMAIN places = DOMAIN c.d.tokensByGidx \cup {place}
          /\ places[place] = token
          /\ \A g \in DOMAIN c.d.tokensByGidx : g # place => places[g] = c.d.tokensByGidx[g]
        BY DEF places, Put, IsTable
    <2>9. /\ DOMAIN rows = DOMAIN c.tok \cup {token} /\ rows[token] = row
          /\ \A t \in DOMAIN c.tok : t # token => rows[t] = c.tok[t]
        BY DEF rows, Put
    <2>10. e.d.nextBox = c.d.nextBox /\ c.d.nextBox \in Nat /\ e.d.boxes = c.d.boxes
           /\ e.d.nextTx = c.d.nextTx
        BY <2>6 DEF Differ, Shaped, TableKeys, Since, BoxOK, Numbered
    <2>11. MintOK(e.d)
        BY <2>5, <2>6, <2>8, <2>10 DEF Since, MintOK
    <2>12. MintSince(d, e.d, e.tok)
        <3>1. d.tokens = c.d.tokens /\ MintSince(d, c.d, c.tok) /\ d.nextBox \in Nat /\ MintOK(d)
            BY DEF Since, Kept, Ready, BoxOK, Numbered
        <3>2. place \notin DOMAIN d.tokensByGidx
            BY <2>5, <3>1 DEF MintOK
        <3>3. NewRows(d, rows) = NewRows(d, c.tok) \cup {token} /\ token \notin NewRows(d, c.tok)
            BY <2>3, <2>9, <3>1 DEF NewRows
        <3>4. \A t \in NewRows(d, c.tok) : rows[t] = c.tok[t]
            BY <2>9, <3>3 DEF NewRows
        <3>5. \A g \in DOMAIN d.tokensByGidx :
                g \in DOMAIN places /\ places[g] = d.tokensByGidx[g]
            BY <2>8, <3>1, <3>2 DEF MintSince
        <3>6. \A t \in NewRows(d, rows) :
                "mintGidx" \in DOMAIN rows[t] /\ d.nextBox <= rows[t].mintGidx
            BY <2>4, <2>5, <2>9, <3>1, <3>3, <3>4 DEF MintSince
        <3>7. ASSUME NEW g \in DOMAIN places, g \notin DOMAIN d.tokensByGidx
              PROVE  \E t \in NewRows(d, rows) : rows[t].mintGidx = g
            <4>1. CASE g = place
                BY <2>4, <2>9, <3>3, <4>1
            <4>2. CASE g # place
                <5>1. PICK t \in NewRows(d, c.tok) : c.tok[t].mintGidx = g
                    BY <2>8, <3>1, <3>7, <4>2 DEF MintSince
                <5> QED BY <3>3, <3>4, <5>1
            <4> QED BY <4>1, <4>2
        <3> QED BY <2>6, <2>7, <3>5, <3>6, <3>7 DEF MintSince
    <2>13. Since(d, e, p)
        BY <2>6, <2>7, <2>11, <2>12, SinceMint DEF Shaped
    <2> QED BY <2>1, <2>7, <2>10, <2>13
<1> QED BY <1>1, <1>2

LEMMA HolderAmtNat ==
    ASSUME NEW c, IsAmounts(c.hold), IsAmounts(c.d.tokenHolderAmt), NEW token, NEW tree
    PROVE  HolderAmt(c, token, tree) \in Nat
BY Zenon DEF HolderAmt, Lookup, IsAmounts

LEMMA CopiesNat ==
    ASSUME NEW bag, IsABag(bag), NEW token
    PROVE  Copies(token, bag) \in Nat
BY DEF Copies, Lookup, IsABag

LEMMA AmountsOver ==
    ASSUME NEW f, NEW g, IsAmounts(f), IsAmounts(g)
    PROVE  IsAmounts(Over(f, g))
<1>1. DOMAIN Over(f, g) = DOMAIN f \cup DOMAIN g
    BY OverDomain
<1>2. \A k \in DOMAIN f \cup DOMAIN g : Over(f, g)[k] = IF k \in DOMAIN f THEN f[k] ELSE g[k]
    BY DEF Over
<1> QED BY <1>1, <1>2 DEF IsAmounts

(* What a helper that only moves the token keys and the holder cache does. *)
Moved(c, e) ==
    /\ Differ(c, e, {"d", "hold"}) /\ Differ(c.d, e.d, {"tokenBoxes", "tokenUnspent"})

LEMMA SinceTokens ==
    ASSUME NEW d, NEW c, NEW e, NEW p, NEW q, Ready(d), Shaped(c), Since(d, c, p), Moved(c, e),
           IsAmounts(e.hold), BoxOK(e.d, q), BoxSince(d, e.d, c.undo)
    PROVE  /\ Since(d, e, q) /\ Shaped(e) /\ e.undo = c.undo /\ e.corrupt = c.corrupt
           /\ e.d.boxes = c.d.boxes /\ e.d.nextBox = c.d.nextBox /\ e.d.nextTx = c.d.nextTx
<1>1. {"tokenBoxes", "tokenUnspent"} \in SUBSET BoxKeys
    BY DEF BoxKeys
<1>2. Kept(c.d, e.d) /\ SameTxs(c.d, e.d) /\ e.d.tokensByGidx = c.d.tokensByGidx
    BY <1>1, BoxKeysOnly DEF Moved, Shaped
<1>3. e.undo = c.undo /\ e.tok = c.tok /\ e.corrupt = c.corrupt /\ Shaped(e)
    BY DEF Moved, Differ, Shaped, CtxKeys
<1>4. e.d.boxes = c.d.boxes /\ e.d.nextBox = c.d.nextBox /\ e.d.ergoTrees = c.d.ergoTrees
    BY DEF Moved, Differ, Shaped, TableKeys
<1>5. SameNotes(c.undo, e.undo) /\ TreesSince(d, e.d, e.undo.newTrees)
    BY <1>3, <1>4 DEF Since, SameNotes, TreesSince
<1>6. c.d.nextBox \in Nat
    BY DEF Since, BoxOK, Numbered
<1>7. Since(d, e, q)
    BY <1>2, <1>3, <1>4, <1>5, <1>6, SinceBoxes
<1> QED BY <1>2, <1>3, <1>4, <1>7 DEF SameTxs

LEMMA TokensOnSpendSince ==
    ASSUME NEW d, NEW c, NEW p, Ready(d), Shaped(c), Since(d, c, p), NEW id \in c.undo.spentBoxes,
           NEW row, row = c.d.boxes[id], ~ TokensOnSpend(c, row).corrupt
    PROVE  LET e == TokensOnSpend(c, row)
           IN  /\ Since(d, e, p) /\ Shaped(e) /\ e.undo = c.undo /\ e.corrupt = c.corrupt
               /\ e.d.boxes = c.d.boxes /\ e.d.nextBox = c.d.nextBox /\ e.d.nextTx = c.d.nextTx
<1> DEFINE S == BagToSet(row.tokens)
           pairs == {<<t, row.tree>> : t \in S}
           after(token) == HolderAmt(c, token, row.tree) - Copies(token, row.tokens)
           moved == [k \in pairs |-> after(k[1])]
           marks == {<<t, row.gidx>> : t \in S}
           hold == Over(moved, c.hold)
           e == [c EXCEPT !.d.tokenUnspent = @ \ marks, !.hold = hold]
           out == TokensOnSpend(c, row)
<1>1. /\ id \in DOMAIN c.d.boxes /\ c.d.boxes[id].spent # Unspent
      /\ IsABag(row.tokens)
    BY DEF Since, BoxSince, BoxesSince, BoxOK, Numbered
<1>2. out # Corrupt(c)
    BY CorruptSays, Zenon
<1>3. ~ \E token \in S : after(token) < 0
    BY <1>2, Zenon DEF TokensOnSpend
<1>4. out = e
    BY <1>3, Zenon DEF TokensOnSpend
<1> HIDE DEF out
<1>5. IsAmounts(c.d.tokenHolderAmt) /\ IsAmounts(c.hold)
    BY DEF Since, Kept, Ready
<1>6. IsAmounts(hold)
    <2>1. \A t \in S : after(t) \in Nat
        BY <1>1, <1>3, <1>5, HolderAmtNat, CopiesNat
    <2> HIDE DEF after, S
    <2>2. IsAmounts(moved)
        BY <2>1 DEF IsAmounts
    <2> HIDE DEF moved
    <2> QED BY <1>5, <2>2, AmountsOver
<1> HIDE DEF hold, marks
<1>7. /\ Differ(c, e, {"d", "hold"}) /\ e.hold = hold
      /\ Differ(c.d, e.d, {"tokenBoxes", "tokenUnspent"})
      /\ e.d.tokenUnspent = c.d.tokenUnspent \ marks /\ e.d.tokenBoxes = c.d.tokenBoxes
    BY DEF Differ, Shaped, CtxKeys, TableKeys
<1> HIDE DEF e
<1>8. Releases(c.d, e.d, row, id)
    <2>1. /\ e.d.treeUnspent = c.d.treeUnspent /\ e.d.treeBoxes = c.d.treeBoxes
          /\ e.d.templateUnspent = c.d.templateUnspent
          /\ e.d.templateBoxes = c.d.templateBoxes
          /\ e.d.rentMatures = c.d.rentMatures
          /\ e.d.boxes = c.d.boxes /\ SameNumbers(c.d, e.d)
        BY <1>7 DEF Differ, Shaped, TableKeys, SameNumbers
    <2>2. \A kind \in Kinds : Every(kind, e.d) = Every(kind, c.d)
        BY <1>7, <2>1, Zenon DEF Every
    <2>3. KeysOf("token", row, id) = marks
        BY DEF KeysOf, marks
    <2>4. ASSUME NEW kind \in Kinds
          PROVE  Open(kind, e.d) = IF kind = "token" THEN Open(kind, c.d) \ KeysOf(kind, row, id)
                                   ELSE Open(kind, c.d)
        BY <1>7, <2>1, <2>3 DEF Open, Kinds
    <2> QED BY <2>1, <2>2, <2>4 DEF Releases
<1>9. BoxOK(e.d, p)
    BY <1>1, <1>8, ReleasesKeeps DEF Since
<1>10. BoxSince(d, e.d, c.undo)
    BY <1>8, SinceBase, ReleasesSince
<1>11. Moved(c, e)
    BY <1>7 DEF Moved
<1>12. /\ Since(d, e, p) /\ Shaped(e) /\ e.undo = c.undo /\ e.corrupt = c.corrupt
       /\ e.d.boxes = c.d.boxes /\ e.d.nextBox = c.d.nextBox /\ e.d.nextTx = c.d.nextTx
    BY <1>6, <1>7, <1>9, <1>10, <1>11, SinceTokens
<1> QED BY <1>4, <1>12 DEF out

(* The tokens of an output, listed and held.                               *)
LEMMA HoldTokensHolds ==
    ASSUME NEW c, Shaped(c), NEW o, NEW gidx, NEW tx, IsABag(o.tokens),
           c.d.boxes[o.id] = RowOf(gidx, o, tx),
           IsAmounts(c.d.tokenHolderAmt), IsAmounts(c.hold)
    PROVE  LET e == HoldTokens(c, gidx, o)
           IN  /\ Moved(c, e) /\ IsAmounts(e.hold)
               /\ Holds(c.d, e.d, c.d.boxes[o.id], o.id)
<1> DEFINE S == BagToSet(o.tokens)
           row == c.d.boxes[o.id]
           amount(token) == HolderAmt(c, token, o.tree) + Copies(token, o.tokens)
           moved == [k \in {<<t, o.tree>> : t \in S} |-> amount(k[1])]
           marks == {<<t, gidx>> : t \in S}
           hold == Over(moved, c.hold)
           e == [c EXCEPT !.d.tokenBoxes = @ \cup marks, !.d.tokenUnspent = @ \cup marks,
                          !.hold = hold]
           out == HoldTokens(c, gidx, o)
<1>1. row.tokens = o.tokens /\ row.tree = o.tree /\ row.gidx = gidx
    BY RowOfIsRow
<1>2. out = e
    BY Zenon DEF HoldTokens
<1> HIDE DEF out
<1>3. IsAmounts(hold)
    <2>1. \A t \in S : amount(t) \in Nat
        BY HolderAmtNat, CopiesNat
    <2> HIDE DEF amount, S
    <2>2. IsAmounts(moved)
        BY <2>1 DEF IsAmounts
    <2> HIDE DEF moved
    <2> QED BY <2>2, AmountsOver
<1> HIDE DEF hold, marks
<1>4. /\ Differ(c, e, {"d", "hold"}) /\ e.hold = hold
      /\ Differ(c.d, e.d, {"tokenBoxes", "tokenUnspent"})
      /\ e.d.tokenUnspent = c.d.tokenUnspent \cup marks
      /\ e.d.tokenBoxes = c.d.tokenBoxes \cup marks
    BY DEF Differ, Shaped, CtxKeys, TableKeys
<1> HIDE DEF e, row
<1>5. Holds(c.d, e.d, row, o.id)
    <2>1. /\ e.d.treeUnspent = c.d.treeUnspent /\ e.d.treeBoxes = c.d.treeBoxes
          /\ e.d.templateUnspent = c.d.templateUnspent
          /\ e.d.templateBoxes = c.d.templateBoxes
          /\ e.d.rentMatures = c.d.rentMatures
          /\ e.d.boxes = c.d.boxes /\ SameNumbers(c.d, e.d)
        BY <1>4 DEF Differ, Shaped, TableKeys, SameNumbers
    <2>2. KeysOf("token", row, o.id) = marks
        BY <1>1 DEF KeysOf, marks
    <2>3. ASSUME NEW kind \in Kinds
          PROVE  Every(kind, e.d) = IF kind = "token" THEN Every(kind, c.d) \cup KeysOf(kind, row, o.id)
                                    ELSE Every(kind, c.d)
        BY <1>4, <2>1, <2>2 DEF Every, Kinds
    <2>4. ASSUME NEW kind \in Kinds
          PROVE  Open(kind, e.d) = IF kind = "token" THEN Open(kind, c.d) \cup KeysOf(kind, row, o.id)
                                   ELSE Open(kind, c.d)
        BY <1>4, <2>1, <2>2 DEF Open, Kinds
    <2> QED BY <2>1, <2>3, <2>4 DEF Holds
<1>6. Moved(c, e)
    BY <1>4 DEF Moved
<1> QED BY <1>2, <1>3, <1>4, <1>5, <1>6, Zenon DEF out, row

LEMMA HoldTokensSince ==
    ASSUME NEW d, NEW c, NEW p, Ready(d), Shaped(c), Since(d, c, p), NEW o, NEW gidx, NEW tx,
           o.id \in c.undo.createdBoxes, c.d.boxes[o.id] = RowOf(gidx, o, tx)
    PROVE  LET e == HoldTokens(c, gidx, o)
           IN  /\ Since(d, e, p \ {o.id}) /\ Shaped(e) /\ e.undo = c.undo
               /\ e.corrupt = c.corrupt /\ e.d.boxes = c.d.boxes
               /\ e.d.nextBox = c.d.nextBox /\ e.d.nextTx = c.d.nextTx
<1> DEFINE e == HoldTokens(c, gidx, o)
           row == c.d.boxes[o.id]
<1>1. /\ o.id \in DOMAIN c.d.boxes /\ IsABag(row.tokens)
    BY DEF Since, BoxSince, BoxesSince, BoxOK, Numbered
<1>2. row.tokens = o.tokens
    BY RowOfIsRow
<1>3. IsAmounts(c.d.tokenHolderAmt) /\ IsAmounts(c.hold)
    BY DEF Since, Kept, Ready
<1>4. Moved(c, e) /\ IsAmounts(e.hold) /\ Holds(c.d, e.d, row, o.id)
    BY <1>1, <1>2, <1>3, HoldTokensHolds
<1> HIDE DEF e
<1>5. BoxOK(e.d, p \ {o.id})
    BY <1>1, <1>4, HoldsKeeps DEF Since
<1>6. BoxSince(d, e.d, c.undo)
    BY <1>4, SinceBase, HoldsSince
<1> HIDE DEF row
<1> QED BY <1>4, <1>5, <1>6, SinceTokens DEF e

-----------------------------------------------------------------------------
(* Counting boxes, burns and holders rewrites cached rows, and never moves *)
(* where a token was minted.                                               *)

Recounts(c, e) ==
    /\ Differ(c, e, {"tok"})
    /\ NewRows(c.d, e.tok) = NewRows(c.d, c.tok)
    /\ \A t \in NewRows(c.d, c.tok) :
          /\ DOMAIN e.tok[t] = DOMAIN c.tok[t]
          /\ "mintGidx" \in DOMAIN c.tok[t] => e.tok[t].mintGidx = c.tok[t].mintGidx

LEMMA RecountsSame ==
    ASSUME NEW c
    PROVE  Recounts(c, c)
BY DEF Recounts, Differ

LEMMA RecountsKeepsShape ==
    ASSUME NEW c, NEW e, Shaped(c), Recounts(c, e)
    PROVE  Shaped(e) /\ e.d = c.d /\ e.undo = c.undo /\ e.corrupt = c.corrupt /\ e.hold = c.hold
           /\ e.h = c.h /\ e.bal = c.bal /\ e.tmpl = c.tmpl
BY DEF Shaped, Recounts, Differ, CtxKeys

LEMMA RecountsTrans ==
    ASSUME NEW c, NEW e, NEW f, Shaped(c), Recounts(c, e), Recounts(e, f)
    PROVE  Recounts(c, f)
<1>1. e.d = c.d
    BY RecountsKeepsShape
<1> QED BY <1>1 DEF Recounts, Differ

LEMMA NewRowStep ==
    ASSUME NEW c, Shaped(c), NEW token, TokenKnown(c, token), NEW row,
           token \in DOMAIN c.tok =>
                /\ DOMAIN row = DOMAIN c.tok[token]
                /\ "mintGidx" \in DOMAIN row => row.mintGidx = c.tok[token].mintGidx
    PROVE  Recounts(c, [c EXCEPT !.tok = Put(@, token, row)])
<1> DEFINE rows == Put(c.tok, token, row)
           e == [c EXCEPT !.tok = rows]
<1>1. /\ DOMAIN rows = DOMAIN c.tok \cup {token} /\ rows[token] = row
      /\ \A t \in DOMAIN c.tok : t # token => rows[t] = c.tok[t]
    BY DEF Put
<1> HIDE DEF rows
<1>2. Differ(c, e, {"tok"}) /\ e.tok = rows
    BY DEF Differ, Shaped, CtxKeys
<1>3. token \in DOMAIN c.tok \/ token \in DOMAIN c.d.tokens
    BY DEF TokenKnown
<1> HIDE DEF e
<1>4. Recounts(c, e)
    BY <1>1, <1>2, <1>3 DEF Recounts, NewRows
<1> QED BY <1>4 DEF e, rows

LEMMA RowIs ==
    ASSUME NEW c, NEW token \in DOMAIN c.tok
    PROVE  TokenRow(c, token) = c.tok[token]
BY DEF TokenRow, Lookup

LEMMA CountBoxRecounts ==
    ASSUME NEW c, Shaped(c), NEW token
    PROVE  Recounts(c, CountBox(c, token))
<1> DEFINE row == [TokenRow(c, token) EXCEPT !.boxCount = @ + 1]
           e == [c EXCEPT !.tok = Put(@, token, row)]
<1>1. CASE TokenKnown(c, token)
    <2>1. token \in DOMAIN c.tok =>
                /\ DOMAIN row = DOMAIN c.tok[token]
                /\ "mintGidx" \in DOMAIN row => row.mintGidx = c.tok[token].mintGidx
        BY RowIs
    <2> HIDE DEF row
    <2>2. Recounts(c, e)
        BY <1>1, <2>1, NewRowStep
    <2> QED BY <1>1, <2>2, Zenon DEF CountBox, WithTokenRow, row
<1>2. CASE ~ TokenKnown(c, token)
    BY <1>2, RecountsSame DEF CountBox, WithTokenRow
<1> QED BY <1>1, <1>2

LEMMA AddBurnedRecounts ==
    ASSUME NEW c, Shaped(c), NEW token, NEW amount
    PROVE  Recounts(c, AddBurned(c, token, amount))
<1> DEFINE row == [TokenRow(c, token) EXCEPT !.burned = @ + amount]
           e == [c EXCEPT !.tok = Put(@, token, row)]
<1>1. CASE TokenKnown(c, token)
    <2>1. token \in DOMAIN c.tok =>
                /\ DOMAIN row = DOMAIN c.tok[token]
                /\ "mintGidx" \in DOMAIN row => row.mintGidx = c.tok[token].mintGidx
        BY RowIs
    <2> HIDE DEF row
    <2>2. Recounts(c, e)
        BY <1>1, <2>1, NewRowStep
    <2> QED BY <1>1, <2>2, Zenon DEF AddBurned, WithTokenRow, row
<1>2. CASE ~ TokenKnown(c, token)
    BY <1>2, RecountsSame DEF AddBurned, WithTokenRow
<1> QED BY <1>1, <1>2

LEMMA MoveHoldersRecounts ==
    ASSUME NEW c, Shaped(c), NEW token, NEW delta
    PROVE  Recounts(c, MoveHolders(c, token, delta))
<1> DEFINE row == [TokenRow(c, token) EXCEPT !.holderCount = @ + delta]
           e == [c EXCEPT !.tok = Put(@, token, row)]
<1>1. CASE TokenKnown(c, token)
    <2>1. token \in DOMAIN c.tok =>
                /\ DOMAIN row = DOMAIN c.tok[token]
                /\ "mintGidx" \in DOMAIN row => row.mintGidx = c.tok[token].mintGidx
        BY RowIs
    <2> HIDE DEF row
    <2>2. Recounts(c, e)
        BY <1>1, <2>1, NewRowStep
    <2> QED BY <1>1, <2>2, Zenon DEF MoveHolders, WithTokenRow, row
<1>2. CASE ~ TokenKnown(c, token)
    BY <1>2, RecountsSame DEF MoveHolders, WithTokenRow
<1> QED BY <1>1, <1>2

LEMMA SinceRecounts ==
    ASSUME NEW d, NEW c, NEW e, NEW p, Shaped(c), Since(d, c, p), Recounts(c, e)
    PROVE  Since(d, e, p)
<1>1. e.d = c.d /\ e.undo = c.undo /\ e.hold = c.hold
    BY RecountsKeepsShape
<1>2. d.tokens = c.d.tokens /\ MintSince(d, c.d, c.tok)
    BY DEF Since, Kept
<1>3. NewRows(d, e.tok) = NewRows(d, c.tok)
      /\ \A t \in NewRows(d, c.tok) : /\ "mintGidx" \in DOMAIN e.tok[t]
                                      /\ e.tok[t].mintGidx = c.tok[t].mintGidx
    BY <1>2 DEF Recounts, NewRows, MintSince
<1>4. MintSince(d, e.d, e.tok)
    BY <1>1, <1>2, <1>3 DEF MintSince
<1> QED BY <1>1, <1>4 DEF Since

(* Their loops. *)
RecountsFrom(p, q, base, n, acc) == Recounts(base, acc)

LOCAL Counts == INSTANCE FoldTheory WITH
    Op <- LAMBDA p, q, acc, t : CountBox(acc, t), Inv <- RecountsFrom
LOCAL Burns == INSTANCE FoldTheory WITH
    Op <- LAMBDA p, q, acc, t : AddBurned(acc, t, Burnt(p, q, t)), Inv <- RecountsFrom

LEMMA CountsRecount ==
    ASSUME NEW c, Shaped(c), NEW S, IsFiniteSet(S)
    PROVE  Recounts(c, FoldSet(LAMBDA t, acc : CountBox(acc, t), c, S))
<1> DEFINE out == Counts!OverSet(0, 0, c, S)
<1>1. FoldSet(LAMBDA t, acc : CountBox(acc, t), c, S) = out
    BY DEF FoldSet, MapThenFoldSet, Counts!OverSet, Counts!SetFold
<1>2. RecountsFrom(0, 0, c, 0, c)
    BY RecountsSame DEF RecountsFrom
<1>3. \A x \in S : \A acc : RecountsFrom(0, 0, c, 0, acc) =>
            RecountsFrom(0, 0, c, 0, CountBox(acc, x))
    BY RecountsKeepsShape, CountBoxRecounts, RecountsTrans DEF RecountsFrom
<1>4. Counts!Finite(S)
    BY DEF IsFiniteSet, Counts!Finite
<1>5. RecountsFrom(0, 0, c, 0, out)
    BY <1>2, <1>3, <1>4, LeastNatural, Counts!SetValue
<1> HIDE DEF out
<1> QED BY <1>1, <1>5, Zenon DEF RecountsFrom

(* The token rules of a transaction keep the block in progress, unless     *)
(* they refuse it.                                                         *)
Settles(d, c, e, p) ==
    /\ Since(d, e, p) /\ Shaped(e) /\ e.undo = c.undo /\ e.corrupt = c.corrupt
    /\ e.d.boxes = c.d.boxes /\ e.d.nextBox = c.d.nextBox /\ e.d.nextTx = c.d.nextTx

LEMMA SettlesTrans ==
    ASSUME NEW d, NEW c, NEW e, NEW f, NEW p, NEW q, Settles(d, c, e, p), Settles(d, e, f, q)
    PROVE  Settles(d, c, f, q)
BY DEF Settles

LEMMA SettlesRecounts ==
    ASSUME NEW d, NEW c, NEW e, NEW f, NEW p, Settles(d, c, e, p), Recounts(e, f)
    PROVE  Settles(d, c, f, p)
<1>1. Since(d, f, p)
    BY SinceRecounts DEF Settles
<1>2. Shaped(f) /\ f.d = e.d /\ f.undo = e.undo /\ f.corrupt = e.corrupt
    BY RecountsKeepsShape DEF Settles
<1> QED BY <1>1, <1>2 DEF Settles

LEMMA TokensOnOutputSince ==
    ASSUME NEW d, NEW c, NEW p, Ready(d), Shaped(c), Since(d, c, p), NEW o, NEW gidx, NEW tx,
           o.id \in c.undo.createdBoxes, c.d.boxes[o.id] = RowOf(gidx, o, tx),
           IsFiniteSet(BagToSet(o.tokens))
    PROVE  LET e == TokensOnOutput(c, gidx, o)
           IN  e.corrupt \/ Settles(d, c, e, p \ {o.id})
<1> DEFINE S == BagToSet(o.tokens)
           h == HoldTokens(c, gidx, o)
           f == FoldSet(LAMBDA t, acc : CountBox(acc, t), h, S)
           e == TokensOnOutput(c, gidx, o)
<1>1. CASE \E t \in S : TokenRowRefused(c, t)
    <2>1. e = Corrupt(c)
        BY <1>1, Zenon DEF TokensOnOutput
    <2> QED BY <2>1, CorruptSays
<1>2. CASE ~ \E t \in S : TokenRowRefused(c, t)
    <2>1. e = f
        BY <1>2, Zenon DEF TokensOnOutput
    <2>2. Settles(d, c, h, p \ {o.id})
        BY HoldTokensSince DEF Settles
    <2> HIDE DEF h, S, e
    <2>3. Recounts(h, f)
        BY <2>2, CountsRecount, Zenon DEF Settles, S
    <2> HIDE DEF f
    <2>4. Settles(d, c, f, p \ {o.id})
        BY <2>2, <2>3, SettlesRecounts
    <2> QED BY <2>1, <2>4 DEF e
<1> QED BY <1>1, <1>2

(* A block once refused stays refused.                                     *)
LEMMA TokensOnSpendSticks ==
    ASSUME NEW c, Shaped(c), c.corrupt, NEW row
    PROVE  TokensOnSpend(c, row).corrupt
<1>1. \A f, g : [c EXCEPT !.d.tokenUnspent = f, !.hold = g].corrupt
    BY DEF Shaped, CtxKeys
<1>2. Corrupt(c).corrupt
    BY CorruptSays
<1> QED BY <1>1, <1>2, Zenon DEF TokensOnSpend

LEMMA TokensOnOutputSticks ==
    ASSUME NEW c, Shaped(c), c.corrupt, NEW gidx, NEW o, IsFiniteSet(BagToSet(o.tokens))
    PROVE  TokensOnOutput(c, gidx, o).corrupt
<1> DEFINE S == BagToSet(o.tokens)
           h == HoldTokens(c, gidx, o)
           f == FoldSet(LAMBDA t, acc : CountBox(acc, t), h, S)
<1>1. \A i, j, k : /\ [c EXCEPT !.d.tokenBoxes = i, !.d.tokenUnspent = j, !.hold = k].corrupt
                   /\ Shaped([c EXCEPT !.d.tokenBoxes = i, !.d.tokenUnspent = j, !.hold = k])
    BY DEF Shaped, CtxKeys, TableKeys
<1>2. h.corrupt /\ Shaped(h)
    BY <1>1, Zenon DEF HoldTokens
<1> HIDE DEF h, S
<1>3. Recounts(h, f)
    BY <1>2, CountsRecount, Zenon DEF S
<1>4. f.corrupt
    <2> HIDE DEF f
    <2> QED BY <1>2, <1>3, RecountsKeepsShape
<1>5. Corrupt(c).corrupt
    BY CorruptSays
<1> HIDE DEF f
<1> QED BY <1>4, <1>5, Zenon DEF TokensOnOutput, f, h, S

LEMMA BurningFinite ==
    ASSUME NEW inputs, NEW n \in Nat, DOMAIN inputs = 1..n, FiniteTokens(inputs),
           NEW S \in SUBSET UNION {BagToSet(inputs[i].tokens) : i \in DOMAIN inputs}
    PROVE  IsFiniteSet(S)
<1> DEFINE held == [i \in 1..n |-> BagToSet(inputs[i].tokens)]
           U == {held[i] : i \in 1..n}
<1>1. IsFiniteSet(U)
    <2>1. IsFiniteSet(1..n) /\ DOMAIN held = 1..n
        BY FS_Interval
    <2> HIDE DEF held
    <2> QED BY <2>1, ImageFinite
<1>2. \A s \in U : IsFiniteSet(s)
    BY DEF FiniteTokens
<1>3. S \in SUBSET UNION U
    OBVIOUS
<1> HIDE DEF U
<1> QED BY <1>1, <1>2, <1>3, FS_UNION, FS_Subset

LEMMA OnBurnRecounts ==
    ASSUME NEW c, Shaped(c), NEW inputs, NEW outputs, NEW n \in Nat, DOMAIN inputs = 1..n,
           FiniteTokens(inputs)
    PROVE  LET e == OnBurn(c, inputs, outputs)
           IN  e.corrupt \/ Recounts(c, e)
<1> DEFINE S == {t \in UNION {BagToSet(inputs[i].tokens) : i \in DOMAIN inputs} :
                    Burnt(inputs, outputs, t) > 0}
           out == Burns!OverSet(inputs, outputs, c, S)
           f == FoldSet(LAMBDA t, acc : AddBurned(acc, t, Burnt(inputs, outputs, t)), c, S)
           e == OnBurn(c, inputs, outputs)
<1>1. f = out
    BY DEF FoldSet, MapThenFoldSet, Burns!OverSet, Burns!SetFold
<1>2. IsFiniteSet(S)
    <2>1. S \in SUBSET UNION {BagToSet(inputs[i].tokens) : i \in DOMAIN inputs}
        OBVIOUS
    <2> HIDE DEF S
    <2> QED BY <2>1, BurningFinite
<1>3. Burns!Finite(S)
    BY <1>2 DEF IsFiniteSet, Burns!Finite
<1>4. CASE \E t \in S : TokenRowRefused(c, t)
    <2>1. e = Corrupt(c)
        BY <1>4, Zenon DEF OnBurn
    <2> QED BY <2>1, CorruptSays
<1>5. CASE ~ \E t \in S : TokenRowRefused(c, t)
    <2>1. e = f
        BY <1>5, Zenon DEF OnBurn
    <2> HIDE DEF S, e, f
    <2>2. RecountsFrom(inputs, outputs, c, 0, c)
        BY RecountsSame DEF RecountsFrom
    <2>3. \A x \in S : \A acc : RecountsFrom(inputs, outputs, c, 0, acc) =>
            RecountsFrom(inputs, outputs, c, 0, AddBurned(acc, x, Burnt(inputs, outputs, x)))
        BY RecountsKeepsShape, AddBurnedRecounts, RecountsTrans DEF RecountsFrom
    <2>4. RecountsFrom(inputs, outputs, c, 0, out)
        BY <1>3, <2>2, <2>3, LeastNatural, Burns!SetValue
    <2> HIDE DEF out
    <2> QED BY <1>1, <2>1, <2>4 DEF RecountsFrom, e
<1> QED BY <1>4, <1>5

(* The two loops over boxes.                                               *)
Given(c, rows) == FoldLeft(LAMBDA acc, row : TokensOnSpend(acc, row), c, rows)

Taken(c, first, boxes) ==
    FoldLeftDomain(LAMBDA acc, i : TokensOnOutput(acc, first + i - 1, boxes[i]), c, boxes)

(* Inv of the loop over the rows of the inputs.                            *)
SettlesInputs(p, q, base, n, acc) ==
    Good(acc) /\ (acc.corrupt \/ Settles(q.d, base, acc, q.pending))

LOCAL Emptying == INSTANCE FoldTheory WITH
    Op <- LAMBDA p, q, acc, row : TokensOnSpend(acc, row), Inv <- SettlesInputs

LEMMA GivingSince ==
    ASSUME NEW d, NEW c, NEW p, Ready(d), Good(c), Since(d, c, p), NEW n \in Nat, NEW rows,
           DOMAIN rows = 1..n, FiniteTokens(rows),
           \A i \in 1..n : IsFiniteSet(DOMAIN rows[i].tokens),
           \A i \in 1..n : \E id \in c.undo.spentBoxes : rows[i] = c.d.boxes[id]
    PROVE  LET e == Given(c, rows)
           IN  Good(e) /\ (e.corrupt \/ Settles(d, c, e, p))
<1> DEFINE q == [d |-> d, pending |-> p]
           out == Emptying!Left(0, q, c, rows)
           e == Given(c, rows)
<1>1. e = out
    BY DEF Given, FoldLeft, MapThenFoldSet, Max, Emptying!Left, Emptying!LeftFold, Emptying!Greatest
<1>2. \A k, acc : SettlesInputs(0, q, c, k, acc) <=>
            Good(acc) /\ (acc.corrupt \/ Settles(d, c, acc, p))
    BY DEF SettlesInputs
<1> HIDE DEF q, e
<1>3. SettlesInputs(0, q, c, 0, c)
    <2>1. Shaped(c)
        BY GoodShape
    <2> QED BY <1>2, <2>1 DEF Settles
<1>4. ASSUME NEW i \in 1..n, NEW acc, SettlesInputs(0, q, c, i - 1, acc)
      PROVE  SettlesInputs(0, q, c, i, TokensOnSpend(acc, rows[i]))
    <2> DEFINE f == TokensOnSpend(acc, rows[i])
    <2>1. Good(acc) /\ Shaped(acc) /\ (acc.corrupt \/ Settles(d, c, acc, p))
        BY <1>2, <1>4, GoodShape
    <2>2. Good(f)
        BY <2>1, TokensOnSpendQuiet, QuietGood
    <2>3. CASE acc.corrupt
        BY <1>2, <2>1, <2>2, <2>3, TokensOnSpendSticks
    <2>4. CASE ~ f.corrupt /\ ~ acc.corrupt
        <3>1. PICK id \in c.undo.spentBoxes : rows[i] = c.d.boxes[id]
            OBVIOUS
        <3>2. Since(d, acc, p) /\ acc.undo = c.undo /\ acc.d.boxes = c.d.boxes
            BY <2>1, <2>4 DEF Settles
        <3>3. Settles(d, acc, f, p)
            BY <2>1, <2>4, <3>1, <3>2, TokensOnSpendSince DEF Settles
        <3> HIDE DEF f
        <3>4. Settles(d, c, f, p)
            BY <2>1, <2>4, <3>3, SettlesTrans
        <3>5. SettlesInputs(0, q, c, i, f)
            BY <1>2, <2>2, <3>4
        <3> QED BY <3>5 DEF f
    <2>5. CASE f.corrupt
        BY <1>2, <2>2, <2>5
    <2> QED BY <2>3, <2>4, <2>5
<1>5. SettlesInputs(0, q, c, Len(rows), out)
    <2>1. Len(rows) = n
        BY FunctionLength
    <2> QED BY <1>3, <1>4, <2>1, LeastNatural, Emptying!LeftValue
<1> HIDE DEF out
<1>6. Good(e) /\ (e.corrupt \/ Settles(d, c, e, p))
    BY <1>1, <1>2, <1>5
<1> QED BY <1>6 DEF e

(* Inv of the loop over the outputs: the first n have their token keys.    *)
SettlesOutputs(p, q, base, n, acc) ==
    Good(acc) /\ (acc.corrupt \/ Settles(q.d, base, acc, q.pending \ IdsOf(q.boxes, n)))

LOCAL Filling == INSTANCE FoldTheory WITH
    Op <- LAMBDA p, q, acc, i : TokensOnOutput(acc, p + i - 1, q.boxes[i]),
    Inv <- SettlesOutputs

LEMMA TakingSince ==
    ASSUME NEW d, NEW c, NEW p, Ready(d), Good(c), Since(d, c, p), NEW m \in Nat, NEW boxes,
           DOMAIN boxes = 1..m, FiniteTokens(boxes), NEW first, NEW tx,
           \A i \in 1..m : /\ boxes[i].id \in c.undo.createdBoxes
                           /\ c.d.boxes[boxes[i].id] = RowOf(first + i - 1, boxes[i], tx)
    PROVE  LET e == Taken(c, first, boxes)
           IN  Good(e) /\ (e.corrupt \/ Settles(d, c, e, p \ IdsOf(boxes, m)))
<1> DEFINE q == [d |-> d, pending |-> p, boxes |-> boxes]
           places == [i \in DOMAIN boxes |-> i]
           out == Filling!Left(first, q, c, places)
           e == Taken(c, first, boxes)
<1>1. e = out
    BY DEF Taken, FoldLeftDomain, FoldLeft, MapThenFoldSet, Max, Filling!Left, Filling!LeftFold,
           Filling!Greatest
<1>2. /\ \A k, acc : SettlesOutputs(first, q, c, k, acc) <=>
            Good(acc) /\ (acc.corrupt \/ Settles(d, c, acc, p \ IdsOf(boxes, k)))
      /\ q.boxes = boxes
    BY DEF SettlesOutputs
<1> HIDE DEF q, e
<1>3. SettlesOutputs(first, q, c, 0, c)
    <2>1. Shaped(c) /\ p \ IdsOf(boxes, 0) = p
        BY GoodShape, NoIds
    <2> QED BY <1>2, <2>1 DEF Settles
<1>4. ASSUME NEW i \in 1..m, NEW acc, SettlesOutputs(first, q, c, i - 1, acc)
      PROVE  SettlesOutputs(first, q, c, i, TokensOnOutput(acc, first + i - 1, boxes[i]))
    <2> DEFINE o == boxes[i]
               f == TokensOnOutput(acc, first + i - 1, o)
               left == p \ IdsOf(boxes, i - 1)
    <2>1. Good(acc) /\ Shaped(acc) /\ (acc.corrupt \/ Settles(d, c, acc, left))
        BY <1>2, <1>4, GoodShape
    <2>2. IsFiniteSet(BagToSet(o.tokens))
        BY DEF FiniteTokens
    <2>3. Good(f)
        BY <2>1, <2>2, TokensOnOutputQuiet, QuietGood
    <2>4. CASE acc.corrupt
        <3>1. f.corrupt
            BY <2>1, <2>2, <2>4, TokensOnOutputSticks
        <3> HIDE DEF f
        <3>2. SettlesOutputs(first, q, c, i, f)
            BY <1>2, <2>3, <3>1
        <3> QED BY <3>2 DEF f
    <2>5. CASE ~ acc.corrupt
        <3>1. Since(d, acc, left) /\ acc.undo = c.undo /\ acc.d.boxes = c.d.boxes
            BY <2>1, <2>5 DEF Settles
        <3>2. f.corrupt \/ Settles(d, acc, f, left \ {o.id})
            <4> HIDE DEF left
            <4> QED BY <2>1, <2>2, <3>1, TokensOnOutputSince
        <3>3. left \ {o.id} = p \ IdsOf(boxes, i)
            <4>1. IdsOf(boxes, i) = IdsOf(boxes, i - 1) \cup {boxes[i].id}
                BY NextIds
            <4> QED BY <4>1
        <3> HIDE DEF f, left
        <3>4. f.corrupt \/ Settles(d, c, f, p \ IdsOf(boxes, i))
            BY <2>1, <2>5, <3>2, <3>3, SettlesTrans
        <3>5. SettlesOutputs(first, q, c, i, f)
            BY <1>2, <2>3, <3>4
        <3> QED BY <3>5 DEF f
    <2> QED BY <2>4, <2>5
<1>5. SettlesOutputs(first, q, c, Len(places), out) /\ Len(places) = m
    <2>1. Len(places) = m /\ DOMAIN places = 1..m /\ \A i \in 1..m : places[i] = i
        BY FunctionLength
    <2> HIDE DEF places
    <2>2. \A i \in 1..m : \A acc : SettlesOutputs(first, q, c, i - 1, acc) =>
            SettlesOutputs(first, q, c, i,
                           TokensOnOutput(acc, first + places[i] - 1, q.boxes[places[i]]))
        BY <1>2, <1>4, <2>1
    <2> QED BY <1>3, <2>1, <2>2, LeastNatural, Filling!LeftValue
<1> HIDE DEF out, places
<1>6. Good(e) /\ (e.corrupt \/ Settles(d, c, e, p \ IdsOf(boxes, m)))
    BY <1>1, <1>2, <1>5
<1> QED BY <1>6 DEF e

LEMMA OnBurnSticks ==
    ASSUME NEW c, Shaped(c), c.corrupt, NEW inputs, NEW outputs, NEW n \in Nat,
           DOMAIN inputs = 1..n, FiniteTokens(inputs)
    PROVE  OnBurn(c, inputs, outputs).corrupt
<1> DEFINE e == OnBurn(c, inputs, outputs)
<1>1. e.corrupt \/ Recounts(c, e)
    BY OnBurnRecounts
<1> HIDE DEF e
<1>2. e.corrupt
    BY <1>1, RecountsKeepsShape
<1> QED BY <1>2 DEF e

(* The loop over outputs, begun on a refused block.                        *)
StaysRefused(p, q, base, n, acc) == Good(acc) /\ acc.corrupt

LOCAL Barring == INSTANCE FoldTheory WITH
    Op <- LAMBDA p, q, acc, i : TokensOnOutput(acc, p + i - 1, q[i]), Inv <- StaysRefused

LEMMA TakingSticks ==
    ASSUME NEW c, Good(c), c.corrupt, NEW m \in Nat, NEW boxes, DOMAIN boxes = 1..m,
           FiniteTokens(boxes), NEW first
    PROVE  LET e == Taken(c, first, boxes)
           IN  Good(e) /\ e.corrupt
<1> DEFINE places == [i \in DOMAIN boxes |-> i]
           out == Barring!Left(first, boxes, c, places)
           e == Taken(c, first, boxes)
<1>1. e = out
    BY DEF Taken, FoldLeftDomain, FoldLeft, MapThenFoldSet, Max, Barring!Left, Barring!LeftFold,
           Barring!Greatest
<1>2. StaysRefused(first, boxes, c, 0, c)
    BY DEF StaysRefused
<1>3. ASSUME NEW i \in 1..m, NEW acc, StaysRefused(first, boxes, c, i - 1, acc)
      PROVE  StaysRefused(first, boxes, c, i, TokensOnOutput(acc, first + i - 1, boxes[i]))
    BY <1>3, GoodShape, TokensOnOutputQuiet, QuietGood, TokensOnOutputSticks
       DEF StaysRefused, FiniteTokens
<1>4. StaysRefused(first, boxes, c, Len(places), out)
    <2>1. Len(places) = m /\ DOMAIN places = 1..m /\ \A i \in 1..m : places[i] = i
        BY FunctionLength
    <2> HIDE DEF places
    <2>2. \A i \in 1..m : \A acc : StaysRefused(first, boxes, c, i - 1, acc) =>
            StaysRefused(first, boxes, c, i,
                         TokensOnOutput(acc, first + places[i] - 1, boxes[places[i]]))
        BY <1>3, <2>1
    <2> QED BY <1>2, <2>1, <2>2, LeastNatural, Barring!LeftValue
<1> HIDE DEF out, places, e
<1>5. Good(e) /\ e.corrupt
    BY <1>1, <1>4 DEF StaysRefused
<1> QED BY <1>5 DEF e

LEMMA TokensApplyTxSince ==
    ASSUME NEW d, NEW c, Ready(d), Good(c), NEW tx, NEW m \in Nat, DOMAIN tx.outputs = 1..m,
           FiniteTokens(tx.outputs), Since(d, c, IdsOf(tx.outputs, m)),
           NEW first \in Nat, d.nextBox <= first, c.d.nextBox = first + m,
           \A i \in 1..m : /\ tx.outputs[i].id \in c.undo.createdBoxes
                           /\ c.d.boxes[tx.outputs[i].id] = RowOf(first + i - 1, tx.outputs[i], tx.id),
           NEW n \in Nat, NEW rows, DOMAIN rows = 1..n, FiniteTokens(rows),
           \A i \in 1..n : IsFiniteSet(DOMAIN rows[i].tokens),
           \A i \in 1..n : \E id \in c.undo.spentBoxes : rows[i] = c.d.boxes[id]
    PROVE  LET e == TokensApplyTx(c, tx, rows, first)
           IN  Good(e) /\ (e.corrupt \/ Settles(d, c, e, {}))
<1> DEFINE all == IdsOf(tx.outputs, m)
           minted == OnMint(c, tx, first)
           spent == Given(minted, rows)
           made == Taken(spent, first, tx.outputs)
           e == OnBurn(made, rows, tx.outputs)
<1>1. TokensApplyTx(c, tx, rows, first) = e
    BY Zenon DEF TokensApplyTx, Given, Taken
<1>2. Good(minted) /\ Settles(d, c, minted, all)
    <2>1. Good(minted)
        BY OnMintQuiet, QuietGood
    <2>2. Settles(d, c, minted, all)
        BY GoodShape, OnMintSince DEF Settles
    <2> QED BY <2>1, <2>2
<1> HIDE DEF minted, all
<1>3. Good(spent) /\ (spent.corrupt \/ Settles(d, minted, spent, all))
    <2>1. Since(d, minted, all) /\ minted.undo = c.undo /\ minted.d.boxes = c.d.boxes
        BY <1>2 DEF Settles
    <2>2. \A i \in 1..n : \E id \in minted.undo.spentBoxes : rows[i] = minted.d.boxes[id]
        BY <2>1
    <2> HIDE DEF spent
    <2>3. Good(Given(minted, rows))
          /\ (Given(minted, rows).corrupt \/ Settles(d, minted, Given(minted, rows), all))
        BY <1>2, <2>1, <2>2, GivingSince
    <2> QED BY <2>3 DEF spent
<1>4. spent.corrupt \/ Settles(d, c, spent, all)
    BY <1>2, <1>3, SettlesTrans
<1> HIDE DEF spent
<1>5. CASE spent.corrupt
    <2>1. Good(e) /\ e.corrupt
        <3>1. Good(made) /\ made.corrupt
            BY <1>3, <1>5, TakingSticks
        <3> HIDE DEF made
        <3> QED BY <3>1, GoodShape, OnBurnQuiet, QuietGood, OnBurnSticks
    <2> HIDE DEF e
    <2> QED BY <1>1, <2>1
<1>6. CASE ~ spent.corrupt
    <2>1. Settles(d, c, spent, all)
        BY <1>4, <1>6
    <2>2. Good(made) /\ (made.corrupt \/ Settles(d, spent, made, all \ all))
        <3>1. Since(d, spent, all) /\ spent.undo = c.undo /\ spent.d.boxes = c.d.boxes
            BY <2>1 DEF Settles
        <3>2. \A i \in 1..m :
                /\ tx.outputs[i].id \in spent.undo.createdBoxes
                /\ spent.d.boxes[tx.outputs[i].id] = RowOf(first + i - 1, tx.outputs[i], tx.id)
            BY <3>1
        <3> HIDE DEF made
        <3>3. LET t == Taken(spent, first, tx.outputs)
              IN  Good(t) /\ (t.corrupt \/ Settles(d, spent, t, all \ IdsOf(tx.outputs, m)))
            BY <1>3, <3>1, <3>2, TakingSince
        <3> QED BY <3>3 DEF made, all
    <2> HIDE DEF made
    <2>3. all \ all = {}
        OBVIOUS
    <2>4. made.corrupt \/ Settles(d, c, made, {})
        BY <2>1, <2>2, <2>3, SettlesTrans, Zenon
    <2> HIDE DEF made
    <2>5. Good(e)
        BY <2>2, OnBurnQuiet, QuietGood
    <2>6. CASE made.corrupt
        BY <1>1, <2>2, <2>5, <2>6, GoodShape, OnBurnSticks
    <2>7. CASE ~ made.corrupt
        <3>1. e.corrupt \/ Recounts(made, e)
            BY <2>2, GoodShape, OnBurnRecounts
        <3> HIDE DEF e
        <3>2. e.corrupt \/ Settles(d, c, e, {})
            BY <2>4, <2>7, <3>1, SettlesRecounts
        <3> QED BY <1>1, <2>5, <3>2
    <2> QED BY <2>6, <2>7
<1> QED BY <1>5, <1>6

-----------------------------------------------------------------------------
(* The transaction tables.                                                 *)

LEMMA SinceTxs ==
    ASSUME NEW d, NEW c, NEW e, NEW p, Ready(d), Shaped(c), Since(d, c, p),
           Differ(c.d, e.d, {"txs", "txByGidx", "treeTxs", "nextTx"}),
           Differ(c.undo, e.undo, {"txIds", "treeTxs"}), e.tok = c.tok, e.hold = c.hold,
           TxOK(e.d), TxSince(d, e.d, e.undo.txIds, e.undo.treeTxs)
    PROVE  Since(d, e, p)
<1>1. {"txs", "txByGidx", "treeTxs", "nextTx"} \cap BoxKeys = {}
    BY DEF BoxKeys
<1>2. /\ e.d.boxes = c.d.boxes /\ SameNumbers(c.d, e.d) /\ e.d.ergoTrees = c.d.ergoTrees
      /\ \A kind : Open(kind, e.d) = Open(kind, c.d) /\ Every(kind, e.d) = Every(kind, c.d)
    BY <1>1, BoxesUntouched DEF Shaped
<1>3. BoxOK(e.d, p) /\ BoxSince(d, e.d, c.undo)
    BY <1>2, RentOpen, SameBoxFacts DEF Since
<1>4. /\ e.undo.createdBoxes = c.undo.createdBoxes /\ e.undo.spentBoxes = c.undo.spentBoxes
      /\ e.undo.registerKeys = c.undo.registerKeys /\ e.undo.newTrees = c.undo.newTrees
    BY DEF Differ, Shaped, UndoKeys
<1>5. BoxSince(d, e.d, e.undo)
    BY <1>3, <1>4 DEF BoxSince
<1>6. \A x \in TableKeys \ {"txs", "txByGidx", "treeTxs", "nextTx"} : e.d[x] = c.d[x]
    BY DEF Differ, Shaped
<1>7. Kept(c.d, e.d)
    <2>1. /\ e.d.headers = c.d.headers /\ e.d.headerById = c.d.headerById
          /\ e.d.undo = c.d.undo
          /\ e.d.genesisSeeded = c.d.genesisSeeded /\ e.d.genesisToken = c.d.genesisToken
          /\ e.d.emissionTree = c.d.emissionTree
        BY <1>6 DEF TableKeys
    <2>2. /\ e.d.treeBalance = c.d.treeBalance /\ e.d.rich = c.d.rich
          /\ e.d.templates = c.d.templates
          /\ e.d.tokens = c.d.tokens /\ e.d.tokensByHolders = c.d.tokensByHolders
          /\ e.d.tokenHolders = c.d.tokenHolders /\ e.d.tokenHolderAmt = c.d.tokenHolderAmt
        BY <1>6 DEF TableKeys
    <2> QED BY <2>1, <2>2 DEF Kept
<1>8. Kept(d, e.d)
    BY <1>7 DEF Since, Kept
<1>9. TreesSince(d, e.d, e.undo.newTrees)
    BY <1>2, <1>4 DEF Since, TreesSince
<1>10. e.d.tokensByGidx = c.d.tokensByGidx /\ e.d.nextBox = c.d.nextBox
    BY <1>6 DEF TableKeys
<1>11. MintOK(e.d) /\ MintSince(d, e.d, e.tok)
    BY <1>10 DEF Since, MintOK, MintSince
<1>12. IsAmounts(e.hold)
    BY DEF Since
<1> QED BY <1>3, <1>5, <1>8, <1>9, <1>11, <1>12 DEF Since

NextTx(c) == [c EXCEPT !.d.nextTx = @ + 1]

LEMMA NextTxSince ==
    ASSUME NEW d, NEW c, NEW p, Ready(d), Shaped(c), Since(d, c, p)
    PROVE  LET e == NextTx(c)
           IN  /\ Since(d, e, p) /\ Shaped(e) /\ e.undo = c.undo /\ e.corrupt = c.corrupt
               /\ e.d.boxes = c.d.boxes /\ e.d.nextBox = c.d.nextBox /\ e.d.txs = c.d.txs
               /\ c.d.nextTx \in Nat /\ d.nextTx <= c.d.nextTx
               /\ e.d.nextTx = c.d.nextTx + 1
<1> DEFINE e == NextTx(c)
<1>1. /\ Differ(c, e, {"d"}) /\ Differ(c.d, e.d, {"nextTx"}) /\ e.d.nextTx = c.d.nextTx + 1
    BY DEF NextTx, Differ, Shaped, CtxKeys, TableKeys
<1> HIDE DEF e
<1>2. Shaped(e) /\ e.undo = c.undo /\ e.corrupt = c.corrupt /\ e.tok = c.tok /\ e.hold = c.hold
    BY <1>1 DEF Differ, Shaped, CtxKeys
<1>3. /\ e.d.txs = c.d.txs /\ e.d.txByGidx = c.d.txByGidx /\ e.d.treeTxs = c.d.treeTxs
      /\ e.d.boxes = c.d.boxes /\ e.d.nextBox = c.d.nextBox
    BY <1>1 DEF Differ, Shaped, TableKeys
<1>4. c.d.nextTx \in Nat /\ d.nextTx \in Nat /\ d.nextTx <= c.d.nextTx
    BY DEF Since, TxOK, TxSince, Ready
<1>5. TxOK(e.d) /\ TxSince(d, e.d, e.undo.txIds, e.undo.treeTxs)
    BY <1>1, <1>2, <1>3, <1>4 DEF Since, TxOK, TxSince
<1>6. Differ(c.d, e.d, {"txs", "txByGidx", "treeTxs", "nextTx"})
      /\ Differ(c.undo, e.undo, {"txIds", "treeTxs"})
    BY <1>1, <1>2 DEF Differ
<1>7. Since(d, e, p)
    BY <1>2, <1>5, <1>6, SinceTxs
<1> QED BY <1>1, <1>2, <1>3, <1>4, <1>7 DEF e

LEMMA TouchTreesSince ==
    ASSUME NEW d, NEW c, NEW p, Ready(d), Shaped(c), Since(d, c, p), NEW trees,
           NEW gidx \in Nat, d.nextTx <= gidx, gidx < c.d.nextTx
    PROVE  LET e == TouchTrees(c, trees, gidx)
           IN  /\ Since(d, e, p) /\ Shaped(e) /\ e.corrupt = c.corrupt
               /\ e.d.txs = c.d.txs /\ e.d.nextTx = c.d.nextTx
<1> DEFINE keys == {<<t, gidx>> : t \in trees}
           bal == Over([t \in trees |-> [LoadBalance(c, t) EXCEPT !.txCount = @ + 1]], c.bal)
           e == [c EXCEPT !.d.treeTxs = @ \cup keys, !.undo.treeTxs = @ \cup keys, !.bal = bal]
           out == TouchTrees(c, trees, gidx)
<1>1. out = e
    BY Zenon DEF TouchTrees
<1>2. \A k \in keys : k[2] = gidx
    OBVIOUS
<1> HIDE DEF keys, bal, out
<1>3. /\ Differ(c, e, {"d", "bal", "undo"})
      /\ Differ(c.d, e.d, {"treeTxs"}) /\ e.d.treeTxs = c.d.treeTxs \cup keys
      /\ Differ(c.undo, e.undo, {"treeTxs"}) /\ e.undo.treeTxs = c.undo.treeTxs \cup keys
    BY Zenon DEF Differ, Shaped, CtxKeys, TableKeys, UndoKeys
<1> HIDE DEF e
<1>4. Shaped(e) /\ e.corrupt = c.corrupt /\ e.tok = c.tok /\ e.hold = c.hold
    BY <1>3 DEF Differ, Shaped, CtxKeys
<1>5. /\ e.d.txs = c.d.txs /\ e.d.txByGidx = c.d.txByGidx /\ e.d.nextTx = c.d.nextTx
      /\ e.undo.txIds = c.undo.txIds
    BY <1>3 DEF Differ, Shaped, TableKeys, UndoKeys
<1>6. TxOK(e.d)
    BY <1>2, <1>3, <1>5 DEF Since, TxOK
<1>7. TxSince(d, e.d, e.undo.txIds, e.undo.treeTxs)
    BY <1>2, <1>3, <1>5 DEF Since, TxSince, Shuffled
<1>8. Differ(c.d, e.d, {"txs", "txByGidx", "treeTxs", "nextTx"})
      /\ Differ(c.undo, e.undo, {"txIds", "treeTxs"})
    BY <1>3 DEF Differ
<1>9. Since(d, e, p)
    BY <1>4, <1>6, <1>7, <1>8, SinceTxs
<1> QED BY <1>1, <1>4, <1>5, <1>9 DEF out

LEMMA RecordTxSince ==
    ASSUME NEW d, NEW c, NEW p, Ready(d), Shaped(c), Since(d, c, p), NEW tx, NEW index,
           NEW gidx \in Nat, d.nextTx <= gidx, gidx < c.d.nextTx, NEW firstOut,
           tx.id \notin DOMAIN c.d.txs
    PROVE  LET e == RecordTx(c, tx, index, gidx, firstOut)
           IN  Since(d, e, p) /\ Shaped(e) /\ e.corrupt = c.corrupt
<1> DEFINE id == tx.id
           row == [height |-> c.h, index |-> index, gidx |-> gidx, firstOut |-> firstOut,
                   fee |-> FeeOf(tx), inputs |-> tx.inputs, outputCount |-> Len(tx.outputs)]
           rows == Put(c.d.txs, id, row)
           places == Put(c.d.txByGidx, gidx, id)
           e == [c EXCEPT !.d.txs = rows, !.d.txByGidx = places, !.undo.txIds = @ \cup {id}]
           out == RecordTx(c, tx, index, gidx, firstOut)
<1>1. out = e
    BY Zenon DEF RecordTx
<1>2. row.gidx = gidx
    OBVIOUS
<1> HIDE DEF row, out, id
<1>3. /\ IsTable(rows) /\ DOMAIN rows = DOMAIN c.d.txs \cup {id} /\ rows[id] = row
      /\ \A x \in DOMAIN c.d.txs : x # id => rows[x] = c.d.txs[x]
    BY DEF Put, IsTable
<1>4. /\ IsTable(places) /\ DOMAIN places = DOMAIN c.d.txByGidx \cup {gidx}
      /\ places[gidx] = id
      /\ \A g \in DOMAIN c.d.txByGidx : g # gidx => places[g] = c.d.txByGidx[g]
    BY DEF Put, IsTable
<1> HIDE DEF rows, places
<1>5. /\ Differ(c, e, {"d", "undo"})
      /\ Differ(c.d, e.d, {"txs", "txByGidx"}) /\ e.d.txs = rows /\ e.d.txByGidx = places
      /\ Differ(c.undo, e.undo, {"txIds"}) /\ e.undo.txIds = c.undo.txIds \cup {id}
    BY Zenon DEF Differ, Shaped, CtxKeys, TableKeys, UndoKeys
<1> HIDE DEF e
<1>6. Shaped(e) /\ e.corrupt = c.corrupt /\ e.tok = c.tok /\ e.hold = c.hold
    BY <1>5 DEF Differ, Shaped, CtxKeys
<1>7. /\ e.d.treeTxs = c.d.treeTxs /\ e.d.nextTx = c.d.nextTx /\ e.undo.treeTxs = c.undo.treeTxs
    BY <1>5 DEF Differ, Shaped, TableKeys, UndoKeys
<1>8. TxOK(e.d)
    BY <1>3, <1>4, <1>5, <1>7 DEF Since, TxOK
<1>9. TxSince(d, e.d, e.undo.txIds, e.undo.treeTxs)
    <2>1. TxSince(d, c.d, c.undo.txIds, c.undo.treeTxs) /\ TxOK(c.d) /\ TxOK(d)
        BY DEF Since, Ready
    <2>2. id \notin DOMAIN c.d.txs /\ DOMAIN c.d.txs = DOMAIN d.txs \cup c.undo.txIds
        BY <2>1 DEF TxSince, id
    <2>3. /\ e.undo.txIds \cap DOMAIN d.txs = {} /\ DOMAIN e.d.txs = DOMAIN d.txs \cup e.undo.txIds
          /\ \A x \in DOMAIN d.txs : e.d.txs[x] = d.txs[x]
          /\ \A x \in e.undo.txIds : d.nextTx <= e.d.txs[x].gidx
        BY <1>2, <1>3, <1>5, <2>1, <2>2 DEF TxSince
    <2>4. gidx \notin DOMAIN d.txByGidx
        BY <2>1 DEF TxOK
    <2>5. \A g \in DOMAIN d.txByGidx :
            g \in DOMAIN e.d.txByGidx /\ e.d.txByGidx[g] = d.txByGidx[g]
        BY <1>4, <1>5, <2>1, <2>4 DEF TxSince
    <2>6. ASSUME NEW g \in DOMAIN e.d.txByGidx, g \notin DOMAIN d.txByGidx
          PROVE  \E x \in e.undo.txIds : e.d.txs[x].gidx = g
        <3>1. CASE g = gidx
            BY <1>2, <1>3, <1>5, <3>1
        <3>2. CASE g # gidx
            <4>1. PICK x \in c.undo.txIds : c.d.txs[x].gidx = g
                BY <1>4, <1>5, <2>1, <2>6, <3>2 DEF TxSince
            <4> QED BY <1>3, <1>5, <2>2, <4>1
        <3> QED BY <3>1, <3>2
    <2> QED BY <1>7, <2>1, <2>3, <2>5, <2>6 DEF TxSince
<1>10. Differ(c.d, e.d, {"txs", "txByGidx", "treeTxs", "nextTx"})
      /\ Differ(c.undo, e.undo, {"txIds", "treeTxs"})
    BY <1>5 DEF Differ
<1>11. Since(d, e, p)
    BY <1>6, <1>8, <1>9, <1>10, SinceTxs
<1> QED BY <1>1, <1>6, <1>11 DEF out

-----------------------------------------------------------------------------
(* One transaction, and all those of a block.                              *)

LEMMA IndexTxSince ==
    ASSUME NEW d, NEW c, Ready(d), Good(c), ~ c.corrupt, Since(d, c, {}), NEW tx, NEW index,
           DOMAIN tx.inputs = 1..Len(tx.inputs), Len(tx.inputs) \in Nat,
           FiniteBoxes(tx.outputs), FreshBoxes(tx.outputs, c.d), tx.id \notin DOMAIN c.d.txs,
           \A k \in DOMAIN tx.inputs : tx.inputs[k] \in c.undo.spentBoxes
    PROVE  LET e == IndexTx(c, tx, index)
           IN  e.corrupt \/ Since(d, e, {})
<1> DEFINE gidx == c.d.nextTx
           firstOut == c.d.nextBox
           rows == [i \in DOMAIN tx.inputs |-> c.d.boxes[tx.inputs[i]]]
           trees == {b.tree : b \in Range(rows)} \cup {o.tree : o \in Range(tx.outputs)}
           c0 == NextTx(c)
           c1 == CreateOutputs(c0, tx)
           c2 == TokensApplyTx(c1, tx, rows, firstOut)
           c3 == TouchTrees(c2, trees, gidx)
           c4 == RecordTx(c3, tx, index, gidx, firstOut)
           n == Len(tx.inputs)
           m == Len(tx.outputs)
<1>0. IndexTx(c, tx, index) = c4
    BY Zenon DEF IndexTx, NextTx
<1>1. Shaped(c)
    BY GoodShape
<1>2. /\ Since(d, c0, {}) /\ Shaped(c0) /\ c0.undo = c.undo /\ c0.corrupt = c.corrupt
      /\ c0.d.boxes = c.d.boxes /\ c0.d.nextBox = c.d.nextBox /\ c0.d.txs = c.d.txs
      /\ gidx \in Nat /\ d.nextTx <= gidx /\ c0.d.nextTx = gidx + 1
    BY <1>1, NextTxSince
<1>3. Good(c0)
    <2>1. SameView(c, c0)
        BY DEF SameView, Good, CtxKeys, TableKeys, NextTx
    <2> HIDE DEF c0
    <2> QED BY <2>1, SameViewQuiet, QuietGood
<1>4. DOMAIN tx.outputs = 1..m /\ m \in Nat /\ FiniteTokens(tx.outputs)
    BY BoxList
<1>5. /\ DOMAIN rows = 1..n /\ FiniteTokens(rows) /\ n \in Nat
      /\ \A i \in 1..n : IsFiniteSet(DOMAIN rows[i].tokens)
      /\ \A i \in 1..n : rows[i] = c.d.boxes[tx.inputs[i]]
    <2>1. c.undo.spentBoxes \subseteq DOMAIN c.d.boxes
        BY DEF Good
    <2>2. \A i \in 1..n : IsFiniteSet(DOMAIN rows[i].tokens)
        BY <2>1 DEF Good, RowOK
    <2> QED BY <2>2 DEF FiniteTokens, BagToSet
<1>6. firstOut \in Nat /\ d.nextBox <= firstOut
    BY DEF Since, BoxOK, Numbered, BoxSince, BoxesSince
<1> HIDE DEF c0, rows, trees, gidx, n, m
<1>7. Good(c1)
    BY <1>3, CreateOutputsMoves DEF Moves
<1>8. FreshBoxes(tx.outputs, c0.d)
    BY <1>2 DEF FreshBoxes
<1>9. /\ Shaped(c1) /\ Since(d, c1, IdsOf(tx.outputs, m)) /\ Placed(c0, c1, tx.outputs, tx.id, m)
    BY <1>2, <1>4, <1>8, CreateOutputsSince DEF SinceOutputs
<1>10. /\ c1.d.nextBox = firstOut + m /\ c1.d.nextTx = gidx + 1
       /\ \A i \in 1..m :
            /\ tx.outputs[i].id \in c1.undo.createdBoxes
            /\ c1.d.boxes[tx.outputs[i].id] = RowOf(firstOut + i - 1, tx.outputs[i], tx.id)
       /\ \A i \in 1..n : \E id \in c1.undo.spentBoxes : rows[i] = c1.d.boxes[id]
    <2>1. \A i \in 1..m : tx.outputs[i].id \in IdsOf(tx.outputs, m)
        BY DEF IdsOf
    <2>2. ASSUME NEW i \in 1..n
          PROVE  \E id \in c1.undo.spentBoxes : rows[i] = c1.d.boxes[id]
        <3>1. tx.inputs[i] \in c.undo.spentBoxes /\ tx.inputs[i] \in DOMAIN c.d.boxes
            BY DEF Good, n
        <3>2. tx.inputs[i] \in c1.undo.spentBoxes
              /\ c1.d.boxes[tx.inputs[i]] = c.d.boxes[tx.inputs[i]]
            BY <1>2, <1>9, <3>1 DEF Placed
        <3> QED BY <1>5, <3>2
    <2> QED BY <1>2, <1>9, <2>1, <2>2 DEF Placed
<1>11. tx.id \notin DOMAIN c1.d.txs
    <2>1. DOMAIN c1.d.txs = DOMAIN c0.d.txs \cup {}
        BY <1>3, CreateOutputsMoves DEF Moves
    <2> QED BY <1>2, <2>1
<1> HIDE DEF c1
<1>12. Good(c2) /\ (c2.corrupt \/ Settles(d, c1, c2, {}))
    <2> HIDE DEF firstOut
    <2> QED BY <1>4, <1>5, <1>6, <1>7, <1>9, <1>10, TokensApplyTxSince
<1>13. DOMAIN c2.d.txs = DOMAIN c1.d.txs
    <2>1. Quiet(c1, c2)
        BY <1>4, <1>5, <1>7, TokensApplyTxQuiet, Zenon
    <2> HIDE DEF c2
    <2> QED BY <2>1 DEF Quiet, Moves
<1> HIDE DEF c2, firstOut
<1>14. CASE c2.corrupt
    <2>1. c3.corrupt /\ Shaped(c3)
        BY <1>12, <1>14, GoodShape DEF TouchTrees, Shaped, CtxKeys, TableKeys, UndoKeys
    <2> HIDE DEF c3
    <2>2. c4.corrupt
        BY <2>1 DEF RecordTx, Shaped, CtxKeys
    <2> QED BY <1>0, <2>2
<1>15. CASE ~ c2.corrupt
    <2>1. Since(d, c2, {}) /\ Shaped(c2) /\ c2.d.nextTx = gidx + 1
        BY <1>10, <1>12, <1>15 DEF Settles
    <2>2. gidx \in Nat /\ d.nextTx <= gidx /\ gidx < c2.d.nextTx
        BY <1>2, <2>1
    <2>3. Since(d, c3, {}) /\ Shaped(c3) /\ c3.d.txs = c2.d.txs /\ c3.d.nextTx = c2.d.nextTx
        BY <2>1, <2>2, TouchTreesSince
    <2> HIDE DEF c3
    <2>4. Since(d, c4, {})
        BY <1>11, <1>13, <2>2, <2>3, RecordTxSince
    <2> HIDE DEF c4
    <2> QED BY <1>0, <2>4
<1> QED BY <1>14, <1>15

LEMMA ApplyTxSince ==
    ASSUME NEW d, NEW c, Ready(d), Good(c), Since(d, c, {}), NEW tx, NEW index,
           DOMAIN tx.inputs = 1..Len(tx.inputs), Len(tx.inputs) \in Nat,
           FiniteBoxes(tx.outputs), FreshBoxes(tx.outputs, c.d), tx.id \notin DOMAIN c.d.txs
    PROVE  LET e == ApplyTx(c, tx, index)
           IN  e.corrupt \/ Since(d, e, {})
<1> DEFINE s == SpendInputs(c, tx)
           e == IndexTx(s, tx, index)
<1>0. ApplyTx(c, tx, index) = e
    BY DEF ApplyTx
<1>1. Good(s) /\ (s.corrupt \/ /\ Since(d, s, {})
                               /\ \A k \in DOMAIN tx.inputs : tx.inputs[k] \in s.undo.spentBoxes)
    BY SpendInputsSince
<1>2. DOMAIN s.d.boxes = DOMAIN c.d.boxes \cup {} /\ DOMAIN s.d.txs = DOMAIN c.d.txs \cup {}
    BY SpendInputsQuiet DEF Quiet, Moves
<1> HIDE DEF s
<1>3. CASE s.corrupt
    <2>1. e = s
        BY <1>3 DEF IndexTx
    <2> HIDE DEF e
    <2> QED BY <1>0, <1>3, <2>1
<1>4. CASE ~ s.corrupt
    <2>1. FreshBoxes(tx.outputs, s.d)
        BY <1>2 DEF FreshBoxes
    <2>2. e.corrupt \/ Since(d, e, {})
        BY <1>1, <1>2, <1>4, <2>1, IndexTxSince
    <2> HIDE DEF e
    <2> QED BY <1>0, <2>2
<1> QED BY <1>3, <1>4

LEMMA ApplyTxGood ==
    ASSUME NEW c, Good(c), NEW tx, NEW index,
           DOMAIN tx.inputs = 1..Len(tx.inputs), Len(tx.inputs) \in Nat,
           FiniteBoxes(tx.outputs)
    PROVE  Good(ApplyTx(c, tx, index))
<1> DEFINE s == SpendInputs(c, tx)
           e == IndexTx(s, tx, index)
<1>0. ApplyTx(c, tx, index) = e
    BY DEF ApplyTx
<1>1. /\ Good(s)
      /\ s.corrupt \/ \A k \in DOMAIN tx.inputs : tx.inputs[k] \in DOMAIN s.d.boxes
    BY SpendInputsQuiet, QuietGood
<1> HIDE DEF s
<1>2. CASE s.corrupt
    <2>1. e = s
        BY <1>2 DEF IndexTx
    <2> HIDE DEF e
    <2> QED BY <1>0, <1>1, <2>1
<1>3. CASE ~ s.corrupt
    <2>1. Good(e)
        BY <1>1, <1>3, IndexTxMoves DEF Moves
    <2> QED BY <1>0, <2>1
<1> QED BY <1>2, <1>3

(* The block's own content is new to the tables d it is applied to.        *)
NewTo(b, d) == OutIds(b) \cap DOMAIN d.boxes = {} /\ TxIds(b) \cap DOMAIN d.txs = {}

SinceBlock(p, q, base, n, acc) ==
    Good(acc) /\ \/ acc.corrupt
                 \/ /\ Since(q, acc, {})
                    /\ DOMAIN acc.d.boxes = DOMAIN q.boxes \cup OutsBy(p, n)
                    /\ DOMAIN acc.d.txs = DOMAIN q.txs \cup TxsOf(p, n)

LOCAL Filing == INSTANCE FoldTheory WITH
    Op <- LAMBDA p, q, acc, i : IF acc.corrupt THEN acc ELSE ApplyTx(acc, Txs[p][i], i - 1),
    Inv <- SinceBlock

LEMMA NoOuts ==
    ASSUME NEW b
    PROVE  OutsBy(b, 0) = {} /\ TxsOf(b, 0) = {}
BY DEF OutsBy, TxsOf

LEMMA NextOuts ==
    ASSUME NEW b, NEW i \in Nat \ {0}
    PROVE  /\ OutsBy(b, i) = OutsBy(b, i - 1) \cup BoxIds(Txs[b][i].outputs)
           /\ TxsOf(b, i) = TxsOf(b, i - 1) \cup {Txs[b][i].id}
<1>1. 1..i = 1..(i - 1) \cup {i}
    OBVIOUS
<1> QED BY <1>1 DEF OutsBy, TxsOf

(* One more transaction of a new block has new boxes and a new id.         *)
LEMMA FreshTx ==
    ASSUME NEW b \in Block, NEW d, NewTo(b, d), NEW i \in 1..Len(Txs[b]), NEW c,
           DOMAIN c.boxes = DOMAIN d.boxes \cup OutsBy(b, i - 1),
           DOMAIN c.txs = DOMAIN d.txs \cup TxsOf(b, i - 1)
    PROVE  FreshBoxes(Txs[b][i].outputs, c) /\ Txs[b][i].id \notin DOMAIN c.txs
<1> DEFINE boxes == Txs[b][i].outputs
<1>1. /\ DOMAIN Txs[b] = 1..Len(Txs[b]) /\ Len(Txs[b]) \in Nat /\ FiniteBoxes(boxes)
    BY TxContent
<1>2. Distinct(boxes)
    BY <1>1, DistinctAssumption
<1>3. \A j \in 1..(i - 1) : /\ Txs[b][j].id # Txs[b][i].id
                            /\ BoxIds(Txs[b][j].outputs) \cap BoxIds(boxes) = {}
    <2> TAKE j \in 1..(i - 1)
    <2>1. j \in DOMAIN Txs[b] /\ i \in DOMAIN Txs[b] /\ j # i
        BY <1>1
    <2> QED BY <2>1, DistinctAssumption
<1>4. /\ BoxIds(boxes) \subseteq OutIds(b) /\ Txs[b][i].id \in TxIds(b)
    BY <1>1 DEF OutIds, TxIds
<1>5. \A k \in DOMAIN boxes : boxes[k].id \in BoxIds(boxes) /\ IsABag(boxes[k].tokens)
    BY <1>1 DEF BoxIds, Range, FiniteBoxes
<1> HIDE DEF boxes
<1>6. \A k \in DOMAIN boxes : boxes[k].id \notin DOMAIN c.boxes
    BY <1>3, <1>4, <1>5 DEF NewTo, OutsBy
<1>7. Txs[b][i].id \notin DOMAIN c.txs
    BY <1>3, <1>4 DEF NewTo, TxsOf
<1> QED BY <1>2, <1>5, <1>6, <1>7 DEF FreshBoxes, boxes

(* The transactions of a block, in order, over tables that have none of    *)
(* its boxes: what they leave is Since what they began over, or corrupt.   *)
THEOREM ApplyTxsSince ==
    ASSUME NEW b \in Block, NEW d, Ready(d), NEW c, Good(c), Since(d, c, {}), c.d = d,
           NewTo(b, d)
    PROVE  LET e == ApplyTxs(c, b)
           IN  Good(e) /\ (e.corrupt \/ Since(d, e, {}))
<1> DEFINE txs == Txs[b]
           m == Len(txs)
           places == [i \in DOMAIN txs |-> i]
           out == Filing!Left(b, d, c, places)
           e == ApplyTxs(c, b)
<1>1. e = out
    BY DEF ApplyTxs, FoldLeftDomain, FoldLeft, MapThenFoldSet, Max, Filing!Left,
           Filing!LeftFold, Filing!Greatest
<1> HIDE DEF e
<1>2. DOMAIN txs = 1..m /\ m \in Nat
    BY TxContent
<1>3. SinceBlock(b, d, c, 0, c)
    BY NoOuts DEF SinceBlock
<1>4. ASSUME NEW i \in 1..m, NEW acc, SinceBlock(b, d, c, i - 1, acc)
      PROVE  SinceBlock(b, d, c, i, IF acc.corrupt THEN acc ELSE ApplyTx(acc, txs[i], i - 1))
    <2> DEFINE tx == txs[i]
               f == ApplyTx(acc, tx, i - 1)
    <2>1. CASE acc.corrupt
        BY <1>4, <2>1 DEF SinceBlock
    <2>2. CASE ~ acc.corrupt
        <3>1. /\ Good(acc) /\ Since(d, acc, {})
              /\ DOMAIN acc.d.boxes = DOMAIN d.boxes \cup OutsBy(b, i - 1)
              /\ DOMAIN acc.d.txs = DOMAIN d.txs \cup TxsOf(b, i - 1)
            BY <1>4, <2>2 DEF SinceBlock
        <3>2. FreshBoxes(tx.outputs, acc.d) /\ tx.id \notin DOMAIN acc.d.txs
            BY <3>1, FreshTx
        <3>3. /\ DOMAIN tx.inputs = 1..Len(tx.inputs) /\ Len(tx.inputs) \in Nat
              /\ FiniteBoxes(tx.outputs)
            BY TxContent
        <3>4. /\ OutsBy(b, i) = OutsBy(b, i - 1) \cup BoxIds(tx.outputs)
              /\ TxsOf(b, i) = TxsOf(b, i - 1) \cup {tx.id}
            BY <1>2, NextOuts
        <3> HIDE DEF tx
        <3>5. f.corrupt \/ Since(d, f, {})
            BY <3>1, <3>2, <3>3, ApplyTxSince
        <3>6. f.corrupt \/ Moves(acc, f, BoxIds(tx.outputs), BoxIds(tx.outputs), {tx.id},
                                 RegisterCount(tx.outputs))
            BY <3>1, <3>3, ApplyTxMoves
        <3>7. Good(f)
            BY <3>1, <3>3, ApplyTxGood
        <3> HIDE DEF f
        <3>8. f.corrupt \/ /\ DOMAIN f.d.boxes = DOMAIN d.boxes \cup OutsBy(b, i)
                           /\ DOMAIN f.d.txs = DOMAIN d.txs \cup TxsOf(b, i)
            BY <3>1, <3>4, <3>6 DEF Moves
        <3>9. SinceBlock(b, d, c, i, f)
            BY <3>5, <3>7, <3>8 DEF SinceBlock
        <3> QED BY <2>2, <3>9 DEF f, tx
    <2> QED BY <2>1, <2>2
<1>5. SinceBlock(b, d, c, Len(places), out)
    <2>1. Len(places) = m /\ DOMAIN places = 1..m /\ \A i \in 1..m : places[i] = i
        BY <1>2, FunctionLength
    <2> HIDE DEF places
    <2>2. \A i \in 1..m : \A acc : SinceBlock(b, d, c, i - 1, acc) =>
            SinceBlock(b, d, c, i,
                IF acc.corrupt THEN acc ELSE ApplyTx(acc, Txs[b][places[i]], places[i] - 1))
        BY <1>4, <2>1
    <2> QED BY <1>2, <1>3, <2>1, <2>2, LeastNatural, Filing!LeftValue
<1> HIDE DEF out, places
<1>6. Good(e) /\ (e.corrupt \/ Since(d, e, {}))
    BY <1>1, <1>5 DEF SinceBlock
<1> QED BY <1>6 DEF e
=============================================================================
