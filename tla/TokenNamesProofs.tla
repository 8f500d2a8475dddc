-------------------------- MODULE TokenNamesProofs --------------------------
(***************************************************************************)
(* TokenNames for every block tree, every minting of names and every batch *)
(* size: an index that reports ready holds exactly the keys of its chain's *)
(* tokens, whoever wrote the chain beside it.                              *)
(***************************************************************************)
EXTENDS TokenNames, ChainStoreProofs, FiniteSetTheorems, SequenceTheorems

(* What a chain's tokens are, and how a prefix's relate to them.           *)

Below(c, e) == /\ c \in Seq(Block) /\ e \in Seq(Block)
               /\ Len(c) <= Len(e)
               /\ \A i \in 1..Len(c) : e[i] = c[i]

(* The heights at which a token is minted along a chain. *)
MintedAt(c, t) == {h \in DOMAIN c : t \in DOMAIN Mint[c[h]]}

LEMMA FirstMint ==
    ASSUME NEW c \in Seq(Block), NEW t, MintedAt(c, t) # {}
    PROVE  /\ Min(MintedAt(c, t)) \in MintedAt(c, t)
           /\ \A h \in MintedAt(c, t) : Min(MintedAt(c, t)) <= h
<1> DEFINE S == MintedAt(c, t)
<1>1. S \subseteq Nat /\ S # {}
  BY DEF MintedAt
<1>2. \E m \in S : \A k \in S : m <= k
  <2> HIDE DEF S
  <2> QED BY <1>1, Least
<1> HIDE DEF S
<1>3. Min(S) \in S /\ \A k \in S : Min(S) <= k
  BY <1>2 DEF Min
<1> QED BY <1>3 DEF S

LEMMA TokenFacts ==
    ASSUME NEW d, d.chain \in Seq(Block)
    PROVE  /\ Tokens(d) = [t \in DOMAIN Tokens(d) |->
                              Mint[d.chain[Min(MintedAt(d.chain, t))]][t]]
           /\ \A t : t \in DOMAIN Tokens(d) <=> MintedAt(d.chain, t) # {}
           /\ DOMAIN Tokens(d) \subseteq Token
<1> DEFINE minted == UNION {DOMAIN Mint[b] : b \in Range(d.chain)}
<1>1. Tokens(d) = [t \in minted |-> Mint[d.chain[Min(MintedAt(d.chain, t))]][t]]
  BY DEF Tokens, MintedAt
<1>2. \A t : t \in minted <=> MintedAt(d.chain, t) # {}
  BY DEF MintedAt, Range
<1>3. minted \subseteq Token
  <2>1. Range(d.chain) \subseteq Block
    BY DEF Range
  <2> QED BY <2>1 DEF Token
<1> QED BY <1>1, <1>2, <1>3

(* The first mint of a token is the same on every longer chain.            *)
LEMMA TokensBelow ==
    ASSUME NEW old, NEW new, Below(old.chain, new.chain)
    PROVE  /\ DOMAIN Tokens(old) \subseteq DOMAIN Tokens(new)
           /\ \A t \in DOMAIN Tokens(old) : Tokens(new)[t] = Tokens(old)[t]
<1> DEFINE c == old.chain
           e == new.chain
<1>0. c \in Seq(Block) /\ e \in Seq(Block) /\ Len(c) \in Nat /\ Len(e) \in Nat
  BY DEF Below
<1>1. \A t : MintedAt(c, t) = {h \in MintedAt(e, t) : h <= Len(c)}
  BY <1>0 DEF Below, MintedAt
<1>2. ASSUME NEW t \in DOMAIN Tokens(old)
      PROVE  t \in DOMAIN Tokens(new) /\ Tokens(new)[t] = Tokens(old)[t]
  <2>1. MintedAt(c, t) # {} /\ MintedAt(e, t) # {}
    BY <1>0, <1>1, <1>2, TokenFacts
  <2> DEFINE m == Min(MintedAt(c, t))
             k == Min(MintedAt(e, t))
  <2>2. m \in MintedAt(c, t) /\ \A h \in MintedAt(c, t) : m <= h
    BY <1>0, <2>1, FirstMint
  <2>3. k \in MintedAt(e, t) /\ \A h \in MintedAt(e, t) : k <= h
    BY <1>0, <2>1, FirstMint
  <2>4. m \in 1..Len(c) /\ k \in 1..Len(e)
    BY <2>2, <2>3, <1>0 DEF MintedAt
  <2> HIDE DEF m, k
  <2>5. m = k
    <3>1. k <= m
      BY <1>1, <2>2, <2>3
    <3>2. k \in MintedAt(c, t)
      BY <1>1, <2>3, <2>4, <3>1, <1>0
    <3> QED BY <2>2, <2>4, <3>1, <3>2
  <2>6. e[k] = c[m]
    BY <2>4, <2>5 DEF Below
  <2>7. t \in DOMAIN Tokens(new)
    BY <1>0, <2>1, TokenFacts
  <2>8. Tokens(new)[t] = Mint[e[k]][t] /\ Tokens(old)[t] = Mint[c[m]][t]
    BY <1>0, <1>2, <2>7, TokenFacts DEF m, k
  <2> QED BY <2>6, <2>7, <2>8
<1> QED BY <1>2

LEMMA KeyFacts ==
    ASSUME NEW rows, NEW tokens, NEW k
    PROVE  k \in Keys(rows, tokens) <=>
              /\ k = <<Fold[rows[k[2]]], k[2]>>
              /\ k[2] \in tokens /\ k[2] \in DOMAIN rows /\ Fold[rows[k[2]]] # <<>>
BY DEF Keys

(* What the hooks add and remove is what one chain's keys have and the     *)
(* other's have not.                                                       *)
LEMMA KeysBelow ==
    ASSUME NEW old, NEW new, Below(old.chain, new.chain), NEW tokens
    PROVE  LET added == Keys(Tokens(new), DOMAIN Tokens(new) \ DOMAIN Tokens(old))
           IN  /\ Keys(Tokens(old), tokens) = Keys(Tokens(new), tokens) \ added
               /\ Keys(Tokens(old), tokens) \subseteq Keys(Tokens(new), tokens)
               /\ Keys(Tokens(new), tokens) \subseteq Keys(Tokens(old), tokens) \cup added
               /\ added \subseteq Keys(Tokens(new), Token)
<1> DEFINE R == Tokens(old)
           S == Tokens(new)
           added == Keys(S, DOMAIN S \ DOMAIN R)
<1>1. DOMAIN R \subseteq DOMAIN S /\ \A t \in DOMAIN R : S[t] = R[t]
  BY TokensBelow
<1>2. DOMAIN S \subseteq Token
  BY TokenFacts DEF Below
<1> HIDE DEF R, S
<1>3. ASSUME NEW k PROVE k \in Keys(R, tokens) <=> k \in Keys(S, tokens) /\ k \notin added
  BY <1>1, KeyFacts
<1>4. ASSUME NEW k, k \in added PROVE k \in Keys(S, Token)
  BY <1>2, <1>4, KeyFacts
<1>5. /\ Keys(R, tokens) = Keys(S, tokens) \ added
      /\ Keys(R, tokens) \subseteq Keys(S, tokens)
      /\ Keys(S, tokens) \subseteq Keys(R, tokens) \cup added
      /\ added \subseteq Keys(S, Token)
  <2> HIDE DEF added
  <2> QED BY <1>3, <1>4
<1> QED BY <1>5 DEF R, S

-----------------------------------------------------------------------------
(* What the keys of an index owe to the chain its anchor names.            *)

On(c) == [chain |-> c]

IndexSound(n, d) ==
    /\ n.state.phase \in {"CLEARING", "BUILDING", "READY"}
    /\ n.state.phase = "CLEARING" => n.state.cursor = NoCursor
    /\ n.state.phase = "BUILDING" =>
          /\ n.keys \subseteq Keys(Tokens(d), Token)
          /\ Keys(Tokens(d), 0..n.state.cursor) \subseteq n.keys
    /\ n.state.phase = "READY" => n.keys = Keys(Tokens(d), Token)

AnchorNames(n, d) ==
    /\ n.state.anchor.height = Len(d.chain)
    /\ n.state.anchor.id = IF d.chain = <<>> THEN NoParent ELSE d.chain[Len(d.chain)]

(* An index is a record, whatever its keys. *)
IsIndex(n) ==
    /\ n = [keys |-> n.keys, state |-> n.state]
    /\ n.state = [phase  |-> n.state.phase, cursor |-> n.state.cursor,
                  anchor |-> n.state.anchor]
    /\ n.state.phase \in {"ABSENT", "CLEARING", "BUILDING", "READY"}
    /\ n.state.cursor \in Nat \cup {NoCursor}

Canonical(d) == d.chain \in Seq(Block) /\ Linked(d.chain)

(* Holds of any index, whoever wrote the chain beside it. *)
Valid(n) ==
    /\ IsIndex(n)
    /\ n.state.phase # "ABSENT" =>
          \E c \in Seq(Block) : /\ Linked(c) /\ AnchorNames(n, On(c))
                                /\ IndexSound(n, On(c))

LEMMA OnFacts ==
    ASSUME NEW d
    PROVE  /\ On(d.chain).chain = d.chain
           /\ Tokens(On(d.chain)) = Tokens(d)
           /\ \A n : /\ IndexSound(n, On(d.chain)) <=> IndexSound(n, d)
                     /\ AnchorNames(n, On(d.chain)) <=> AnchorNames(n, d)
<1>1. On(d.chain).chain = d.chain
  BY DEF On
<1>2. Tokens(On(d.chain)) = Tokens(d)
  BY <1>1, Zenon DEF Tokens
<1> QED BY <1>1, <1>2 DEF IndexSound, AnchorNames

LEMMA AnchorFacts ==
    ASSUME NEW d, d.chain \in Seq(Block)
    PROVE  /\ Anchor(d).height = Len(d.chain)
           /\ Anchor(d).id = IF d.chain = <<>> THEN NoParent ELSE d.chain[Len(d.chain)]
BY DEF Anchor, Tip

(* prepare_write: afterwards the index is sound for the chain at hand.     *)
LEMMA PrepareSound ==
    ASSUME NEW n, Valid(n), NEW d, Canonical(d)
    PROVE  /\ IsIndex(Prepare(n, d))
           /\ Prepare(n, d).state.anchor = Anchor(d)
           /\ IndexSound(Prepare(n, d), d)
<1>0. d.chain \in Seq(Block) /\ IsIndex(n)
  BY DEF Canonical, Valid
<1>1. CASE Current(n, d)
  <2>1. Prepare(n, d) = n /\ n.state.anchor = Anchor(d) /\ n.state.phase # "ABSENT"
    BY <1>1 DEF Prepare, Current
  <2>2. PICK c \in Seq(Block) : /\ Linked(c) /\ AnchorNames(n, On(c))
                                /\ IndexSound(n, On(c))
    BY <2>1 DEF Valid
  <2>3. /\ Len(c) = Len(d.chain)
        /\ (IF c = <<>> THEN NoParent ELSE c[Len(c)]) =
           (IF d.chain = <<>> THEN NoParent ELSE d.chain[Len(d.chain)])
    BY <2>1, <2>2, <1>0, AnchorFacts DEF AnchorNames, On
  <2>4. c = d.chain
    <3>1. CASE Len(c) = 0
      <4>1. \A s \in Seq(Block) : Len(s) = 0 => s = <<>>
        OBVIOUS
      <4> QED BY <4>1, <2>3, <3>1, <1>0
    <3>2. CASE Len(c) > 0
      <4>1. c # <<>> /\ d.chain # <<>>
        BY <2>3, <3>2, <1>0
      <4> QED BY <2>2, <2>3, <3>2, <4>1, <1>0, TipDetermines DEF Canonical
    <3>3. Len(c) \in Nat
      OBVIOUS
    <3> QED BY <3>1, <3>2, <3>3
  <2> QED BY <2>1, <2>2, <2>4, <1>0, OnFacts
<1>2. CASE ~ Current(n, d)
  <2> DEFINE ph == IF n.keys # {} THEN "CLEARING"
                   ELSE IF Tokens(d) # <<>> THEN "BUILDING" ELSE "READY"
             st == [phase |-> ph, cursor |-> NoCursor, anchor |-> Anchor(d)]
             b  == Prepare(n, d)
  <2>1. b = [n EXCEPT !.state = st]
    BY <1>2 DEF Prepare
  <2>2. b = [keys |-> n.keys, state |-> st]
    <3> HIDE DEF st, b
    <3> QED BY <2>1, <1>0 DEF IsIndex
  <2>3. b.keys = n.keys /\ b.state = st
    BY <2>2
  <2>4. IsIndex(b)
    BY <2>2 DEF IsIndex
  <2>5. ph # "CLEARING" => n.keys = {}
    OBVIOUS
  <2>6. Keys(Tokens(d), 0..NoCursor) = {}
    <3>1. 0..NoCursor = {}
      BY DEF NoCursor
    <3> QED BY <3>1, KeyFacts
  <2>7. Tokens(d) = <<>> => Keys(Tokens(d), Token) = {}
    <3>1. DOMAIN <<>> = {}
      OBVIOUS
    <3> QED BY <3>1, KeyFacts
  <2>8. b.state.phase = ph /\ b.state.cursor = NoCursor /\ b.state.anchor = Anchor(d)
    BY <2>3
  <2>9. ph \in {"CLEARING", "BUILDING", "READY"} /\ (ph = "READY" => Tokens(d) = <<>>)
    OBVIOUS
  <2> HIDE DEF ph, st, b
  <2>10. IndexSound(b, d)
    BY <2>3, <2>5, <2>6, <2>7, <2>8, <2>9 DEF IndexSound
  <2> QED BY <2>4, <2>8, <2>10 DEF b
<1> QED BY <1>1, <1>2

(* What apply_block adds and rollback_to removes.  While an index is being *)
(* cleared of another chain's keys, its keys mean nothing.                 *)
LEMMA InsertSound ==
    ASSUME NEW n, IsIndex(n), NEW old, NEW new, Below(old.chain, new.chain),
           IndexSound(n, old)
    PROVE  LET b == InsertNames(n, old, new)
           IN  IsIndex(b) /\ b.state = n.state /\ IndexSound(b, new)
<1> DEFINE added == Keys(Tokens(new), DOMAIN Tokens(new) \ DOMAIN Tokens(old))
           b == InsertNames(n, old, new)
<1>1. b = [n EXCEPT !.keys = @ \cup added]
  BY DEF InsertNames
<1>2. b = [keys |-> n.keys \cup added, state |-> n.state]
  <2> HIDE DEF added, b
  <2> QED BY <1>1 DEF IsIndex
<1>3. b.keys = n.keys \cup added /\ b.state = n.state
  BY <1>2
<1>4. \A tokens : /\ Keys(Tokens(old), tokens) \subseteq Keys(Tokens(new), tokens)
                  /\ Keys(Tokens(new), tokens) \subseteq Keys(Tokens(old), tokens) \cup added
                  /\ added \subseteq Keys(Tokens(new), Token)
  BY KeysBelow
<1> HIDE DEF added, b
<1>5. IsIndex(b)
  BY <1>2 DEF IsIndex
<1>6. n.state.phase = "READY" => b.keys = Keys(Tokens(new), Token)
  BY <1>3, <1>4 DEF IndexSound
<1>7. n.state.phase = "BUILDING" =>
          /\ b.keys \subseteq Keys(Tokens(new), Token)
          /\ Keys(Tokens(new), 0..n.state.cursor) \subseteq b.keys
  BY <1>3, <1>4 DEF IndexSound
<1>8. IndexSound(b, new)
  BY <1>3, <1>6, <1>7 DEF IndexSound
<1> QED BY <1>3, <1>5, <1>8 DEF b

LEMMA RemoveSound ==
    ASSUME NEW n, IsIndex(n), NEW old, NEW new, Below(new.chain, old.chain),
           IndexSound(n, old)
    PROVE  LET b == RemoveNames(n, old, new)
           IN  IsIndex(b) /\ b.state = n.state /\ IndexSound(b, new)
<1> DEFINE gone == Keys(Tokens(old), DOMAIN Tokens(old) \ DOMAIN Tokens(new))
           b == RemoveNames(n, old, new)
<1>1. b = [n EXCEPT !.keys = @ \ gone]
  BY DEF RemoveNames
<1>2. b = [keys |-> n.keys \ gone, state |-> n.state]
  <2> HIDE DEF gone, b
  <2> QED BY <1>1 DEF IsIndex
<1>3. b.keys = n.keys \ gone /\ b.state = n.state
  BY <1>2
<1>4. \A tokens : Keys(Tokens(new), tokens) = Keys(Tokens(old), tokens) \ gone
  BY KeysBelow
<1> HIDE DEF gone, b
<1>5. IsIndex(b)
  BY <1>2 DEF IsIndex
<1>6. n.state.phase = "READY" => b.keys = Keys(Tokens(new), Token)
  BY <1>3, <1>4 DEF IndexSound
<1>7. n.state.phase = "BUILDING" =>
          /\ b.keys \subseteq Keys(Tokens(new), Token)
          /\ Keys(Tokens(new), 0..n.state.cursor) \subseteq b.keys
  BY <1>3, <1>4 DEF IndexSound
<1>8. IndexSound(b, new)
  BY <1>3, <1>6, <1>7 DEF IndexSound
<1> QED BY <1>3, <1>5, <1>8 DEF b

(* One batch of the rebuild, over any index that is sound. *)
LEMMA BatchSound ==
    ASSUME NEW n, IsIndex(n), NEW d, d.chain \in Seq(Block), IndexSound(n, d),
           NEW b \in BatchResults(n, d)
    PROVE  /\ IsIndex(b) /\ IndexSound(b, d)
           /\ b.state.anchor = n.state.anchor
<1> DEFINE R == Tokens(d)
<1>0. DOMAIN R \subseteq Token /\ Token \subseteq Nat
  BY TokenFacts, NameAssumption
<1>1. CASE n.state.phase = "CLEARING"
  <2>1. PICK count \in 1..MaxRows : b = Cleared(n, count)
    BY <1>1 DEF BatchResults
  <2> DEFINE left == Range(SubSeq(InOrder(n.keys), count + 1, Cardinality(n.keys)))
             ph == IF left = {} THEN "BUILDING" ELSE "CLEARING"
  <2>2. b = [n EXCEPT !.keys = left, !.state.phase = ph]
    BY <2>1, <1>1 DEF Cleared
  <2> HIDE DEF left
  <2>3. b = [keys |-> left, state |-> [phase |-> ph, cursor |-> n.state.cursor,
                                       anchor |-> n.state.anchor]]
    <3> HIDE DEF ph
    <3> QED BY <2>2 DEF IsIndex
  <2>4. IsIndex(b) /\ b.state.anchor = n.state.anchor
    BY <2>3 DEF IsIndex
  <2>5. Keys(R, 0..NoCursor) = {}
    <3>1. 0..NoCursor = {}
      BY DEF NoCursor
    <3> QED BY <3>1, KeyFacts
  <2>6. IndexSound(b, d)
    <3>1. b.keys = left /\ b.state.phase = ph /\ b.state.cursor = NoCursor
      BY <2>3, <1>1 DEF IndexSound
    <3>2. ph \in {"BUILDING", "CLEARING"} /\ (ph = "BUILDING" => left = {})
      OBVIOUS
    <3> HIDE DEF ph
    <3> QED BY <2>5, <3>1, <3>2 DEF IndexSound
  <2> QED BY <2>4, <2>6
<1>2. CASE n.state.phase = "BUILDING"
  <2>0. /\ n.keys \subseteq Keys(R, Token)
        /\ Keys(R, 0..n.state.cursor) \subseteq n.keys
        /\ n.state.cursor \in Int
    BY <1>2 DEF IndexSound, IsIndex, NoCursor
  <2>a. ASSUME NEW t \in DOMAIN R
        PROVE  t \in Nat /\ (t \in 0..n.state.cursor \/ t \in Unscanned(n, d))
    <3>1. t \in Nat
      BY <1>0
    <3>2. ~ (n.state.cursor < t) => t \in 0..n.state.cursor
      BY <2>0, <3>1
    <3> QED BY <3>1, <3>2 DEF Unscanned
  <2>1. CASE Unscanned(n, d) = {}
    <3>1. b = [n EXCEPT !.state.phase = "READY"]
      BY <1>2, <2>1 DEF BatchResults
    <3>2. b = [keys |-> n.keys, state |-> [phase |-> "READY", cursor |-> n.state.cursor,
                                           anchor |-> n.state.anchor]]
      BY <3>1 DEF IsIndex
    <3>3. IsIndex(b) /\ b.state.anchor = n.state.anchor
      BY <3>2 DEF IsIndex
    <3>4. DOMAIN R \subseteq 0..n.state.cursor
      BY <2>a, <2>1
    <3>5. Keys(R, Token) \subseteq Keys(R, 0..n.state.cursor)
      BY <3>4, KeyFacts
    <3>6. IndexSound(b, d)
      BY <3>2, <3>5, <2>0 DEF IndexSound
    <3> QED BY <3>3, <3>6
  <2>2. CASE Unscanned(n, d) # {}
    <3>1. PICK last \in Unscanned(n, d) : b = Scanned(n, d, last)
      BY <1>2, <2>2 DEF BatchResults, Stops
    <3> DEFINE visited == {t \in Unscanned(n, d) : t <= last}
               ph == IF visited = Unscanned(n, d) THEN "READY" ELSE "BUILDING"
               ks == n.keys \cup Keys(R, visited)
    <3>2. b = [n EXCEPT !.keys = ks, !.state.cursor = last, !.state.phase = ph]
      BY <1>2, <3>1 DEF Scanned
    <3>3. b = [keys |-> ks, state |-> [phase |-> ph, cursor |-> last,
                                       anchor |-> n.state.anchor]]
      <4> HIDE DEF ph, ks
      <4> QED BY <3>2 DEF IsIndex
    <3>4. last \in DOMAIN R /\ last \in Nat /\ n.state.cursor < last
      BY <1>0 DEF Unscanned
    <3>5. ph \in {"BUILDING", "READY"} /\ (ph = "READY" => visited = Unscanned(n, d))
      OBVIOUS
    <3>6. IsIndex(b) /\ b.state.anchor = n.state.anchor
      <4> HIDE DEF ph, ks
      <4> QED BY <3>3, <3>4, <3>5 DEF IsIndex
    <3>7. \A t \in DOMAIN R : \/ t \in 0..n.state.cursor
                              \/ t \in visited
                              \/ t > last /\ t \in Unscanned(n, d)
      BY <2>a, <3>4
    <3>8. ks \subseteq Keys(R, Token)
      <4>1. visited \subseteq Token
        BY <1>0 DEF Unscanned
      <4>2. Keys(R, visited) \subseteq Keys(R, Token)
        BY <4>1, KeyFacts
      <4> QED BY <2>0, <4>2
    <3>9. Keys(R, 0..last) \subseteq ks
      <4> SUFFICES ASSUME NEW k \in Keys(R, 0..last) PROVE k \in ks
        OBVIOUS
      <4>1. k[2] \in 0..last /\ k[2] \in DOMAIN R
        BY KeyFacts
      <4>2. k[2] \in 0..n.state.cursor \/ k[2] \in visited
        BY <3>4, <3>7, <4>1
      <4>3. k \in Keys(R, 0..n.state.cursor) \/ k \in Keys(R, visited)
        <5> HIDE DEF visited
        <5> QED BY <4>2, KeyFacts
      <4> QED BY <2>0, <4>3
    <3>10. ph = "READY" => Keys(R, Token) \subseteq ks
      <4> SUFFICES ASSUME visited = Unscanned(n, d), NEW k \in Keys(R, Token) PROVE k \in ks
        BY <3>5
      <4>1. k[2] \in DOMAIN R
        BY KeyFacts
      <4>2. k[2] \in 0..n.state.cursor \/ k[2] \in visited
        BY <3>4, <3>7, <4>1
      <4>3. k \in Keys(R, 0..n.state.cursor) \/ k \in Keys(R, visited)
        <5> HIDE DEF visited
        <5> QED BY <4>2, KeyFacts
      <4> QED BY <2>0, <4>3
    <3>11. IndexSound(b, d)
      <4>1. b.keys = ks /\ b.state.phase = ph /\ b.state.cursor = last
        BY <3>3
      <4> HIDE DEF ph, ks
      <4> QED BY <3>5, <3>8, <3>9, <3>10, <4>1 DEF IndexSound
    <3> QED BY <3>6, <3>11
  <2> QED BY <2>1, <2>2
<1>3. CASE n.state.phase = "READY"
  BY <1>3 DEF BatchResults
<1> QED BY <1>1, <1>2, <1>3 DEF IndexSound

(* finish_write, after the hooks: the anchor names the new chain.          *)
LEMMA FinishSound ==
    ASSUME NEW n, IsIndex(n), NEW d, Canonical(d), IndexSound(n, d)
    PROVE  /\ Valid(FinishNames(n, d)) /\ Current(FinishNames(n, d), d)
           /\ FinishNames(n, d).state.phase = n.state.phase
<1> DEFINE b == FinishNames(n, d)
<1>0. d.chain \in Seq(Block) /\ Linked(d.chain)
  BY DEF Canonical
<1>1. b = [keys |-> n.keys, state |-> [phase |-> n.state.phase, cursor |-> n.state.cursor,
                                       anchor |-> Anchor(d)]]
  BY DEF FinishNames, IsIndex
<1>2. /\ b.keys = n.keys /\ b.state.phase = n.state.phase
      /\ b.state.cursor = n.state.cursor /\ b.state.anchor = Anchor(d)
  BY <1>1
<1>3. IsIndex(b)
  BY <1>1 DEF IsIndex
<1> HIDE DEF b
<1>4. IndexSound(b, d) /\ AnchorNames(b, d)
  BY <1>0, <1>2, AnchorFacts DEF IndexSound, AnchorNames
<1>5. b.state.phase # "ABSENT"
  BY <1>2 DEF IndexSound
<1>6. Valid(b)
  BY <1>0, <1>3, <1>4, OnFacts DEF Valid
<1> QED BY <1>2, <1>5, <1>6 DEF Current, b

LEMMA CurrentSound ==
    ASSUME NEW n, Valid(n), NEW d, Canonical(d), Current(n, d)
    PROVE  IndexSound(n, d) /\ Prepare(n, d) = n /\ IsIndex(n)
<1>1. Prepare(n, d) = n
  BY DEF Prepare
<1> QED BY <1>1, PrepareSound

(* An index whose anchor names a chain it is sound for is valid. *)
LEMMA SoundValid ==
    ASSUME NEW n, IsIndex(n), NEW d, Canonical(d), IndexSound(n, d),
           n.state.anchor = Anchor(d)
    PROVE  Valid(n) /\ Current(n, d)
<1>1. AnchorNames(n, d) /\ n.state.phase # "ABSENT"
  BY AnchorFacts DEF Canonical, AnchorNames, IndexSound
<1> QED BY <1>1, OnFacts DEF Canonical, Valid, Current

-----------------------------------------------------------------------------
(* The inductive invariant.  An older binary leaves an index that is sound *)
(* for some other chain; a worker that is done has left a ready one.       *)
NInv == /\ IInv
        /\ Valid(names) /\ Valid(namesDisk)
        /\ hooks \in BOOLEAN
        /\ worker \in {"batch", "status", "done", "stopped"}
        /\ worker # "stopped" => hooks
        /\ worker = "done" => Ready(names, db)

LEMMA NInvFacts ==
    ASSUME NInv
    PROVE  /\ Canonical(db) /\ Canonical(disk)
           /\ db.chain \in Seq(Block) /\ Len(db.chain) \in Nat /\ db \in Database
           /\ IsIndex(Prepare(names, db)) /\ IndexSound(Prepare(names, db), db)
           /\ Prepare(names, db).state.anchor = Anchor(db)
<1>1. Canonical(db) /\ Canonical(disk) /\ db \in Database
  BY DEF NInv, IInv, Sound, Canonical, Database
<1>2. db.chain \in Seq(Block) /\ Len(db.chain) \in Nat
  BY <1>1 DEF Canonical
<1> QED BY <1>1, <1>2, PrepareSound DEF NInv

(* Every step is a call of the chain store, or none. *)
LEMMA StepImplements ==
    ASSUME [NamesNext]_namesVars
    PROVE  [Next]_vars
BY DEF NamesNext, namesVars, Next, Seed, Apply, Rollback, NamesBatch, NamesStop,
       NamesStatus, OtherIndexCommit, Restart, vars

(* A call that fails, or changes nothing. *)
LEMMA IdleKeeps ==
    ASSUME NInv, IInv', db' = db, disk' = disk, UNCHANGED <<names, namesDisk, hooks>>,
           worker' \in {"stopped", worker}
    PROVE  NInv'
BY DEF NInv, Ready, Current

(* A call that commits a new chain: the index goes with it.                *)
LEMMA CommitKeepsNames ==
    ASSUME NInv, IInv', db' # db, NEW durable \in BOOLEAN, NEW n, CommitNames(n, durable),
           hooks => /\ IsIndex(n) /\ IndexSound(n, db')
                    /\ n.state = Prepare(names, db).state
    PROVE  NInv'
<1>1. /\ hooks' = hooks /\ worker' = worker
      /\ namesDisk' = (IF durable THEN names' ELSE namesDisk)
      /\ names' = (IF hooks THEN FinishNames(n, db') ELSE names)
  BY DEF CommitNames, NInv
<1>2. CASE ~ hooks
  BY <1>1, <1>2 DEF NInv
<1>3. CASE hooks
  <2>1. Canonical(db')
    BY DEF IInv, Sound, Canonical, Database
  <2>2. /\ Valid(names') /\ Current(names', db')
        /\ names'.state.phase = Prepare(names, db).state.phase
    BY <1>1, <1>3, <2>1, FinishSound
  <2>3. worker = "done" => Ready(names', db')
    <3>1. worker = "done" => Prepare(names, db) = names /\ names.state.phase = "READY"
      BY DEF NInv, Ready, Prepare
    <3> QED BY <2>2, <3>1 DEF Ready
  <2>4. (worker = "done" => Ready(names, db))'
    BY <1>1, <2>3
  <2>5. Valid(namesDisk')
    BY <1>1, <2>2 DEF NInv
  <2> QED BY <1>1, <1>3, <2>2, <2>4, <2>5 DEF NInv
<1> QED BY <1>2, <1>3 DEF NInv

LEMMA SeedKeepsNames == ASSUME NInv, IInv', Seed PROVE NInv'
<1>1. CASE db' = db /\ disk' = disk
  BY <1>1, IdleKeeps DEF Seed, CommitNames
<1>2. CASE db.chain = <<>> /\ db' = [db EXCEPT !.seeded = TRUE] /\ db' # db
  <2>1. db'.chain = db.chain
    BY <1>2, NInvFacts DEF Database
  <2>2. IndexSound(Prepare(names, db), db')
    <3>1. Tokens(db') = Tokens(db)
      BY <2>1, Zenon DEF Tokens
    <3> QED BY <3>1, NInvFacts DEF IndexSound
  <2> QED BY <1>2, <2>2, NInvFacts, CommitKeepsNames DEF Seed
<1>3. \/ db' = db /\ disk' = disk
      \/ db.chain = <<>> /\ db' = [db EXCEPT !.seeded = TRUE] /\ db' # db
  <2>1. ~ db.seeded => [db EXCEPT !.seeded = TRUE] # db
    BY NInvFacts DEF Database
  <2> QED BY <2>1 DEF Seed, SeedGenesis, Fail, CommitImmediate
<1> QED BY <1>1, <1>2, <1>3

LEMMA ApplyKeepsNames ==
    ASSUME NInv, IInv', NEW batch \in Batch, NEW durable \in BOOLEAN, Apply(batch, durable)
    PROVE  NInv'
<1>1. CASE db' = db /\ disk' = disk
  BY <1>1, IdleKeeps DEF Apply, CommitNames
<1>2. CASE batch # <<>> /\ db' = Extend(db, batch)
  <2>1. batch \in Seq(Block) /\ db'.chain = db.chain \o batch
    BY <1>2, BatchAssumption, NInvFacts DEF Extend, Database
  <2>2. /\ Len(batch) \in Nat \ {0}
        /\ Len(db'.chain) = Len(db.chain) + Len(batch)
        /\ db'.chain \in Seq(Block)
        /\ \A i \in 1..Len(db.chain) : db'.chain[i] = db.chain[i]
    BY <1>2, <2>1, NInvFacts
  <2>3. Below(db.chain, db'.chain) /\ db' # db
    BY <2>2, NInvFacts DEF Below
  <2> DEFINE n == InsertNames(Prepare(names, db), db, db')
  <2>4. /\ IsIndex(n) /\ IndexSound(n, db')
        /\ n.state = Prepare(names, db).state
    BY <2>3, NInvFacts, InsertSound
  <2>5. CommitNames(n, durable)
    BY DEF Apply
  <2> HIDE DEF n
  <2> QED BY <2>3, <2>4, <2>5, CommitKeepsNames
<1>3. \/ db' = db /\ disk' = disk
      \/ batch # <<>> /\ db' = Extend(db, batch)
  BY DEF Apply, ApplyBatch, Fail, CommitImmediate, CommitNone
<1> QED BY <1>1, <1>2, <1>3

LEMMA RollbackKeepsNames ==
    ASSUME NInv, IInv', NEW target \in 0..Tip(db), Rollback(target)
    PROVE  NInv'
<1>1. CASE db' = db /\ disk' = disk
  BY <1>1, IdleKeeps DEF Rollback, CommitNames
<1>2. CASE ~ (Tip(db) <= target) /\ db' = Truncate(db, target)
  <2>1. db'.chain = SubSeq(db.chain, 1, target)
    BY <1>2, NInvFacts DEF Truncate, Database
  <2>2. /\ target \in Nat /\ target < Len(db.chain)
        /\ Len(db'.chain) = target /\ db'.chain \in Seq(Block)
        /\ \A i \in 1..target : db'.chain[i] = db.chain[i]
    BY <1>2, <2>1, NInvFacts DEF Tip
  <2>3. Below(db'.chain, db.chain) /\ db' # db
    BY <2>2, NInvFacts DEF Below
  <2> DEFINE n == RemoveNames(Prepare(names, db), db, db')
  <2>4. /\ IsIndex(n) /\ IndexSound(n, db')
        /\ n.state = Prepare(names, db).state
    BY <2>3, NInvFacts, RemoveSound
  <2>5. CommitNames(n, TRUE)
    BY DEF Rollback
  <2> HIDE DEF n
  <2> QED BY <2>3, <2>4, <2>5, CommitKeepsNames
<1>3. \/ db' = db /\ disk' = disk
      \/ ~ (Tip(db) <= target) /\ db' = Truncate(db, target)
  BY DEF Rollback, RollbackTo, Fail, CommitImmediate
<1> QED BY <1>1, <1>2, <1>3

LEMMA BatchKeepsNames == ASSUME NInv, IInv', NamesBatch PROVE NInv'
<1>1. /\ db' = db /\ disk' = db /\ hooks' = hooks /\ worker = "batch" /\ worker' = "status"
      /\ namesDisk' = names' /\ names' \in BatchResults(Prepare(names, db), db)
  BY DEF NamesBatch, AuxiliaryCommit, CommitImmediate
<1>2. /\ IsIndex(names') /\ IndexSound(names', db)
      /\ names'.state.anchor = Anchor(db)
  BY <1>1, NInvFacts, BatchSound
<1>3. Valid(names')
  BY <1>2, NInvFacts, SoundValid
<1> QED BY <1>1, <1>3 DEF NInv

LEMMA RestartKeepsNames ==
    ASSUME NInv, IInv', NEW binary \in BOOLEAN, Restart(binary)
    PROVE  NInv'
<1>1. /\ hooks' = binary /\ namesDisk' = names'
      /\ \/ names' = Prepare(namesDisk, disk)
         \/ names' = namesDisk
      /\ worker' = "stopped" \/ (worker' = "batch" /\ hooks')
  BY DEF Restart
<1>2. Valid(Prepare(namesDisk, disk))
  BY NInvFacts, PrepareSound, SoundValid DEF NInv
<1> QED BY <1>1, <1>2 DEF NInv

LEMMA WorkerKeepsNames ==
    ASSUME NInv, IInv', NamesStop \/ NamesStatus \/ OtherIndexCommit
    PROVE  NInv'
<1>1. CASE NamesStop
  BY <1>1, IdleKeeps DEF NamesStop, vars
<1>2. CASE NamesStatus
  <2>1. /\ UNCHANGED <<db, disk, names, namesDisk, hooks>>
        /\ worker = "status"
        /\ worker' = (IF Ready(names, db) THEN "done" ELSE "batch")
    BY <1>2 DEF NamesStatus, vars
  <2> QED BY <2>1 DEF NInv, Ready, Current
<1>3. CASE OtherIndexCommit
  <2>1. /\ db' = db /\ disk' = db /\ namesDisk' = names /\ names' = names
        /\ hooks' = hooks /\ worker' = worker
    BY <1>3 DEF OtherIndexCommit, AuxiliaryCommit, CommitImmediate
  <2> QED BY <2>1 DEF NInv, Ready, Current
<1> QED BY <1>1, <1>2, <1>3

LEMMA InitNInv == NamesInit => NInv
<1> SUFFICES ASSUME NamesInit PROVE NInv
  OBVIOUS
<1>1. IInv
  BY InitIInv DEF NamesInit
<1>2. Canonical(EmptyDatabase)
  BY <1>1 DEF NamesInit, Init, IInv, Sound, Canonical, Database
<1>3. IsIndex(NoNames) /\ NoNames.state.phase = "ABSENT"
  BY DEF NoNames, IsIndex, NoCursor
<1>4. Valid(NoNames)
  BY <1>3 DEF Valid
<1>5. Valid(Prepare(NoNames, EmptyDatabase))
  BY <1>2, <1>4, PrepareSound, SoundValid
<1>6. /\ hooks \in BOOLEAN /\ namesDisk = names
      /\ names = (IF hooks THEN Prepare(NoNames, EmptyDatabase) ELSE NoNames)
      /\ worker = (IF hooks THEN "batch" ELSE "stopped")
  BY DEF NamesInit
<1> QED BY <1>1, <1>4, <1>5, <1>6 DEF NInv

LEMMA NextNInv == NInv /\ [NamesNext]_namesVars => NInv'
<1> SUFFICES ASSUME NInv, [NamesNext]_namesVars PROVE NInv'
  OBVIOUS
<1>1. IInv'
  BY StepImplements, NextIInv DEF NInv
<1>2. CASE Seed
  BY <1>1, <1>2, SeedKeepsNames
<1>3. CASE \E batch \in Batch, durable \in BOOLEAN : Apply(batch, durable)
  BY <1>1, <1>3, ApplyKeepsNames
<1>4. CASE \E target \in 0..Tip(db) : Rollback(target)
  BY <1>1, <1>4, RollbackKeepsNames
<1>5. CASE NamesBatch
  BY <1>1, <1>5, BatchKeepsNames
<1>6. CASE NamesStop \/ NamesStatus \/ OtherIndexCommit
  BY <1>1, <1>6, WorkerKeepsNames
<1>7. CASE \E binary \in BOOLEAN : Restart(binary)
  BY <1>1, <1>7, RestartKeepsNames
<1>8. CASE UNCHANGED namesVars
  BY <1>1, <1>8, IdleKeeps DEF namesVars
<1> QED BY <1>2, <1>3, <1>4, <1>5, <1>6, <1>7, <1>8 DEF NamesNext

(* What the index is, whoever wrote it, for every instance. *)
THEOREM NamesInvariant == NamesSpec => []NInv
BY InitNInv, NextNInv, PTL DEF NamesSpec

(* The store under the name index is a chain store: the index changes none *)
(* of its calls.                                                           *)
THEOREM NamesImplementStore == NamesSpec => Spec
<1>1. NamesInit => Init
  BY DEF NamesInit
<1> QED BY <1>1, StepImplements, PTL DEF NamesSpec, Spec

(* Ready is exact now and after a crash, a rebuild holds nothing foreign   *)
(* and misses nothing behind its cursor, and a worker that left is not     *)
(* needed any more.                                                        *)
THEOREM NamesAreExact == NamesSpec => []NamesExact
<1>1. ASSUME NInv PROVE NamesExact
  <2>1. ASSUME NEW n, Valid(n), NEW d, Canonical(d), Ready(n, d)
        PROVE  n.keys = Keys(Tokens(d), Token)
    BY <2>1, CurrentSound DEF Ready, IndexSound
  <2>2. \A p \in {<<names, db>>, <<namesDisk, disk>>} :
          Ready(p[1], p[2]) => p[1].keys = Keys(Tokens(p[2]), Token)
    BY <1>1, <2>1, NInvFacts DEF NInv
  <2>3. Current(names, db) => IndexSound(names, db)
    BY <1>1, NInvFacts, CurrentSound DEF NInv
  <2> QED BY <1>1, <2>2, <2>3 DEF NamesExact, NInv, IndexSound
<1> QED BY <1>1, NamesInvariant, PTL

-----------------------------------------------------------------------------
(* Coverage: keys and named tokens are as many. *)

LEMMA FiniteTokens ==
    ASSUME NEW d, d.chain \in Seq(Block)
    PROVE  IsFiniteSet(DOMAIN Tokens(d))
<1> DEFINE c == d.chain
           Part(h) == DOMAIN Mint[c[h]]
           Parts == {Part(h) : h \in 1..Len(c)}
<1>1. Len(c) \in Nat /\ IsFiniteSet(1..Len(c))
  BY FS_Interval
<1>2. IsFiniteSet(Parts)
  <2> DEFINE f == [h \in 1..Len(c) |-> Part(h)]
  <2>1. f \in Surjection(1..Len(c), Parts)
    BY DEF Surjection
  <2> HIDE DEF f, Parts
  <2> QED BY <1>1, <2>1, FS_Surjection
<1>3. \A P \in Parts : IsFiniteSet(P)
  <2>1. \A h \in 1..Len(c) : c[h] \in Block
    OBVIOUS
  <2> QED BY <2>1, NameAssumption
<1>4. IsFiniteSet(UNION Parts)
  <2> HIDE DEF Parts
  <2> QED BY <1>2, <1>3, FS_UNION
<1>5. DOMAIN Tokens(d) \subseteq UNION Parts
  BY TokenFacts DEF MintedAt
<1> QED BY <1>4, <1>5, FS_Subset

(* Sets a bijection connects are of the same size.                         *)
LEMMA SameSize ==
    ASSUME NEW A, NEW B, IsFiniteSet(A), NEW g \in Bijection(A, B)
    PROVE  IsFiniteSet(B) /\ Cardinality(B) = Cardinality(A)
<1>1. ExistsBijection(A, B)
  BY DEF ExistsBijection
<1> QED BY <1>1, FS_Bijection

(* A ready index's coverage is what the chain's names make it. *)
THEOREM NamesCoverageExact == NamesSpec => []CoverageExact
<1>1. ASSUME NInv, NamesExact, Ready(names, db)
      PROVE  /\ ~ (Cardinality(DOMAIN Tokens(db)) < Cardinality(names.keys))
             /\ Cardinality(DOMAIN Tokens(db)) - Cardinality(names.keys)
                  = Cardinality({t \in DOMAIN Tokens(db) : Fold[Tokens(db)[t]] = <<>>})
  <2> DEFINE R == Tokens(db)
             named == {t \in DOMAIN R : Fold[R[t]] # <<>>}
             bare == {t \in DOMAIN R : Fold[R[t]] = <<>>}
             f == [t \in named |-> <<Fold[R[t]], t>>]
  <2>1. names.keys = Keys(R, Token) /\ DOMAIN R \subseteq Token
    BY <1>1, NInvFacts, TokenFacts DEF NamesExact
  <2>2. IsFiniteSet(DOMAIN R)
    BY <1>1, NInvFacts, FiniteTokens
  <2>3. IsFiniteSet(named) /\ IsFiniteSet(bare)
    BY <2>2, FS_Subset
  <2>4. f \in Bijection(named, names.keys)
    <3>1. \A t \in named : f[t] \in names.keys
      BY <2>1 DEF Keys
    <3>2. \A k \in names.keys : k[2] \in named /\ f[k[2]] = k
      BY <2>1 DEF Keys
    <3>3. \A t, u \in named : f[t] = f[u] => t = u
      OBVIOUS
    <3>4. f \in [named -> names.keys]
      BY <3>1
    <3> HIDE DEF f, named
    <3> QED BY <3>2, <3>3, <3>4 DEF Bijection, Injection, Surjection, IsInjective
  <2>5. IsFiniteSet(names.keys) /\ Cardinality(names.keys) = Cardinality(named)
    <3> HIDE DEF f, named
    <3> QED BY <2>3, <2>4, SameSize
  <2>6. Cardinality(DOMAIN R) = Cardinality(named) + Cardinality(bare)
    <3>1. named \cup bare = DOMAIN R /\ named \cap bare = {}
      OBVIOUS
    <3> HIDE DEF named, bare
    <3>2. Cardinality(named \cup bare)
            = Cardinality(named) + Cardinality(bare) - Cardinality({})
      BY <2>3, <3>1, FS_Union
    <3> QED BY <2>3, <3>1, <3>2, FS_EmptySet, FS_CardinalityType
  <2>7. Cardinality(named) \in Nat /\ Cardinality(bare) \in Nat
    BY <2>3, FS_CardinalityType
  <2> HIDE DEF named, bare, f
  <2> QED BY <2>5, <2>6, <2>7 DEF bare
<1>2. NInv /\ NamesExact => CoverageExact
  BY <1>1 DEF CoverageExact, Status
<1> QED BY <1>2, NamesInvariant, NamesAreExact, PTL

-----------------------------------------------------------------------------
(* The order of the keys: a name ends with a zero byte, here the -1 past   *)
(* its end, so that the first byte in which two names differ decides.      *)

Name == Seq(Nat \ {0})

Byte(s, i) == IF i \in 1..Len(s) THEN s[i] ELSE -1

DecidedAt(s, t, i) ==
    /\ Byte(s, i) < Byte(t, i)
    /\ \A j \in 1..(i - 1) : Byte(s, j) = Byte(t, j)

LEMMA SamePrefix ==
    ASSUME NEW s \in Name, NEW t \in Name, NEW n \in Nat, n <= Len(s), n <= Len(t)
    PROVE  SubSeq(s, 1, n) = SubSeq(t, 1, n) <=> \A j \in 1..n : s[j] = t[j]
<1> DEFINE a == SubSeq(s, 1, n)
           b == SubSeq(t, 1, n)
<1>1. /\ a = [j \in 1..n |-> s[j]] /\ b = [j \in 1..n |-> t[j]]
  BY DEF Name
<1> HIDE DEF a, b
<1>2. (\A j \in 1..n : s[j] = t[j]) => a = b
  BY <1>1
<1>3. a = b => \A j \in 1..n : s[j] = t[j]
  BY <1>1
<1> QED BY <1>2, <1>3 DEF a, b

LEMMA BytesDecided ==
    ASSUME NEW s \in Name, NEW t \in Name
    PROVE  BytesBefore(s, t) <=> \E i \in Nat \ {0} : DecidedAt(s, t, i)
<1>0. Len(s) \in Nat /\ Len(t) \in Nat
  BY DEF Name
<1>1. /\ Len(s) \in Nat /\ Len(t) \in Nat
      /\ \A i \in 1..Len(s) : s[i] \in Nat
      /\ \A i \in 1..Len(t) : t[i] \in Nat
  BY DEF Name
<1> DEFINE m == Min({Len(s), Len(t)})
<1>2. m \in Nat /\ m <= Len(s) /\ m <= Len(t) /\ (m = Len(s) \/ m = Len(t))
  <2>1. \E x \in {Len(s), Len(t)} : \A y \in {Len(s), Len(t)} : x <= y
    BY <1>1
  <2>2. m \in {Len(s), Len(t)} /\ \A y \in {Len(s), Len(t)} : m <= y
    BY <2>1 DEF Min
  <2> HIDE DEF m
  <2> QED BY <1>1, <2>2
<1>3. IsStrictPrefix(s, t) <=>
        Len(s) < Len(t) /\ \A j \in 1..Len(s) : s[j] = t[j]
  <2>1. IsPrefix(s, t) <=> Len(s) <= Len(t) /\ \A j \in 1..Len(s) : s[j] = t[j]
    BY <1>1, SamePrefix DEF IsPrefix
  <2>2. Len(s) = Len(t) /\ (\A j \in 1..Len(s) : s[j] = t[j]) => s = t
    BY DEF Name
  <2> QED BY <1>0, <2>1, <2>2 DEF IsStrictPrefix
<1> HIDE DEF m
<1>4. ASSUME NEW i \in 1..m
      PROVE  s[i] < t[i] /\ SubSeq(s, 1, i - 1) = SubSeq(t, 1, i - 1)
                <=> DecidedAt(s, t, i)
  <2>1. SubSeq(s, 1, i - 1) = SubSeq(t, 1, i - 1) <=> \A j \in 1..(i - 1) : s[j] = t[j]
    <3>1. i - 1 \in Nat /\ i - 1 <= Len(s) /\ i - 1 <= Len(t)
      BY <1>0, <1>2
    <3> QED BY <3>1, SamePrefix
  <2>2. \A j \in 1..i : Byte(s, j) = s[j] /\ Byte(t, j) = t[j]
    BY <1>0, <1>2 DEF Byte
  <2> QED BY <2>1, <2>2, <1>2 DEF DecidedAt
<1>5. IsStrictPrefix(s, t) <=> Len(s) < Len(t) /\ DecidedAt(s, t, Len(s) + 1)
  <2>1. Byte(s, Len(s) + 1) = -1
    BY <1>1 DEF Byte
  <2>2. Len(s) < Len(t) => Byte(t, Len(s) + 1) \in Nat
    BY <1>1 DEF Byte
  <2>3. ASSUME NEW j \in 1..Len(s), Len(s) < Len(t) PROVE Byte(s, j) = s[j] /\ Byte(t, j) = t[j]
    BY <1>1, <2>3 DEF Byte
  <2>4. Len(s) + 1 - 1 = Len(s)
    BY <1>1
  <2> QED BY <1>3, <2>1, <2>2, <2>3, <2>4 DEF DecidedAt
<1>6. ASSUME NEW i \in Nat \ {0}, DecidedAt(s, t, i)
      PROVE  i \in 1..m \/ (i = Len(s) + 1 /\ Len(s) < Len(t))
  <2>1. i \in 1..Len(t)
    <3>1. Byte(s, i) \in Int /\ Byte(s, i) >= -1
      BY <1>1 DEF Byte
    <3> QED BY <1>6, <3>1, <1>1 DEF DecidedAt, Byte
  <2>2. i <= Len(s) + 1
    <3>1. SUFFICES ASSUME i > Len(s) + 1 PROVE FALSE
      BY <1>1
    <3>2. Len(s) + 1 \in 1..(i - 1) /\ Len(s) + 1 \in 1..Len(t)
      BY <1>1, <2>1, <3>1
    <3>3. Byte(s, Len(s) + 1) = -1 /\ Byte(t, Len(s) + 1) \in Nat
      BY <1>1, <3>2 DEF Byte
    <3> QED BY <1>6, <3>2, <3>3 DEF DecidedAt
  <2> QED BY <1>0, <1>2, <2>1, <2>2
<1>7. BytesBefore(s, t) <=> IsStrictPrefix(s, t) \/ \E i \in 1..m : DecidedAt(s, t, i)
  BY <1>4 DEF BytesBefore, m
<1>8. 1..m \subseteq Nat \ {0} /\ Len(s) + 1 \in Nat \ {0}
  BY <1>0, <1>2
<1> QED BY <1>5, <1>6, <1>7, <1>8

LEMMA ByteFacts ==
    ASSUME NEW s \in Name
    PROVE  \A i : Byte(s, i) \in Int
<1>1. \A i \in 1..Len(s) : s[i] \in Nat
  BY DEF Name
<1> QED BY <1>1 DEF Byte

LEMMA BytesOrder ==
    /\ \A s \in Name : ~ BytesBefore(s, s)
    /\ \A s, t, u \in Name : BytesBefore(s, t) /\ BytesBefore(t, u) => BytesBefore(s, u)
    /\ \A s, t \in Name : s # t => BytesBefore(s, t) \/ BytesBefore(t, s)
<1>1. ASSUME NEW s \in Name PROVE ~ BytesBefore(s, s)
  <2>1. \A i : ~ DecidedAt(s, s, i)
    BY ByteFacts DEF DecidedAt
  <2> QED BY <2>1, BytesDecided
<1>2. ASSUME NEW s \in Name, NEW t \in Name, NEW u \in Name,
             BytesBefore(s, t), BytesBefore(t, u)
      PROVE  BytesBefore(s, u)
  <2>1. PICK i \in Nat \ {0} : DecidedAt(s, t, i)
    BY <1>2, BytesDecided
  <2>2. PICK j \in Nat \ {0} : DecidedAt(t, u, j)
    BY <1>2, BytesDecided
  <2>3. \A k : Byte(s, k) \in Int /\ Byte(t, k) \in Int /\ Byte(u, k) \in Int
    BY ByteFacts
  <2>4. CASE i <= j
    <3>1. DecidedAt(s, u, i)
      BY <2>1, <2>2, <2>3, <2>4 DEF DecidedAt
    <3> QED BY <3>1, BytesDecided
  <2>5. CASE j < i
    <3>1. DecidedAt(s, u, j)
      BY <2>1, <2>2, <2>3, <2>5 DEF DecidedAt
    <3> QED BY <3>1, BytesDecided
  <2> QED BY <2>4, <2>5
<1>3. ASSUME NEW s \in Name, NEW t \in Name, s # t
      PROVE  BytesBefore(s, t) \/ BytesBefore(t, s)
  <2> DEFINE D == {i \in Nat \ {0} : Byte(s, i) # Byte(t, i)}
  <2>1. Len(s) \in Nat /\ Len(t) \in Nat
    BY DEF Name
  <2>2. (\A i \in 1..Len(s) : s[i] \in Nat) /\ (\A i \in 1..Len(t) : t[i] \in Nat)
    BY DEF Name
  <2>3. D # {}
    <3>1. CASE Len(s) < Len(t)
      <4>1. Byte(s, Len(t)) = -1 /\ Byte(t, Len(t)) \in Nat
        BY <2>1, <2>2, <3>1 DEF Byte
      <4> QED BY <2>1, <3>1, <4>1
    <3>2. CASE Len(t) < Len(s)
      <4>1. Byte(t, Len(s)) = -1 /\ Byte(s, Len(s)) \in Nat
        BY <2>1, <2>2, <3>2 DEF Byte
      <4> QED BY <2>1, <3>2, <4>1
    <3>3. CASE Len(s) = Len(t)
      <4>1. \E i \in 1..Len(s) : s[i] # t[i]
        BY <1>3, <3>3 DEF Name
      <4>2. PICK i \in 1..Len(s) : s[i] # t[i]
        BY <4>1
      <4>3. i \in Nat \ {0} /\ Byte(s, i) = s[i] /\ Byte(t, i) = t[i]
        BY <2>1, <3>3 DEF Byte
      <4> QED BY <4>2, <4>3
    <3> QED BY <2>1, <3>1, <3>2, <3>3
  <2>4. PICK i \in D : \A k \in D : i <= k
    <3>1. D \subseteq Nat
      OBVIOUS
    <3> HIDE DEF D
    <3> QED BY <2>3, <3>1, Least
  <2>5. \A k \in 1..(i - 1) : Byte(s, k) = Byte(t, k)
    BY <2>4
  <2>6. Byte(s, i) \in Int /\ Byte(t, i) \in Int /\ Byte(s, i) # Byte(t, i)
    BY ByteFacts
  <2>7. DecidedAt(s, t, i) \/ DecidedAt(t, s, i)
    BY <2>5, <2>6 DEF DecidedAt
  <2> QED BY <2>7, BytesDecided
<1> QED BY <1>1, <1>2, <1>3

Key == Name \X Nat

(* Keys are in a strict total order. *)
LEMMA KeyOrder ==
    /\ \A k \in Key : ~ KeyBefore(k, k)
    /\ \A k, l, m \in Key : KeyBefore(k, l) /\ KeyBefore(l, m) => KeyBefore(k, m)
    /\ \A k, l \in Key : k # l => KeyBefore(k, l) \/ KeyBefore(l, k)
<1>1. \A k \in Key : k[1] \in Name /\ k[2] \in Nat /\ k = <<k[1], k[2]>>
  BY DEF Key
<1>2. ASSUME NEW k \in Key PROVE ~ KeyBefore(k, k)
  BY <1>1, BytesOrder DEF KeyBefore
<1>3. ASSUME NEW k \in Key, NEW l \in Key, NEW m \in Key, KeyBefore(k, l), KeyBefore(l, m)
      PROVE  KeyBefore(k, m)
  <2>1. /\ k[1] \in Name /\ l[1] \in Name /\ m[1] \in Name
        /\ k[2] \in Nat /\ l[2] \in Nat /\ m[2] \in Nat
    BY <1>1
  <2>2. k[2] < l[2] /\ l[2] < m[2] => k[2] < m[2]
    BY <2>1
  <2> QED BY <1>3, <2>1, <2>2, BytesOrder DEF KeyBefore
<1>4. ASSUME NEW k \in Key, NEW l \in Key, k # l PROVE KeyBefore(k, l) \/ KeyBefore(l, k)
  <2>1. /\ k[1] \in Name /\ l[1] \in Name /\ k[2] \in Nat /\ l[2] \in Nat
        /\ k[1] # l[1] \/ k[2] # l[2]
    BY <1>1, <1>4
  <2>2. k[2] # l[2] => k[2] < l[2] \/ l[2] < k[2]
    BY <2>1
  <2> QED BY <2>1, <2>2, BytesOrder DEF KeyBefore
<1> QED BY <1>2, <1>3, <1>4

(* A key's place among others: how many of them are before it.             *)
Under(S, k) == {l \in S : KeyBefore(l, k)}

Rank(S, k) == Cardinality(Under(S, k))

LEMMA AroundOne ==
    ASSUME NEW A, IsFiniteSet(A), NEW B, IsFiniteSet(B), A \cap B = {}, NEW c, c \notin A \cup B
    PROVE  /\ Cardinality(A) \in Nat /\ Cardinality(B) \in Nat
           /\ Cardinality((A \cup {c}) \cup B) = Cardinality(A) + 1 + Cardinality(B)
<1>1. Cardinality(A) \in Nat /\ Cardinality(B) \in Nat
  BY FS_CardinalityType
<1>2. IsFiniteSet(A \cup {c}) /\ Cardinality(A \cup {c}) = Cardinality(A) + 1
  BY FS_AddElement
<1>3. Cardinality((A \cup {c}) \cup B)
        = Cardinality(A \cup {c}) + Cardinality(B) - Cardinality((A \cup {c}) \cap B)
  BY <1>2, FS_Union
<1>4. Cardinality((A \cup {c}) \cap B) = 0
  <2>1. (A \cup {c}) \cap B = {}
    OBVIOUS
  <2> QED BY <2>1, FS_EmptySet
<1> QED BY <1>1, <1>2, <1>3, <1>4

LEMMA Ranks ==
    ASSUME NEW S, S \subseteq Key, IsFiniteSet(S)
    PROVE  /\ Cardinality(S) \in Nat
           /\ \A k \in S : Rank(S, k) \in 0..(Cardinality(S) - 1)
           /\ \A k, l \in S : Rank(S, k) = Rank(S, l) => k = l
           /\ \A i \in 1..Cardinality(S) : \E k \in S : Rank(S, k) = i - 1
<1> DEFINE N == Cardinality(S)
           f == [k \in S |-> Rank(S, k) + 1]
<1>1. N \in Nat
  BY FS_CardinalityType
<1>2. ASSUME NEW k \in S PROVE Rank(S, k) \in 0..(N - 1)
  <2>1. Under(S, k) \subseteq S /\ k \notin Under(S, k)
    BY KeyOrder DEF Under
  <2>2. IsFiniteSet(Under(S, k)) /\ Cardinality(Under(S, k)) <= N /\ Cardinality(Under(S, k)) # N
    BY <2>1, FS_Subset
  <2>3. Cardinality(Under(S, k)) \in Nat
    BY <2>2, FS_CardinalityType
  <2> QED BY <1>1, <2>2, <2>3 DEF Rank
<1>3. ASSUME NEW k \in S, NEW l \in S, KeyBefore(k, l) PROVE Rank(S, k) < Rank(S, l)
  <2>1. Under(S, k) \subseteq Under(S, l)
    BY <1>3, KeyOrder DEF Under
  <2>2. k \in Under(S, l) /\ k \notin Under(S, k)
    BY <1>3, KeyOrder DEF Under
  <2>3. IsFiniteSet(Under(S, l))
    BY FS_Subset DEF Under
  <2>4. Rank(S, k) <= Rank(S, l) /\ Rank(S, k) # Rank(S, l)
    BY <2>1, <2>2, <2>3, FS_Subset DEF Rank
  <2> QED BY <1>1, <1>2, <2>4
<1>4. ASSUME NEW k \in S, NEW l \in S, Rank(S, k) = Rank(S, l) PROVE k = l
  <2>1. Rank(S, k) \in Int
    BY <1>1, <1>2
  <2>2. ~ KeyBefore(k, l) /\ ~ KeyBefore(l, k)
    BY <1>3, <1>4, <2>1
  <2> QED BY <2>2, KeyOrder
<1>5. f \in Injection(S, 1..N)
  <2>1. \A k \in S : Rank(S, k) + 1 \in 1..N
    BY <1>1, <1>2
  <2>2. \A k \in S : Rank(S, k) \in Int
    BY <1>1, <1>2
  <2>3. \A k, l \in S : Rank(S, k) + 1 = Rank(S, l) + 1 => k = l
    BY <1>4, <2>2
  <2> QED BY <2>1, <2>3 DEF Injection, IsInjective
<1>6. IsFiniteSet(1..N) /\ Cardinality(1..N) = N
  <2>1. 1 \in Int /\ N \in Int
    BY <1>1
  <2> HIDE DEF N
  <2> QED BY <1>1, <2>1, FS_Interval
<1>7. f \in Surjection(S, 1..N)
  <2> HIDE DEF f
  <2> QED BY <1>5, <1>6, FS_Injection
<1>8. ASSUME NEW i \in 1..N PROVE \E k \in S : Rank(S, k) = i - 1
  <2>1. PICK k \in S : f[k] = i
    BY <1>7, <1>8 DEF Surjection
  <2>2. Rank(S, k) \in Int
    BY <1>1, <1>2
  <2> QED BY <1>1, <2>1, <2>2
<1> QED BY <1>1, <1>2, <1>4, <1>8

(* The list has every key where its rank puts it.                          *)
LEMMA Listed ==
    ASSUME NEW S, S \subseteq Key, IsFiniteSet(S), NEW i \in 1..Cardinality(S)
    PROVE  /\ InOrder(S)[i] \in S
           /\ Rank(S, InOrder(S)[i]) = i - 1
           /\ \A k \in S : Rank(S, k) = i - 1 => InOrder(S)[i] = k
<1>1. InOrder(S)[i] = CHOOSE k \in S : Rank(S, k) = i - 1
  BY DEF InOrder, Rank, Under
<1>2. \E k \in S : Rank(S, k) = i - 1
  BY Ranks
<1>3. InOrder(S)[i] \in S /\ Rank(S, InOrder(S)[i]) = i - 1
  BY <1>1, <1>2
<1> QED BY <1>3, Ranks

(* What is after the m-th key of a list is the rest of the list.           *)
LEMMA RestListed ==
    ASSUME NEW S, S \subseteq Key, IsFiniteSet(S), NEW m \in 1..Cardinality(S),
           NEW L, L = {k \in S : KeyBefore(InOrder(S)[m], k)}
    PROVE  /\ IsFiniteSet(L) /\ L \subseteq Key
           /\ Cardinality(L) = Cardinality(S) - m
           /\ \A j \in 1..Cardinality(L) : InOrder(L)[j] = InOrder(S)[m + j]
<1> DEFINE c == InOrder(S)[m]
           A == Under(S, c)
<1>1. c \in S /\ Rank(S, c) = m - 1
  BY Listed
<1>2. Cardinality(S) \in Nat
  BY Ranks
<1> HIDE DEF c
<1>3. L = {k \in S : KeyBefore(c, k)}
  BY DEF c
<1>4. IsFiniteSet(A) /\ IsFiniteSet(L) /\ L \subseteq Key
  BY <1>3, FS_Subset DEF Under
<1>5. /\ A \cap L = {} /\ c \notin A \cup L
      /\ S = (A \cup {c}) \cup L
  BY <1>1, <1>3, KeyOrder DEF Under
<1>6. Cardinality(A) = m - 1
  BY <1>1 DEF Rank
<1>7. Cardinality(L) \in Nat /\ Cardinality(L) = Cardinality(S) - m
  <2> HIDE DEF A
  <2>1. Cardinality(L) \in Nat /\ Cardinality(S) = Cardinality(A) + 1 + Cardinality(L)
    BY <1>4, <1>5, AroundOne
  <2> QED BY <1>2, <1>6, <2>1
<1>8. ASSUME NEW k \in L PROVE Rank(S, k) = m + Rank(L, k) /\ Rank(L, k) \in Nat
  <2> DEFINE B == Under(L, k)
  <2>1. Under(S, k) = (A \cup {c}) \cup B
    <3>1. k \in Key /\ c \in Key /\ KeyBefore(c, k) /\ k \in S
      BY <1>1, <1>3
    <3>2. \A l \in S : KeyBefore(l, k) <=> l \in A \/ l = c \/ (l \in L /\ KeyBefore(l, k))
      BY <1>1, <1>3, <3>1, KeyOrder DEF Under
    <3> QED BY <1>1, <1>3, <3>2 DEF Under
  <2>2. IsFiniteSet(B) /\ B \subseteq L
    BY <1>4, FS_Subset DEF Under
  <2> HIDE DEF A, B
  <2>3. A \cap B = {} /\ c \notin A \cup B
    BY <1>5, <2>2
  <2>4. Cardinality(B) \in Nat /\ Cardinality(Under(S, k)) = Cardinality(A) + 1 + Cardinality(B)
    BY <1>4, <2>1, <2>2, <2>3, AroundOne
  <2> QED BY <1>6, <2>4 DEF Rank, B
<1>9. ASSUME NEW j \in 1..Cardinality(L) PROVE InOrder(L)[j] = InOrder(S)[m + j]
  <2> DEFINE k == InOrder(L)[j]
  <2>1. k \in L /\ Rank(L, k) = j - 1
    BY <1>4, Listed
  <2> HIDE DEF k
  <2>2. k \in S /\ m + j \in 1..Cardinality(S) /\ Rank(S, k) = (m + j) - 1
    BY <1>2, <1>3, <1>7, <1>8, <2>1
  <2>3. InOrder(S)[m + j] = k
    BY <2>2, Listed
  <2> QED BY <2>3 DEF k
<1> QED BY <1>4, <1>7, <1>9

-----------------------------------------------------------------------------
(* A search of a ready index.                                              *)

LEMMA MatchingFacts ==
    ASSUME NEW d, d.chain \in Seq(Block), NEW q
    PROVE  LET S == Matching(d, q)
           IN  /\ IsFiniteSet(S) /\ S \subseteq Key
               /\ Cardinality(S) <= Cardinality(DOMAIN Tokens(d))
               /\ \A k \in S : /\ k = <<Fold[Tokens(d)[k[2]]], k[2]>>
                               /\ k[2] \in DOMAIN Tokens(d) /\ k[2] \in Nat
                               /\ MatchesQuery(k, q)
<1> DEFINE R == Tokens(d)
           S == Matching(d, q)
           f == [k \in S |-> k[2]]
<1>1. \A k \in S : /\ k = <<Fold[R[k[2]]], k[2]>> /\ k[2] \in DOMAIN R
                   /\ k[2] \in Token /\ MatchesQuery(k, q)
  BY DEF Matching, Keys
<1>2. ASSUME NEW t \in DOMAIN R PROVE t \in Nat /\ Fold[R[t]] \in Name
  <2> DEFINE h == Min(MintedAt(d.chain, t))
  <2>1. MintedAt(d.chain, t) # {} /\ R[t] = Mint[d.chain[h]][t]
    BY TokenFacts
  <2>2. h \in DOMAIN d.chain /\ t \in DOMAIN Mint[d.chain[h]]
    <3>1. h \in MintedAt(d.chain, t)
      BY <2>1, FirstMint
    <3> HIDE DEF h
    <3> QED BY <3>1 DEF MintedAt
  <2> HIDE DEF h, R
  <2>3. d.chain[h] \in Block
    BY <2>2
  <2>4. R[t] \in Range(Mint[d.chain[h]])
    BY <2>1, <2>2 DEF Range
  <2>5. R[t] \in DOMAIN Fold
    BY <2>3, <2>4, NameAssumption
  <2>6. t \in Nat
    BY TokenFacts, NameAssumption DEF R
  <2> QED BY <2>5, <2>6, NameAssumption DEF Name
<1> HIDE DEF R, S
<1>3. S \subseteq Key
  <2>1. ASSUME NEW k \in S PROVE k \in Key
    BY <1>1, <1>2 DEF Key
  <2> QED BY <2>1
<1>4. IsFiniteSet(S) /\ Cardinality(S) <= Cardinality(DOMAIN R)
  <2>1. f \in Injection(S, DOMAIN R)
    BY <1>1 DEF Injection, IsInjective
  <2>2. IsFiniteSet(DOMAIN R)
    BY FiniteTokens DEF R
  <2> HIDE DEF f
  <2> QED BY <2>1, <2>2, FS_Injection
<1> QED BY <1>1, <1>2, <1>3, <1>4 DEF R, S

LEMMA LesserOfTwo ==
    ASSUME NEW a \in Nat, NEW b \in Nat
    PROVE  Min({a, b}) = IF a <= b THEN a ELSE b
<1>1. \E x \in {a, b} : \A y \in {a, b} : x <= y
  OBVIOUS
<1>2. Min({a, b}) \in {a, b} /\ \A y \in {a, b} : Min({a, b}) <= y
  BY <1>1 DEF Min
<1> QED BY <1>2

(* The place a reader is at after m of the matching keys.                  *)
CursorAt(list, m) == IF m = 0 THEN NoCursor ELSE list[m][2]

PageOf(list, m, left, limit) ==
    LET size == IF limit <= left THEN limit ELSE left
    IN  [answer |-> "ok", items |-> [i \in 1..size |-> list[m + i][2]],
         next |-> IF left > limit THEN list[m + limit][2] ELSE NoCursor]

(* One page gives the next `limit` of them and the cursor behind them.     *)
LEMMA PageGiven ==
    ASSUME NEW n, NEW d, d.chain \in Seq(Block), NEW q,
           Ready(n, d), n.keys = Keys(Tokens(d), Token),
           NEW limit \in Nat \ {0}, NEW m \in 0..Cardinality(Matching(d, q))
    PROVE  Search(n, d, q, CursorAt(InOrder(Matching(d, q)), m), limit)
              = PageOf(InOrder(Matching(d, q)), m, Cardinality(Matching(d, q)) - m, limit)
<1> DEFINE S == Matching(d, q)
           list == InOrder(S)
           R == Tokens(d)
           cursor == CursorAt(list, m)
           after == <<Fold[R[cursor]], cursor>>
           L == {k \in n.keys : /\ MatchesQuery(k, q)
                                /\ cursor # NoCursor => KeyBefore(after, k)}
           rest == Cardinality(S) - m
           size == IF limit <= rest THEN limit ELSE rest
           page == SubSeq(InOrder(L), 1, Min({limit, Cardinality(L)}))
           sound(k) == k[2] \in DOMAIN R /\ Fold[R[k[2]]] = k[1]
<1>1. /\ IsFiniteSet(S) /\ S \subseteq Key
      /\ \A k \in S : /\ k = <<Fold[R[k[2]]], k[2]>> /\ k[2] \in DOMAIN R
                      /\ k[2] \in Nat /\ MatchesQuery(k, q)
  BY MatchingFacts
<1>2. \A k : k \in S <=> k \in n.keys /\ MatchesQuery(k, q)
  BY DEF Matching
<1>3. Cardinality(S) \in Nat
  BY <1>1, FS_CardinalityType
<1> HIDE DEF S, R
<1>4. ASSUME m # 0
      PROVE  /\ after = list[m] /\ cursor # NoCursor
             /\ cursor \in DOMAIN R /\ MatchesQuery(after, q)
  <2>1. m \in 1..Cardinality(S)
    BY <1>3, <1>4 DEF S
  <2>2. list[m] \in S
    BY <1>1, <2>1, Listed
  <2>3. cursor = list[m][2]
    BY <1>4 DEF CursorAt
  <2> HIDE DEF list, cursor
  <2> QED BY <1>1, <2>2, <2>3 DEF NoCursor
<1>5. /\ IsFiniteSet(L) /\ L \subseteq S
      /\ Cardinality(L) = rest
      /\ \A j \in 1..rest : InOrder(L)[j] = list[m + j]
  <2>1. CASE m = 0
    <3>1. cursor = NoCursor
      BY <2>1 DEF CursorAt
    <3>2. L = S
      <4> HIDE DEF cursor
      <4> QED BY <1>2, <3>1
    <3> HIDE DEF L
    <3>3. rest = Cardinality(S)
      BY <1>3, <2>1
    <3>4. \A j \in 1..Cardinality(S) : m + j = j
      BY <1>3, <2>1
    <3> QED BY <1>1, <3>2, <3>3, <3>4
  <2>2. CASE m # 0
    <3>1. L = {k \in S : KeyBefore(list[m], k)}
      <4> HIDE DEF list, cursor, after
      <4> QED BY <1>2, <1>4, <2>2
    <3>2. m \in 1..Cardinality(S)
      BY <1>3, <2>2 DEF S
    <3> HIDE DEF L
    <3> QED BY <1>1, <3>1, <3>2, RestListed
  <2> QED BY <2>1, <2>2
<1>6. rest \in Nat /\ size \in Nat /\ size <= rest
  BY <1>3 DEF S
<1>7. Min({limit, rest}) = size
  BY <1>6, LesserOfTwo
<1> HIDE DEF L, cursor, after
<1>8. page = [i \in 1..size |-> list[m + i]] /\ Len(page) = size
  <2>1. page = [i \in 1..size |-> InOrder(L)[i]]
    <3>1. page = SubSeq(InOrder(L), 1, size)
      BY <1>5, <1>7
    <3>2. Len(InOrder(L)) = rest
      BY <1>5, <1>6 DEF InOrder
    <3> HIDE DEF page, size
    <3> QED BY <1>6, <3>1
  <2>2. \A i \in 1..size : InOrder(L)[i] = list[m + i]
    BY <1>5, <1>6
  <2> HIDE DEF page, size, list
  <2> QED BY <1>6, <2>1, <2>2
<1>9. ASSUME NEW i \in 1..size PROVE list[m + i] \in S
  <2>1. m + i \in 1..Cardinality(S)
    BY <1>3, <1>6 DEF S
  <2> QED BY <1>1, <2>1, Listed
<1>10. \A k \in Range(page) : sound(k)
  <2>1. \A k \in Range(page) : k \in S
    <3> HIDE DEF page, size
    <3> QED BY <1>8, <1>9 DEF Range
  <2>2. \A k \in S : k[1] = Fold[R[k[2]]]
    BY <1>1
  <2> QED BY <1>1, <2>1, <2>2
<1>11. ~ (cursor # NoCursor /\ (cursor \notin DOMAIN R \/ ~ MatchesQuery(after, q)))
  <2>1. m = 0 => cursor = NoCursor
    BY DEF CursorAt, cursor
  <2> QED BY <1>4, <2>1
<1>12. Search(n, d, q, cursor, limit)
         = [answer |-> "ok", items |-> [i \in DOMAIN page |-> page[i][2]],
            next |-> IF Cardinality(L) > limit THEN Last(page)[2] ELSE NoCursor]
  <2> HIDE DEF page
  <2> QED BY <1>10, <1>11 DEF Search, R, L, after, page
<1>13. [i \in DOMAIN page |-> page[i][2]] = [i \in 1..size |-> list[m + i][2]]
  <2> HIDE DEF page, size, list
  <2> QED BY <1>8
<1>14. (IF Cardinality(L) > limit THEN Last(page)[2] ELSE NoCursor)
         = (IF rest > limit THEN list[m + limit][2] ELSE NoCursor)
  <2>1. ASSUME rest > limit PROVE Last(page) = list[m + limit]
    <3>1. size = limit /\ limit \in 1..size
      BY <1>6, <2>1
    <3> HIDE DEF page, size, list, rest
    <3> QED BY <1>8, <3>1 DEF Last
  <2> QED BY <1>5, <2>1
<1> QED BY <1>12, <1>13, <1>14 DEF S, cursor, PageOf

(* What a reader has after i pages: some beginning of the list, at least a *)
(* key a page, or all of it.  p is the index and its database, r the query *)
(* and the limit.                                                          *)
ReadFrom(p, r, base, i, w) ==
    LET found == Matching(p[2], r[1])
        list  == InOrder(found)
    IN  \E m \in 0..Cardinality(found), done \in BOOLEAN :
           /\ w = [items |-> [j \in 1..m |-> list[j][2]], ok |-> TRUE, done |-> done,
                   next  |-> IF done THEN NoCursor ELSE CursorAt(list, m)]
           /\ IF done THEN m = Cardinality(found) ELSE i <= m

LOCAL Turning == INSTANCE FoldTheory WITH
    Op <- LAMBDA p, r, w, i : PageTurned(p[1], p[2], r[1], r[2], w), Inv <- ReadFrom

LEMMA TurnKeeps ==
    ASSUME NEW n, NEW d, d.chain \in Seq(Block), NEW q,
           Ready(n, d), n.keys = Keys(Tokens(d), Token), NEW limit \in Nat \ {0},
           NEW base, NEW i \in Nat, NEW w, ReadFrom(<<n, d>>, <<q, limit>>, base, i, w)
    PROVE  ReadFrom(<<n, d>>, <<q, limit>>, base, i + 1, PageTurned(n, d, q, limit, w))
<1> DEFINE S == Matching(d, q)
           N == Cardinality(S)
           list == InOrder(S)
           next == PageTurned(n, d, q, limit, w)
<1>1. N \in Nat
  BY MatchingFacts, FS_CardinalityType
<1>2. PICK m \in 0..N, done \in BOOLEAN :
        /\ w = [items |-> [j \in 1..m |-> list[j][2]], ok |-> TRUE, done |-> done,
                next  |-> IF done THEN NoCursor ELSE CursorAt(list, m)]
        /\ IF done THEN m = N ELSE i <= m
  BY DEF ReadFrom
<1>3. CASE done
  <2>1. next = w
    BY <1>2, <1>3 DEF PageTurned
  <2> QED BY <1>2, <1>3, <2>1 DEF ReadFrom
<1>4. CASE ~ done
  <2> DEFINE left == N - m
             size == IF limit <= left THEN limit ELSE left
             e == m + size
             more == left > limit
             cursor == IF more THEN list[m + limit][2] ELSE NoCursor
             items == [j \in 1..size |-> list[m + j][2]]
             p == Search(n, d, q, w.next, limit)
  <2>1. w.next = CursorAt(list, m) /\ w.items = [j \in 1..m |-> list[j][2]]
    <3> HIDE DEF list
    <3> QED BY <1>2, <1>4
  <2>2. p = [answer |-> "ok", items |-> items, next |-> cursor]
    <3>1. Search(n, d, q, CursorAt(list, m), limit) = PageOf(list, m, left, limit)
      BY PageGiven
    <3>2. PageOf(list, m, left, limit) = [answer |-> "ok", items |-> items, next |-> cursor]
      BY DEF PageOf
    <3> HIDE DEF list, items, cursor
    <3> QED BY <2>1, <3>1, <3>2
  <2>3. /\ size \in Nat /\ m \in Nat /\ e \in 0..N /\ e = m + size
        /\ more => size = limit /\ e = m + limit /\ i + 1 <= e
        /\ ~ more => e = N
    <3>1. i <= m /\ m \in Nat /\ m <= N
      <4> HIDE DEF list
      <4> QED BY <1>1, <1>2, <1>4
    <3> HIDE DEF N
    <3>2. left \in Nat /\ N = m + left
      BY <1>1, <3>1
    <3> HIDE DEF left
    <3> QED BY <3>1, <3>2
  <2>4. w.items \o items = [j \in 1..e |-> list[j][2]]
    <3> DEFINE a == [j \in 1..m |-> list[j][2]]
    <3>1. Len(a) = m /\ Len(items) = size
      BY <2>3
    <3>2. a \o items = [j \in 1..(m + size) |-> IF j <= m THEN a[j] ELSE items[j - m]]
      <4> HIDE DEF list, size
      <4> QED BY <2>3, <3>1
    <3>3. \A j \in 1..(m + size) : (IF j <= m THEN a[j] ELSE items[j - m]) = list[j][2]
      <4> HIDE DEF list, size
      <4> QED BY <2>3
    <3> HIDE DEF a, items, list, size
    <3> QED BY <2>1, <2>3, <3>2, <3>3 DEF a
  <2> DEFINE last == IF more THEN FALSE ELSE TRUE
  <2>5. (cursor = NoCursor) = last
    <3>1. ASSUME more PROVE cursor # NoCursor
      <4>1. m + limit \in 1..N
        BY <1>1, <2>3, <3>1
      <4>2. list[m + limit] \in S
        BY <4>1, MatchingFacts, Listed
      <4>3. list[m + limit][2] \in Nat
        BY <4>2, MatchingFacts
      <4> HIDE DEF list
      <4> QED BY <3>1, <4>3 DEF NoCursor
    <3>2. ~ more => cursor = NoCursor
      OBVIOUS
    <3> QED BY <3>1, <3>2
  <2> HIDE DEF items, cursor, more, p
  <2>6. last \in BOOLEAN /\ (last <=> ~ more)
    OBVIOUS
  <2> HIDE DEF last
  <2>7. next = [items |-> w.items \o items, next |-> cursor, done |-> last, ok |-> TRUE]
    <3>1. p.answer = "ok" /\ p.items = items /\ p.next = cursor
      BY <2>2
    <3>2. next = [items |-> w.items \o p.items, next |-> p.next, done |-> p.next = NoCursor,
                  ok |-> TRUE]
      BY <1>2, <1>4, <3>1 DEF PageTurned, p
    <3> QED BY <2>5, <3>1, <3>2
  <2> HIDE DEF next
  <2>8. cursor = IF last THEN NoCursor ELSE CursorAt(list, e)
    <3>1. more => e # 0
      BY <2>3
    <3> HIDE DEF list, e
    <3> QED BY <2>3, <2>6, <3>1 DEF cursor, more, CursorAt
  <2>9. next = [items |-> [j \in 1..e |-> list[j][2]], ok |-> TRUE, done |-> last,
                next  |-> IF last THEN NoCursor ELSE CursorAt(list, e)]
    <3> HIDE DEF list, e
    <3> QED BY <2>4, <2>7, <2>8
  <2>10. last \in BOOLEAN /\ IF last THEN e = N ELSE i + 1 <= e
    <3> HIDE DEF N, e, size, left
    <3>1. IF last THEN e = N ELSE i + 1 <= e
      BY <2>3, <2>6, Zenon
    <3> QED BY <2>6, <3>1
  <2> HIDE DEF e, size, left
  <2> QED BY <2>3, <2>9, <2>10 DEF ReadFrom, next
<1> QED BY <1>2, <1>3, <1>4

(* A search of a ready index, read on, ends and gives every matching key   *)
(* in its order, for any page size.                                        *)
LEMMA EndReached ==
    ASSUME NEW n, NEW d, d.chain \in Seq(Block), NEW q,
           Ready(n, d), n.keys = Keys(Tokens(d), Token), NEW limit \in Nat \ {0}
    PROVE  ReadsAll(n, d, q, limit)
<1> DEFINE N == Cardinality(DOMAIN Tokens(d))
           pages == [i \in 1..(N + 1) |-> i]
           p == <<n, d>>
           r == <<q, limit>>
           end == Turning!Left(p, r, NewSearch, pages)
           S == Matching(d, q)
           list == InOrder(S)
<1>1. ReadOn(n, d, q, limit) = end
  BY DEF ReadOn, FoldLeft, MapThenFoldSet, Max, Turning!Left, Turning!LeftFold, Turning!Greatest
<1>2. N \in Nat /\ Cardinality(S) \in Nat /\ Cardinality(S) <= N
  BY FiniteTokens, MatchingFacts, FS_CardinalityType
<1>3. DOMAIN pages = 1..Len(pages) /\ Len(pages) = N + 1
  BY <1>2
<1>4. ReadFrom(p, r, NewSearch, 0, NewSearch)
  <2>1. NewSearch = [items |-> [j \in 1..0 |-> list[j][2]], ok |-> TRUE, done |-> FALSE,
                     next |-> IF FALSE THEN NoCursor ELSE CursorAt(list, 0)]
    <3>1. [j \in 1..0 |-> list[j][2]] = <<>>
      <4> HIDE DEF list
      <4> QED OBVIOUS
    <3> HIDE DEF list
    <3> QED BY <3>1 DEF NewSearch, CursorAt
  <2>2. 0 \in 0..Cardinality(S) /\ 0 <= 0
    BY <1>2
  <2>3. Matching(p[2], r[1]) = S
    OBVIOUS
  <2> HIDE DEF p, r, S
  <2> QED BY <2>1, <2>2, <2>3 DEF ReadFrom
<1>5. ASSUME NEW i \in 1..(N + 1), NEW w, ReadFrom(p, r, NewSearch, i - 1, w)
      PROVE  ReadFrom(p, r, NewSearch, i, PageTurned(n, d, q, limit, w))
  <2>1. i - 1 \in Nat /\ (i - 1) + 1 = i
    BY <1>2
  <2> DEFINE k == i - 1
  <2>2. k \in Nat /\ ReadFrom(p, r, NewSearch, k, w)
    BY <1>5, <2>1
  <2> HIDE DEF k
  <2>3. ReadFrom(p, r, NewSearch, k + 1, PageTurned(n, d, q, limit, w))
    BY <2>2, TurnKeeps
  <2> QED BY <2>1, <2>3 DEF k
<1>6. ReadFrom(p, r, NewSearch, N + 1, end)
  <2>1. \A i \in 1..Len(pages) : \A w :
           ReadFrom(p, r, NewSearch, i - 1, w)
              => ReadFrom(p, r, NewSearch, i, PageTurned(p[1], p[2], r[1], r[2], w))
    BY <1>3, <1>5
  <2> HIDE DEF p, r, pages, N
  <2>2. \A B \in SUBSET Nat : B # {} => \E m \in B : \A k \in B : m <= k
    BY Least
  <2> QED BY <1>2, <1>3, <1>4, <2>1, <2>2, Turning!LeftValue
<1> HIDE DEF end
<1>7. PICK m \in 0..Cardinality(S), done \in BOOLEAN :
        /\ end = [items |-> [j \in 1..m |-> list[j][2]], ok |-> TRUE, done |-> done,
                  next |-> IF done THEN NoCursor ELSE CursorAt(list, m)]
        /\ IF done THEN m = Cardinality(S) ELSE N + 1 <= m
  BY <1>6 DEF ReadFrom
<1>8. done /\ m = Cardinality(S)
  <2> HIDE DEF N, S, list
  <2> QED BY <1>2, <1>7
<1>9. end.ok /\ end.done /\ end.items = [j \in 1..m |-> list[j][2]]
  <2> HIDE DEF list, S, N
  <2> QED BY <1>7, <1>8
<1>10. DOMAIN list = 1..m
  BY <1>8 DEF InOrder
<1> HIDE DEF list
<1> QED BY <1>1, <1>9, <1>10 DEF ReadsAll, list

(* Of a ready index every search, read to its end in pages of any size,    *)
(* lists what matches: no token twice, none left out, no key without a row.*)
THEOREM NamesSearchExact ==
    NamesSpec => [](Ready(names, db) =>
                      \A q \in SearchFor, limit \in Nat \ {0} : ReadsAll(names, db, q, limit))
<1>1. ASSUME NInv, NamesExact, Ready(names, db), NEW q, NEW limit \in Nat \ {0}
      PROVE  ReadsAll(names, db, q, limit)
  <2>1. db.chain \in Seq(Block)
    BY <1>1, NInvFacts
  <2>2. names.keys = Keys(Tokens(db), Token)
    BY <1>1 DEF NamesExact
  <2> QED BY <1>1, <2>1, <2>2, EndReached
<1>2. NInv /\ NamesExact =>
        (Ready(names, db) =>
            \A q \in SearchFor, limit \in Nat \ {0} : ReadsAll(names, db, q, limit))
  BY <1>1
<1> QED BY <1>2, NamesInvariant, NamesAreExact, PTL

(* The same for the page sizes of the runs, with the coverage reported.    *)
THEOREM NamesSearchRuns == NamesSpec => []SearchExact
<1>1. CoverageExact /\ (Ready(names, db) =>
            \A q \in SearchFor, limit \in Nat \ {0} : ReadsAll(names, db, q, limit))
        => SearchExact
  <2>1. \A limit \in 1..2 : limit \in Nat \ {0}
    OBVIOUS
  <2> QED BY <2>1 DEF SearchExact
<1> QED BY <1>1, NamesCoverageExact, NamesSearchExact, PTL
=============================================================================
