------------------------------ MODULE Economy ------------------------------
(***************************************************************************)
(* A small economy the store's and the readers' instances share: two       *)
(* genesis boxes (one holds a chain-spec token), a main branch a1-a3, a    *)
(* branch b2-b3 that mints the same token id otherwise, a block c2 that    *)
(* carries a2's transaction again after a wider first one, and blocks the  *)
(* store must refuse.                                                      *)
(***************************************************************************)
EXTENDS Integers, SequencesExt

NoTok == EmptyBag

Box(id, tree, value, tokens, registers) ==
    [id |-> id, tree |-> tree, value |-> value,
     creation |-> IF id \in {"g1", "g2"} THEN 0 ELSE IF id \in {"e2.m", "y1b", "e2c.n"} THEN 2 ELSE 1,
     tokens |-> tokens, registers |-> registers]

Tx(id, inputs, outputs) == [id |-> id, inputs |-> inputs, outputs |-> outputs]

R(v) == {<<4, v>>}

MCGenesis == << Box("g1", "E", 20, NoTok, {}),
                Box("g2", "A", 4, "gt" :> 2, R("v")) >>

(* The emission transactions, each paying a miner 2. *)
Emission(id, from, left, miner) ==
    Tx(id, <<from>>, << Box(id \o ".e", "E", left, NoTok, {}),
                        Box(id \o ".m", miner, 2, NoTok, {}) >>)

(* Pays a fee box, collected in the same block by c1. *)
t1 == Tx("t1", <<"g2">>, << Box("x1", "A", 3, "gt" :> 2, R("v")),
                            Box("f1", "F", 1, NoTok, {}) >>)
c1 == Tx("c1", <<"f1">>, << Box("c1.m", "M", 1, NoTok, {}) >>)

(* Mints token x1, burns one gt; then empties A and B and burns two x1.    *)
t2 == Tx("t2", <<"x1">>, << Box("y1", "B", 2, "x1" :> 5, {}),
                            Box("y2", "A", 1, "gt" :> 1, {}) >>)
t3 == Tx("t3", <<"y1", "y2">>, << Box("z1", "C", 3, ("x1" :> 3) @@ ("gt" :> 1), R("w")) >>)

(* The other branch: a larger mint of the same id, then a transfer to the  *)
(* same tree that leaves every amount as it was.                           *)
t2b == Tx("t2b", <<"x1">>, << Box("y1b", "C", 3, ("x1" :> 7) @@ ("gt" :> 2), {}) >>)
t3b == Tx("t3b", <<"y1b", "e2b.m">>,
             << Box("z1b", "C", 5, ("x1" :> 7) @@ ("gt" :> 2), R("v")) >>)

(* c2's first transaction makes one box more, so t2's boxes move up.       *)
e2c == Tx("e2c", <<"e1.e">>, << Box("e2c.e", "E", 16, NoTok, {}),
                                Box("e2c.m", "M", 1, NoTok, {}),
                                Box("e2c.n", "B", 1, NoTok, {}) >>)

(* Refused: an unknown input, a second spend of x1, a token nobody minted, *)
(* more registers than the ceiling leaves room for.                        *)
lost    == Tx("lost", <<"zz">>, << Box("lost.o", "A", 1, NoTok, {}) >>)
twice   == Tx("twice", <<"x1">>, << Box("twice.o", "B", 3, "gt" :> 2, {}) >>)
forged  == Tx("forged", <<"x1">>, << Box("forged.o", "B", 3, "ft" :> 1, {}) >>)
stuffed == Tx("stuffed", <<"y1">>,
             << Box("stuffed.o", "B", 2, "x1" :> 5, R("v") \cup {<<5, "w">>}) >>)

MCTxs ==
    "a1" :> << Emission("e1", "g1", 18, "M"), t1, c1 >>
    @@ "a2" :> << Emission("e2", "e1.e", 16, "M"), t2 >>
    @@ "a3" :> << Emission("e3", "e2.e", 14, "M"), t3 >>
    @@ "b2" :> << Emission("e2b", "e1.e", 16, "B"), t2b >>
    @@ "b3" :> << Emission("e3b", "e2b.e", 14, "M"), t3b >>
    @@ "c2" :> << e2c, t2 >>
    @@ "d2" :> << Emission("e2d", "e1.e", 16, "M"), lost >>
    @@ "f2" :> << Emission("e2f", "e1.e", 16, "M"), t2, twice >>
    @@ "h2" :> << Emission("e2h", "e1.e", 16, "M"), forged >>
    @@ "s3" :> << Emission("e3s", "e2.e", 14, "M"), stuffed >>

MCBlock == DOMAIN MCTxs

MCHeight == [b \in MCBlock |->
    IF b = "a1" THEN 1 ELSE IF b \in {"a3", "b3", "s3"} THEN 3 ELSE 2]

MCParent == [b \in MCBlock |->
    CASE b = "a1" -> "none"
      [] b \in {"a3", "s3"} -> "a2"
      [] b = "b3" -> "b2"
      [] OTHER -> "a1"]

MCTemplate == [t \in {"E", "A", "B", "C", "F", "M"} |->
    CASE t \in {"A", "B", "M"} -> "p2pk" [] t = "C" -> "contract"
      [] t = "E" -> "emission" [] t = "F" -> "fee"]

(* The order of the hashes.                                                *)
MCRank == [h \in {"B", "x1", "E", "F", "C", "A", "gt", "M", "ft"} |->
    CASE h = "B" -> 0 [] h = "x1" -> 1 [] h = "E" -> 2 [] h = "F" -> 3 [] h = "C" -> 4
      [] h = "A" -> 5 [] h = "gt" -> 6 [] h = "M" -> 7 [] h = "ft" -> 8]

(* Sizes whose fee is positive, negative, and positive again.              *)
MCBoxSize == [id \in {o.id : o \in Range(MCGenesis)}
                \cup UNION {UNION {{o.id : o \in Range(tx.outputs)} : tx \in Range(MCTxs[b])} :
                              b \in DOMAIN MCTxs} |->
    CASE id \in {"g2", "e1.m", "e2c.n"} -> 4 [] id \in {"x1", "z1b", "e2.m"} -> 7 [] OTHER -> 1]
=============================================================================
