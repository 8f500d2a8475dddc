---------------------------- MODULE MCTokenNames ----------------------------
(* Two blocks at height 2 that mint token 2 under different names, names   *)
(* one of which is the beginning of the other, one shared by two tokens,   *)
(* and one that does not fold; ids in another order than the mints.        *)
EXTENDS TokenNames, TLC

MCBlock  == {"a1", "a2", "a3", "b2"}
MCHeight == [b \in MCBlock |->
    CASE b = "a1" -> 1 [] b \in {"a2", "b2"} -> 2 [] b = "a3" -> 3]
MCParent == [b \in MCBlock |->
    CASE b = "a1" -> "none" [] b \in {"a2", "b2"} -> "a1" [] b = "a3" -> "a2"]
MCBatch  == {<<"a1">>, <<"a1", "a2">>, <<"a3">>, <<"b2">>}

MCMint == [b \in MCBlock |->
    CASE b = "a1" -> 3 :> "gold" @@ 5 :> "Gold"
      [] b = "a2" -> 2 :> "golden" @@ 1 :> "control"
      [] b = "b2" -> 2 :> "tin" @@ 6 :> "gold"
      [] b = "a3" -> 2 :> "tin" @@ 4 :> "tin"] @@ <<>>

MCFold == [n \in {"gold", "Gold", "golden", "tin", "control"} |->
    CASE n \in {"gold", "Gold"} -> <<2, 1>> [] n = "golden" -> <<2, 1, 3>>
      [] n = "tin" -> <<4>> [] n = "control" -> <<>>] @@ <<>>

MCSearchFor == {[query |-> <<2>>, exact |-> FALSE], [query |-> <<2, 1>>, exact |-> TRUE],
                [query |-> <<2, 1>>, exact |-> FALSE], [query |-> <<4>>, exact |-> FALSE]}
=============================================================================
