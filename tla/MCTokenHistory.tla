--------------------------- MODULE MCTokenHistory ---------------------------
(* Two blocks at height 2 that use the same transaction positions for      *)
(* different tokens, a burn, a token that moves in every block, and box    *)
(* ids whose key order is not the order of creation.                       *)
EXTENDS TokenHistory

MCBlock  == {"a1", "a2", "a3", "b2"}
MCHeight == [b \in MCBlock |->
    CASE b = "a1" -> 1 [] b \in {"a2", "b2"} -> 2 [] b = "a3" -> 3]
MCParent == [b \in MCBlock |->
    CASE b = "a1" -> "none" [] b \in {"a2", "b2"} -> "a1" [] b = "a3" -> "a2"]
MCBatch  == {<<"a1">>, <<"a1", "a2">>, <<"a3">>, <<"b2">>}

(* Box 1, held at height 2 on the a-branch only, sorts below every box the *)
(* rebuild visits; box 5 is genesis; box 2 holds both tokens.              *)
MCTokensOf == [x \in 1..6 |->
    CASE x = 1 -> {1} [] x = 2 -> {1, 2} [] x = 3 -> {2}
      [] x = 4 -> {} [] x = 5 -> {} [] x = 6 -> {2}]
MCTxs == [b \in MCBlock |->
    CASE b = "a1" -> <<[in |-> {5}, out |-> {2, 4}]>>
      [] b = "a2" -> <<[in |-> {4}, out |-> {}], [in |-> {2}, out |-> {1, 3}]>>
      [] b = "b2" -> <<[in |-> {2}, out |-> {6}]>>
      [] b = "a3" -> <<[in |-> {3}, out |-> {}]>>]
=============================================================================
