---------------------------- MODULE MCChainStore ----------------------------
(* A block tree with two forks for model checking ChainStore: a1..a5, a    *)
(* branch b2-b3 from a1, a branch c4-c5 from a3.                           *)
EXTENDS ChainStore

MCBlock == {"a1", "a2", "a3", "a4", "a5", "b2", "b3", "c4", "c5"}

MCHeight == [b \in MCBlock |->
    CASE b = "a1" -> 1
      [] b \in {"a2", "b2"} -> 2
      [] b \in {"a3", "b3"} -> 3
      [] b \in {"a4", "c4"} -> 4
      [] b \in {"a5", "c5"} -> 5]

MCParent == [b \in MCBlock |->
    CASE b = "a1" -> "none"
      [] b \in {"a2", "b2"} -> "a1"
      [] b = "a3" -> "a2"
      [] b = "b3" -> "b2"
      [] b \in {"a4", "c4"} -> "a3"
      [] b = "a5" -> "a4"
      [] b = "c5" -> "c4"]

(* Every slice of at most two blocks, the misordered ones included, and    *)
(* one long enough to prune rows it wrote itself.                          *)
MCBatch == {<<>>} \cup {<<b>> : b \in MCBlock}
                  \cup {<<b, c>> : b \in MCBlock, c \in MCBlock}
                  \cup {<<"a1", "a2", "a3", "a4">>, <<"a2", "a3", "c4", "c5">>}
=============================================================================
