------------------------------ MODULE MCIngest ------------------------------
(***************************************************************************)
(* Block trees for Ingest.  Deep: a1..a4 with a branch b2-b4 from a1, a    *)
(* branch c4 from a3.  Twin: two chains that share nothing.                *)
(***************************************************************************)
EXTENDS Ingest

MCBlock == {"a1", "a2", "a3", "a4", "b2", "b3", "b4", "c3", "d1", "d2"}

MCHeight == [b \in MCBlock |->
    CASE b \in {"a1", "d1"} -> 1
      [] b \in {"a2", "b2", "d2"} -> 2
      [] b \in {"a3", "b3", "c3"} -> 3
      [] b \in {"a4", "b4"} -> 4]

MCParent == [b \in MCBlock |->
    CASE b \in {"a1", "d1"} -> "none"
      [] b \in {"a2", "b2"} -> "a1"
      [] b = "d2" -> "d1"
      [] b \in {"a3", "c3"} -> "a2"
      [] b = "b3" -> "b2"
      [] b = "a4" -> "a3"
      [] b = "b4" -> "b3"]

MCBranch[b \in MCBlock] ==
    IF MCParent[b] = "none" THEN <<b>> ELSE Append(MCBranch[MCParent[b]], b)

MCBatch == {<<>>}
=============================================================================
