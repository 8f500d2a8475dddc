----------------------------- MODULE MCTxStatus -----------------------------
(* Requests and blocks are interchangeable, objects are not: Unused picks  *)
(* one of them.                                                            *)
EXTENDS TxStatus, TLC

MCSymmetry == Permutations(Connection) \cup Permutations(Block)
=============================================================================
