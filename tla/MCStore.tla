------------------------------ MODULE MCStore ------------------------------
(* Store over Economy, and every reader over its tables.                   *)
EXTENDS ReaderProperties, Economy

(* Page sizes that divide the lists and that do not.                       *)
MCPageSize == {1, 2, 5}

MCRentWindow == {1, 2}
MCRentFilter == {[mode |-> "all", token |-> "none"], [mode |-> "collectible", token |-> "none"],
                 [mode |-> "full_claim", token |-> "none"], [mode |-> "all", token |-> "x1"]}

MCBatch == {<<>>} \cup {<<b>> : b \in MCBlock}
    \cup {<<"a1", "a2">>, <<"a1", "b2">>, <<"a2", "a3">>, <<"b2", "b3">>,
          <<"a2", "b3">>, <<"a2", "s3">>, <<"a1", "a2", "a3">>, <<"a1", "h2">>}
=============================================================================
