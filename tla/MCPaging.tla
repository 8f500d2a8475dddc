------------------------------ MODULE MCPaging ------------------------------
(* Every route over Economy, as its blocks come and go.                    *)
EXTENDS Paging, Economy

Q(route, dir, by) == [route |-> route, dir |-> dir, by |-> by]

Desc(route, by) == {Q(route, "desc", by)}
Asc(route, by) == {Q(route, "asc", by)}
Both(route, by) == Asc(route, by) \cup Desc(route, by)

All == [all |-> TRUE]
EveryMove == [asset |-> "all", direction |-> "any"] @@ AnyTime
Due(token) == [blocks |-> 2, filter |-> [mode |-> "all", token |-> token]]

MCQuery ==
    UNION {Desc(route, All) : route \in {"blocks", "tokens_newest", "tokens_holders", "richlist"}}
    \cup UNION {Both(route, All) : route \in {"global_summaries", "transactions"}}
    \cup UNION {Both("block_summaries", by) :
                    by \in [height : {1, 2}] \cup [id : {"a2", "b2", "c2"}]}
    \cup UNION {Both("address_summaries", [tree |-> t]) : t \in {"A", "B", "C", "M"}}
    \cup UNION {Both("address_activity", [tree |-> t, filter |-> [EveryMove EXCEPT !.asset = a]]) :
                    t \in {"A", "C"}, a \in {"all", "gt"}}
    \cup UNION {Both("address_boxes", by) : by \in [tree : {"A", "C", "M"}, unspent : BOOLEAN]}
    \cup UNION {Both("token_boxes", by) : by \in [token : {"x1"}, unspent : BOOLEAN]}
    \cup UNION {Both("template_boxes", by) : by \in [template : {"p2pk"}, unspent : BOOLEAN]}
    \cup Both("register_boxes", [reg |-> 4, value |-> "v"])
    \cup UNION {Both("token_history", [token |-> t]) : t \in {"x1", "gt"}}
    \cup Desc("holders", [token |-> "x1"])
    \cup Asc("rent_eligible", All)
    \cup UNION {Asc("rent_schedule", Due(t)) : t \in {"none", "x1"}}
    \cup UNION {Asc("boxes_at", by) : by \in [tree : {"A", "C", "M"}, at : 0..3]}
=============================================================================
