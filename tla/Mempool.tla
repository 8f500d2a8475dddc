------------------------------ MODULE Mempool ------------------------------
(***************************************************************************)
(* The mempool observation of crates/xp-api/src/handlers/mempool.rs: a     *)
(* cached answer of the node, refreshed by one request at a time.  The     *)
(* permit is an Arc in the handler and in the parser it spawns; a handler  *)
(* may be dropped at any await, the parser goes on.                        *)
(*                                                                         *)
(* A listing is known by how far the node's pool had moved when it was     *)
(* taken; time enters as the expiry of a cache entry at any moment.        *)
(***************************************************************************)
EXTENDS Integers, FiniteSets

CONSTANTS
    Observer,   \* the requests for the listing, each made once
    MaxPool     \* bound: how often the node's pool changes

ASSUME MempoolAssumption == MaxPool \in Nat

VARIABLES
    pool,       \* how far the node's pool has moved
    observer,   \* observer[o]: where the handler is
    body,       \* body[o]: the listing its handler received
    parser,     \* parser[o]: the parsing task it spawned
    cache,      \* Cache.cached: the listing, its refusal, or nothing
    live,       \* whether the entry's `until` is ahead
    shown       \* the newest listing a response has shown

mempoolVars == <<pool, observer, body, parser, cache, live, shown>>

Failed == -1
Nothing == -2

MempoolInit ==
    /\ pool = 0
    /\ observer = [o \in Observer |-> "unborn"]
    /\ body = [o \in Observer |-> Nothing]
    /\ parser = [o \in Observer |-> "none"]
    /\ cache = Nothing
    /\ live = FALSE
    /\ shown = Nothing

(* Who holds a clone of the permit. *)
Holders == {o \in Observer : \/ observer[o] \in {"admitted", "asking", "parsing"}
                             \/ parser[o] = "running"}

Show(value) == shown' = IF value >= 0 THEN value ELSE shown

(* Cache::cached, and the response made of it. *)
ServeCached(o) ==
    /\ live
    /\ observer' = [observer EXCEPT ![o] = "gone"]
    /\ Show(cache)

-----------------------------------------------------------------------------
(* The first look. *)
Look(o) ==
    /\ observer[o] = "unborn"
    /\ \/ ServeCached(o)
       \/ /\ ~ live
          /\ observer' = [observer EXCEPT ![o] = "missed"]
          /\ UNCHANGED shown
    /\ UNCHANGED <<pool, body, parser, cache, live>>

(* Mutant: the refresh does not wait for the running one. *)
Unlimited(o) ==
    /\ observer[o] = "missed"
    /\ observer' = [observer EXCEPT ![o] = "admitted"]
    /\ UNCHANGED <<pool, body, parser, cache, live, shown>>

(* try_acquire_owned, or mempool_busy. *)
TakePermit(o) ==
    /\ observer[o] = "missed"
    /\ observer' = [observer EXCEPT ![o] = IF Holders = {} THEN "admitted" ELSE "gone"]
    /\ UNCHANGED <<pool, body, parser, cache, live, shown>>

(* The second look, then the request to the node is on its way. *)
LookAgain(o) ==
    /\ observer[o] = "admitted"
    /\ \/ ServeCached(o)
       \/ /\ ~ live
          /\ observer' = [observer EXCEPT ![o] = "asking"]
          /\ UNCHANGED shown
    /\ UNCHANGED <<pool, body, parser, cache, live>>

(* The node takes the listing some time before the handler sees it. *)
NodeLists(o) ==
    /\ observer[o] = "asking" /\ body[o] = Nothing
    /\ body' = [body EXCEPT ![o] = pool]
    /\ UNCHANGED <<pool, observer, parser, cache, live, shown>>

(* spawn_blocking(parse) with a clone of the permit. *)
SpawnParse(o) ==
    /\ observer[o] = "asking" /\ body[o] # Nothing
    /\ observer' = [observer EXCEPT ![o] = "parsing"]
    /\ parser' = [parser EXCEPT ![o] = "running"]
    /\ UNCHANGED <<pool, body, cache, live, shown>>

Parsed(o) ==
    /\ parser[o] = "running"
    /\ \E result \in {"ok", "refused"} : parser' = [parser EXCEPT ![o] = result]
    /\ UNCHANGED <<pool, observer, body, cache, live, shown>>

(* The entry is written and the value returned; the permit goes last.      *)
Store(o, value) ==
    /\ cache' = value
    /\ live' = TRUE
    /\ Show(value)
    /\ observer' = [observer EXCEPT ![o] = "gone"]
    /\ UNCHANGED <<pool, body, parser>>

Finish(o) ==
    /\ observer[o] = "parsing"
    /\ parser[o] \in {"ok", "refused"}
    /\ Store(o, IF parser[o] = "ok" THEN body[o] ELSE Failed)

(* 2 s without an answer, an error, or a body beyond the limit. *)
NodeFails(o) == observer[o] = "asking" /\ Store(o, Failed)

(* The handler is dropped at one of its awaits. *)
AbandonObservation(o) ==
    /\ observer[o] \in {"asking", "parsing"}
    /\ observer' = [observer EXCEPT ![o] = "gone"]
    /\ UNCHANGED <<pool, body, parser, cache, live, shown>>

ObserverStep(o) ==
    \/ TakePermit(o) \/ LookAgain(o) \/ NodeLists(o) \/ SpawnParse(o)
    \/ Parsed(o) \/ Finish(o) \/ NodeFails(o)

PoolMoves ==
    /\ pool < MaxPool
    /\ pool' = pool + 1
    /\ UNCHANGED <<observer, body, parser, cache, live, shown>>

Expire == live /\ live' = FALSE
               /\ UNCHANGED <<pool, observer, body, parser, cache, shown>>

MempoolNext ==
    \/ \E o \in Observer : Look(o) \/ ObserverStep(o) \/ AbandonObservation(o)
    \/ PoolMoves
    \/ Expire

-----------------------------------------------------------------------------
(* A later response never shows an older listing than an earlier one: two  *)
(* refreshes at once would let the slower overwrite the newer.  The node   *)
(* is not asked while an unexpired answer, or refusal, is at hand, and at  *)
(* most one listing is fetched or parsed at a time, whoever is dropped.    *)
MempoolFresh ==
    [][/\ shown' >= shown
       /\ \A o \in Observer :
             observer[o] # "asking" /\ observer'[o] = "asking" => ~ live
       /\ Cardinality({o \in Observer : \/ observer'[o] \in {"asking", "parsing"}
                                        \/ parser'[o] = "running"}) <= 1]_mempoolVars
=============================================================================
