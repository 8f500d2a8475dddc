------------------------------ MODULE TxStatus ------------------------------
(***************************************************************************)
(* GET /v1/txs/{id}/status (crates/xp-api/src/handlers/tx_status.rs) and   *)
(* the cache of node observations behind it (observations.rs).             *)
(*                                                                         *)
(* A request takes its transaction's entry from the cache, waits for the   *)
(* entry's lock, reads the index, asks the node unless the entry was       *)
(* checked a moment ago, and reads the index again.  Each await is a place *)
(* where other requests run, the index moves, or the request is dropped (a *)
(* timeout, a client that left).  A read of the index is one step with     *)
(* what its request does until the next await: the snapshot is taken on    *)
(* another thread, but nothing in between is shared.  The node may answer  *)
(* anything.                                                               *)
(*                                                                         *)
(* What a reader of the index finds about a transaction is a Fact: the     *)
(* block it is in, or "none", or "spent" when it is in no block and an     *)
(* input of it is spent by another transaction.  Contents of transactions  *)
(* are left out.                                                           *)
(***************************************************************************)
EXTENDS Integers, Sequences, FiniteSets, Functions

CONSTANTS
    Connection,    \* connections; each handles one request after another
    Tx,
    NoTx,
    Block,
    NoBlock,
    Wide,       \* transactions of more than MAX_INPUTS inputs
    Object,     \* the Arc'd entries there is room for
    NoObject,
    MaxEntries, \* MAX_ENTRIES
    Permits,    \* of the semaphore in Observations
    CacheTime,  \* ticks an answer of the node is kept
    Backoff,    \* ticks a failure is kept
    Retention   \* ticks an unused entry is kept

ASSUME BoundsAssumption ==
    /\ MaxEntries \in Nat \ {0} /\ Permits \in Nat \ {0}
    /\ CacheTime \in Nat \ {0} /\ Backoff \in Nat \ {0} /\ Retention \in Nat \ {0}
ASSUME WideAssumption == Wide \subseteq Tx
ASSUME NamesAssumption ==
    /\ NoBlock \notin Block /\ NoObject \notin Object /\ NoTx \notin Tx
    /\ Block \cap {"none", "spent"} = {}
ASSUME ObjectAssumption ==
    /\ IsFiniteSet(Object) /\ IsFiniteSet(Connection)
    /\ Cardinality(Object) >= MaxEntries + Cardinality(Connection)

Fact == Block \cup {"none", "spent"}

VARIABLES
    index,      \* what a reader opened now would find of each transaction
    entries,    \* Observations.entries: the object cached for each transaction
    obj,        \* the entries themselves
    req,        \* where each request is
    permits,    \* permits left
    detached,   \* parsers that outlived their requests
    facts,      \* history: what was true of each request's transaction since
                \* it came, or since the node answered it
    reported,   \* history: the transactions the cache has called confirmed and
                \* not heard the node's word on since
    answer      \* history: what the last step answered, if it did

cacheVars == <<entries, obj, permits, detached>>
statusVars == <<index, cacheVars, req, facts, reported, answer>>

(* queue: who waits for the lock, its holder first.  A request holds its   *)
(* Arc exactly while it is in the queue.  wait: ticks to next_check.       *)
NewEntry == [queue |-> <<>>, age |-> 0, wait |-> 0,
             observation |-> "not_checked", seen |-> FALSE,
             inputs |-> FALSE, included |-> NoBlock]

NoAnswer == [state |-> "none"]
Idle == [pc |-> "idle", tx |-> NoTx, obj |-> NoObject]

InUse(o) == obj[o].queue # <<>>
Holds(r) == Head(obj[req[r].obj].queue) = r

-----------------------------------------------------------------------------
(* Observations::entry_at *)

(* Mutant: an entry in use expires like any other. *)
KeptByAge == {t \in Tx : entries[t] # NoObject /\ obj[entries[t]].age < Retention}

Kept == {t \in Tx : /\ entries[t] # NoObject
                    /\ InUse(entries[t]) \/ obj[entries[t]].age < Retention}

Evictable == {t \in Kept : ~ InUse(entries[t])}

Oldest == {t \in Evictable : \A u \in Evictable : obj[entries[u]].age <= obj[entries[t]].age}

Unused == CHOOSE o \in Object : ~ InUse(o) /\ \A t \in Tx : entries[t] # o

(* Mutant: one entry more than the bound. *)
FullOnceOver == Cardinality(Kept) > MaxEntries

Full == Cardinality(Kept) = MaxEntries

(* The maps a lookup of t may leave; t is in none of them when the cache   *)
(* is full of entries in use.                                              *)
EntryAt(t) ==
    LET kept == [u \in Tx |-> IF u \in Kept THEN entries[u] ELSE NoObject]
    IN  IF t \in Kept \/ (Full /\ Evictable = {})
          THEN {kept}
          ELSE {[kept EXCEPT ![u] = NoObject, ![t] = Unused] :
                    u \in IF Full THEN Oldest ELSE {t}}

Arrive(r, t) ==
    /\ req[r] = Idle
    /\ \E map \in EntryAt(t) :
        /\ entries' = map
        /\ obj' = [o \in Object |->
              IF o = map[t]
                THEN [(IF entries[t] = o THEN obj[o] ELSE NewEntry)
                        EXCEPT !.age = 0, !.queue = Append(@, r)]
              ELSE IF InUse(o) \/ \E u \in Tx : map[u] = o THEN obj[o]
              ELSE NewEntry]
        /\ req' = [req EXCEPT ![r] =
              [pc |-> IF map[t] = NoObject THEN "bare" ELSE "first",
               tx |-> t, obj |-> map[t]]]
    /\ facts' = [facts EXCEPT ![r] = {index[t]}]
    /\ answer' = NoAnswer
    /\ UNCHANGED <<index, permits, detached, reported>>

-----------------------------------------------------------------------------
(* What an entry is told. *)

(* Mutant: the cached observation stays good. *)
RecordInclusionKeepsCheck(e, b, t) ==
    [e EXCEPT !.included = b, !.inputs = t \notin Wide]

(* Entry::record_inclusion *)
RecordInclusion(e, b, t) ==
    [e EXCEPT !.included = b, !.inputs = t \notin Wide, !.wait = 0]

(* Mutant: the inputs are for the summary only. *)
ObservedWithoutInputs(e, verdict) ==
    [e EXCEPT !.observation = verdict,
              !.wait = IF verdict = "unavailable" THEN Backoff ELSE CacheTime,
              !.seen = @ \/ verdict = "present"]

(* The end of Observations::observe.                                       *)
Observed(e, verdict) ==
    [e EXCEPT !.observation = verdict,
              !.wait = IF verdict = "unavailable" THEN Backoff ELSE CacheTime,
              !.seen = @ \/ verdict = "present",
              !.inputs = @ \/ verdict = "present"]

(* The reply, with what the properties compare it to.                      *)
Response(r, f, e, inputs) ==
    [state     |-> IF f \in Block THEN "confirmed"
                   ELSE IF f = "spent" /\ inputs THEN "conflicted"
                   ELSE CASE e.observation = "present" -> "pending"
                          [] e.observation = "absent" /\ e.seen -> "no_longer_observed"
                          [] e.observation = "absent" /\ ~ e.seen -> "not_observed"
                          [] OTHER -> "unavailable",
     inclusion |-> IF f \in Block THEN f ELSE NoBlock,
     facts     |-> facts[r],
     known     |-> req[r].tx \notin Wide /\ (e.seen \/ e.included # NoBlock),
     outdated  |-> req[r].tx \in reported]

(* Dropping the guard and the Arc: the next in the queue has the lock.     *)
Without(q, r) ==
    LET at == CHOOSE i \in DOMAIN q : q[i] = r
    IN  [i \in 1..(Len(q) - 1) |-> IF i < at THEN q[i] ELSE q[i + 1]]
Leave(e, r) == [e EXCEPT !.queue = Without(@, r)]

Moves(r, pc) == /\ req' = [req EXCEPT ![r].pc = pc]
                /\ answer' = NoAnswer
Ends(r, reply) == /\ req' = [req EXCEPT ![r] = Idle]
                  /\ facts' = [facts EXCEPT ![r] = {}]
                  /\ answer' = reply
Becomes(r, e) == obj' = [obj EXCEPT ![req[r].obj] = e]

-----------------------------------------------------------------------------
(* The request, between its awaits. *)

(* The first read; an answer if the transaction is indexed, else observe,  *)
(* as far as its own first await.                                          *)
FirstRead(r) ==
    LET e == obj[req[r].obj]  t == req[r].tx  f == index[t]
    IN  /\ req[r].pc = "first" /\ Holds(r)
        /\ IF f \in Block
             THEN /\ Ends(r, Response(r, f, e, FALSE))
                  /\ Becomes(r, Leave(RecordInclusion(e, f, t), r))
                  /\ reported' = reported \cup {t}
                  /\ UNCHANGED permits
             ELSE /\ UNCHANGED <<facts, reported>>
                  /\ \/ /\ e.wait > 0
                        /\ Moves(r, "second")
                        /\ UNCHANGED <<obj, permits>>
                     \/ /\ e.wait = 0 /\ permits = 0
                        /\ Becomes(r, Observed(e, "unavailable"))
                        /\ Moves(r, "second")
                        /\ UNCHANGED permits
                     \/ /\ e.wait = 0 /\ permits > 0
                        /\ permits' = permits - 1
                        /\ Moves(r, "fetch")
                        /\ UNCHANGED obj
        /\ UNCHANGED <<index, entries, detached>>

ReportedAfter(r, verdict) ==
    IF verdict = "unavailable" THEN reported ELSE reported \ {req[r].tx}

(* The node's answer, or the timeout of two seconds.  A body goes to a     *)
(* parser, and the permit with it; anything else gives the permit back.    *)
NodeReplies(r) ==
    /\ req[r].pc = "fetch"
    /\ \/ /\ Moves(r, "parse")
          /\ UNCHANGED <<obj, permits, reported>>
       \/ /\ \E verdict \in {"absent", "unavailable"} :
                /\ Becomes(r, Observed(obj[req[r].obj], verdict))
                /\ reported' = ReportedAfter(r, verdict)
          /\ Moves(r, "second")
          /\ permits' = permits + 1
    /\ facts' = [facts EXCEPT ![r] = {index[req[r].tx]}]
    /\ UNCHANGED <<index, entries, detached>>

(* parse_pending refuses what is malformed, too large, or has too many     *)
(* inputs.                                                                 *)
ParseEnds(r) ==
    /\ req[r].pc = "parse"
    /\ \E verdict \in {"present", "unavailable"} :
          /\ verdict = "present" => req[r].tx \notin Wide
          /\ Becomes(r, Observed(obj[req[r].obj], verdict))
          /\ reported' = ReportedAfter(r, verdict)
    /\ Moves(r, "second")
    /\ permits' = permits + 1
    /\ UNCHANGED <<index, entries, detached, facts>>

(* Mutant: what the node still holds is not looked up again. *)
FoundAtLastUnlessPending(r) ==
    IF obj[req[r].obj].observation = "present" THEN "none" ELSE index[req[r].tx]

FoundAtLast(r) == index[req[r].tx]

SecondRead(r) ==
    LET e == obj[req[r].obj]  f == FoundAtLast(r)
    IN  /\ req[r].pc = "second"
        /\ Ends(r, Response(r, f, e, e.inputs))
        /\ Becomes(r, Leave(IF f \in Block THEN RecordInclusion(e, f, req[r].tx) ELSE e, r))
        /\ reported' = IF f \in Block THEN reported \cup {req[r].tx} ELSE reported
        /\ UNCHANGED <<index, entries, permits, detached>>

(* The cache had no room: the index alone, and the node "busy".            *)
BareRead(r) ==
    /\ req[r].pc = "bare"
    /\ Ends(r, Response(r, index[req[r].tx],
                        [NewEntry EXCEPT !.observation = "unavailable"], FALSE))
    /\ UNCHANGED <<index, cacheVars, reported>>

(* Mutant: the guard is released by the code after the await. *)
LeftWhenHolding(r) ==
    [o \in Object |-> IF o = req[r].obj /\ ~ Holds(r) THEN Leave(obj[o], r) ELSE obj[o]]

Left(r) == [o \in Object |-> IF o = req[r].obj THEN Leave(obj[o], r) ELSE obj[o]]

(* A read refused (permits of the store, budget, a fault) ends the request.*)
ReadFails(r) ==
    /\ \/ req[r].pc \in {"second", "bare"}
       \/ req[r].pc = "first" /\ Holds(r)
    /\ obj' = Left(r)
    /\ Ends(r, NoAnswer)
    /\ UNCHANGED <<index, entries, permits, detached, reported>>

(* Mutant: the permit goes with the request, parser or not. *)
PermitsAfterCancelAll(r) == permits + (IF req[r].pc \in {"fetch", "parse"} THEN 1 ELSE 0)

PermitsAfterCancel(r) == permits + (IF req[r].pc = "fetch" THEN 1 ELSE 0)

(* The request's future is dropped; a parser under way is not.             *)
Cancel(r) ==
    /\ req[r] # Idle
    /\ obj' = Left(r)
    /\ Ends(r, NoAnswer)
    /\ permits' = PermitsAfterCancel(r)
    /\ detached' = detached + (IF req[r].pc = "parse" THEN 1 ELSE 0)
    /\ UNCHANGED <<index, entries, reported>>

DetachedEnds ==
    /\ detached > 0
    /\ detached' = detached - 1
    /\ permits' = permits + 1
    /\ answer' = NoAnswer
    /\ UNCHANGED <<index, entries, obj, req, facts, reported>>

-----------------------------------------------------------------------------
(* The world outside the cache. *)

(* Blocks arrive and leave, several between two reads if need be.          *)
IndexMoves(t, f) ==
    /\ index' = [index EXCEPT ![t] = f]
    /\ facts' = [r \in Connection |-> IF req[r].tx = t THEN facts[r] \cup {f} ELSE facts[r]]
    /\ answer' = NoAnswer
    /\ UNCHANGED <<cacheVars, req, reported>>

TimePasses ==
    /\ obj' = [o \in Object |->
          IF InUse(o) \/ \E t \in Tx : entries[t] = o
            THEN [obj[o] EXCEPT !.age  = IF @ < Retention THEN @ + 1 ELSE @,
                                !.wait = IF @ > 0 THEN @ - 1 ELSE 0]
            ELSE obj[o]]
    /\ answer' = NoAnswer
    /\ UNCHANGED <<index, entries, req, permits, detached, facts, reported>>

StatusInit ==
    /\ index \in [Tx -> Fact]
    /\ entries = [t \in Tx |-> NoObject]
    /\ obj = [o \in Object |-> NewEntry]
    /\ req = [r \in Connection |-> Idle]
    /\ permits = Permits /\ detached = 0
    /\ facts = [r \in Connection |-> {}]
    /\ reported = {}
    /\ answer = NoAnswer

RequestStep(r) == FirstRead(r) \/ NodeReplies(r) \/ ParseEnds(r) \/ SecondRead(r)
                               \/ BareRead(r) \/ ReadFails(r)

StatusNext ==
    \/ \E r \in Connection, t \in Tx : Arrive(r, t)
    \/ \E r \in Connection : RequestStep(r) \/ Cancel(r)
    \/ DetachedEnds
    \/ \E t \in Tx, f \in Fact : IndexMoves(t, f)
    \/ TimePasses

StatusSpec == StatusInit /\ [][StatusNext]_statusVars

-----------------------------------------------------------------------------
EntryType == [queue: Seq(Connection), age: 0..Retention,
              wait: 0..(IF CacheTime > Backoff THEN CacheTime ELSE Backoff),
              observation: {"not_checked", "present", "absent", "unavailable"},
              seen: BOOLEAN, inputs: BOOLEAN, included: Block \cup {NoBlock}]

StatusTypeOK ==
    /\ index \in [Tx -> Fact]
    /\ entries \in [Tx -> Object \cup {NoObject}]
    /\ Cardinality({t \in Tx : entries[t] # NoObject}) <= MaxEntries
    /\ obj \in [Object -> EntryType]
    /\ req \in [Connection -> {Idle} \cup [pc: {"bare", "first", "fetch", "parse", "second"},
                                       tx: Tx, obj: Object \cup {NoObject}]]
    /\ permits \in 0..Permits /\ detached \in 0..Permits
    /\ facts \in [Connection -> SUBSET Fact]
    /\ reported \subseteq Tx

At(pcs) == {r \in Connection : req[r].pc \in pcs}

(* Concurrent requests for one transaction coalesce: they share the entry  *)
(* the cache has for it, and only the holder of its lock asks the node,    *)
(* whatever is evicted or expires meanwhile.                               *)
SingleFlight ==
    /\ \A r \in At({"first", "fetch", "parse", "second"}) : entries[req[r].tx] = req[r].obj
    /\ \A r, s \in At({"fetch", "parse", "second"}) : req[r].tx = req[s].tx => r = s

(* Never more node questions and parsers at once than there are permits,   *)
(* those of requests long gone included; and no permit is lost.            *)
WorkBounded ==
    permits + Cardinality(At({"fetch", "parse"})) + detached = Permits

(* A lock waits for nobody who is gone: its queue is exactly the requests  *)
(* that hold its entry, so whoever is dropped, the next one is served.     *)
LocksPassOn ==
    \A o \in Object : /\ IsInjective(obj[o].queue)
                      /\ Range(obj[o].queue) = {r \in Connection : req[r].obj = o}

(* Concurrent requests coalesce, their work and the cache are bounded,     *)
(* and none of them waits for ever behind one that was dropped.            *)
FlightsSound ==
    /\ StatusTypeOK
    /\ SingleFlight /\ WorkBounded /\ LocksPassOn

Answered(states) == answer.state \in states

(* An answer says of the index what was so after the node was heard: a     *)
(* transaction in a block ever since is never reported pending or gone.    *)
AnswerTrue ==
    /\ Answered({"confirmed"})  => answer.inclusion \in answer.facts
    /\ Answered({"conflicted"}) => "spent" \in answer.facts
    /\ Answered({"pending", "no_longer_observed", "not_observed", "unavailable"})
          => answer.facts \cap {"none", "spent"} # {}

(* Once its inputs were learned, from the pool or from a block that is     *)
(* gone, a transaction whose input another one spent all along is never    *)
(* called pending.                                                         *)
DoubleSpendNoticed ==
    /\ ~ Answered({"none"})
    /\ answer.known /\ answer.facts = {"spent"}
    => answer.state = "conflicted"

(* Once the cache has called a transaction confirmed, no later request is  *)
(* told what the node said before that: the block may be undone, an entry  *)
(* evicted or a request dropped in between, the node is asked again first. *)
(* An inclusion that no request saw leaves the cached word in place for up *)
(* to CacheTime, and so does one that only a busy reader saw (BareRead):   *)
(* the code promises nothing about those.                                  *)
FreshAfterConfirmed ==
    Answered({"pending", "no_longer_observed", "not_observed"}) => ~ answer.outdated
=============================================================================
