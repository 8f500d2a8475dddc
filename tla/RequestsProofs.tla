--------------------------- MODULE RequestsProofs ---------------------------
(***************************************************************************)
(* The process around the store, for every number of requests, every size  *)
(* of the semaphores and every rate: the permits of the blocking reads     *)
(* (ReadsInv is what each step of Reads keeps, and implies ReadsBounded),  *)
(* the listings of the mempool, how the process ends, the rate limiter in  *)
(* front of it all, and the status of a transaction (StatusInv says where  *)
(* its requests are: in the queue of the entry that the cache has for      *)
(* their transaction; and what an entry remembers is about that            *)
(* transaction).                                                           *)
(***************************************************************************)
EXTENDS RateLimit, Requests, Process, TxStatus, FiniteSetTheorems, SequenceTheorems, TLAPS

(* The permits of the blocking reads.                                      *)

Handlers == {"unborn", "gone"} \cup Open
Jobs == {"none", "queued", "running", "ok", "error"}

ReadsTypes ==
    /\ handler \in [Request -> Handlers]
    /\ job \in [Request -> Jobs]
    /\ held \in [Request -> SUBSET Semaphore]
    /\ kept \in [Request -> SUBSET Semaphore]
    /\ free \in [Semaphore -> Nat]
    /\ inflight \in Int

Working(r) == job[r] \in {"queued", "running"}

(* Where the permits of one request may be, by how far it has come.        *)
PermitsOf(r) ==
    /\ handler[r] \in {"unborn", "reserving", "admitting", "anchor"} => job[r] = "none"
    /\ handler[r] \in {"asked", "asking", "prove"} => job[r] = "ok"
    /\ held[r] # {} => handler[r] \in {"admitting", "asking", "prove"}
    /\ "read" \notin held[r]
    /\ IF Working(r) THEN "read" \in kept[r] ELSE kept[r] = {}

PermitsPlaced == \A r \in Request : PermitsOf(r)

(* A permit is free or in exactly one request. *)
Balanced == \A s \in Semaphore : free[s] + Cardinality(Users(s)) = Budget[s]

(* The in-flight count is that of the read permits handed out. *)
Counted == inflight + free["read"] = Budget["read"]

ReadsInv == ReadsTypes /\ PermitsPlaced /\ Balanced /\ Counted

(* The permits of r, wherever they are. *)
PermitsIn(r) == held[r] \cup kept[r]

-----------------------------------------------------------------------------
(* Counting: a semaphore's balance is kept by a step that touches the      *)
(* permits of one request only and takes from, or gives to, the semaphore  *)
(* what that request gains or loses.                                       *)
LEMMA PermitsMoved ==
    ASSUME Balanced, free \in [Semaphore -> Nat],
           NEW r \in Request,
           \A q \in Request : q # r => held'[q] = held[q] /\ kept'[q] = kept[q],
           \A s \in Semaphore :
              free'[s] = IF s \in PermitsIn(r) /\ s \notin PermitsIn(r)' THEN free[s] + 1
                         ELSE IF s \notin PermitsIn(r) /\ s \in PermitsIn(r)' THEN free[s] - 1
                         ELSE free[s]
    PROVE  Balanced'
<1> SUFFICES ASSUME NEW s \in Semaphore
             PROVE  free'[s] + Cardinality(Users(s)') = Budget[s]
    BY DEF Balanced
<1>1. IsFiniteSet(Users(s))
    BY ReadsAssumption, FS_Subset DEF ReadsAssumption, Users
<1>2. Cardinality(Users(s)) \in Nat /\ free[s] \in Nat
    BY <1>1, FS_CardinalityType
<1>3. free[s] + Cardinality(Users(s)) = Budget[s]
    BY DEF Balanced
<1>4. \A q \in Request : q # r => (q \in Users(s) <=> q \in Users(s)')
    BY DEF Users
<1>5. r \in Users(s) <=> s \in PermitsIn(r)
    BY DEF Users, PermitsIn
<1>6. r \in Users(s)' <=> s \in PermitsIn(r)'
    BY DEF Users, PermitsIn
<1>7. Users(s) \subseteq Request /\ Users(s)' \subseteq Request
    BY DEF Users
<1>8. CASE r \in Users(s) /\ r \notin Users(s)'
    <2>1. Users(s)' = Users(s) \ {r}
        BY <1>4, <1>7, <1>8
    <2>2. Cardinality(Users(s)') = Cardinality(Users(s)) - 1
        BY <1>1, <1>8, <2>1, FS_RemoveElement
    <2> QED BY <1>2, <1>3, <1>5, <1>6, <1>8, <2>2
<1>9. CASE r \notin Users(s) /\ r \in Users(s)'
    <2>1. Users(s)' = Users(s) \cup {r}
        BY <1>4, <1>7, <1>9
    <2>2. Cardinality(Users(s)') = Cardinality(Users(s)) + 1
        BY <1>1, <1>9, <2>1, FS_AddElement
    <2> QED BY <1>2, <1>3, <1>5, <1>6, <1>9, <2>2
<1>10. CASE r \in Users(s) <=> r \in Users(s)'
    <2>1. \A q : q \in Users(s)' <=> q \in Users(s)
        BY <1>4, <1>7, <1>10
    <2>2. Users(s)' = Users(s)
        BY <2>1
    <2> QED BY <1>3, <1>5, <1>6, <1>10, <2>2
<1> QED BY <1>8, <1>9, <1>10

LEMMA ReadsStart == ReadsInit => ReadsInv
<1> SUFFICES ASSUME ReadsInit PROVE ReadsInv
    OBVIOUS
<1>1. ReadsTypes /\ PermitsPlaced /\ Counted
    BY ReadsAssumption
    DEF ReadsAssumption, ReadsInit, ReadsTypes, PermitsPlaced, PermitsOf, Working, Counted,
        Handlers, Open, Awaiting, Jobs, Semaphore
<1>2. ASSUME NEW s \in Semaphore PROVE free[s] + Cardinality(Users(s)) = Budget[s]
    <2>1. Users(s) = {}
        BY DEF ReadsInit, Users
    <2>2. Cardinality(Users(s)) = 0
        BY <2>1, FS_EmptySet
    <2> QED BY <2>2, ReadsAssumption DEF ReadsInit, ReadsAssumption
<1> QED BY <1>1, <1>2 DEF ReadsInv, Balanced

-----------------------------------------------------------------------------
(* A step of one request. *)
Alone(r) ==
    \A q \in Request : q # r =>
        /\ handler'[q] = handler[q] /\ job'[q] = job[q]
        /\ held'[q] = held[q] /\ kept'[q] = kept[q]

Exchanged(r) ==
    \A s \in Semaphore :
        free'[s] = IF s \in PermitsIn(r) /\ s \notin PermitsIn(r)' THEN free[s] + 1
                   ELSE IF s \notin PermitsIn(r) /\ s \in PermitsIn(r)' THEN free[s] - 1
                   ELSE free[s]

LEMMA OneRequest ==
    ASSUME ReadsInv, NEW r \in Request,
           ReadsTypes', Alone(r), Exchanged(r), PermitsOf(r)', Counted'
    PROVE  ReadsInv'
<1>1. PermitsPlaced'
    <2> SUFFICES ASSUME NEW q \in Request, q # r PROVE PermitsOf(q)'
        BY DEF PermitsPlaced
    <2> QED BY DEF ReadsInv, PermitsPlaced, PermitsOf, Working, Alone
<1>2. Balanced'
    BY PermitsMoved DEF ReadsInv, ReadsTypes, Alone, Exchanged
<1> QED BY <1>1, <1>2 DEF ReadsInv

(* What is given back had been taken from it. *)
LEMMA RefuseKeeps ==
    ASSUME ReadsInv, NEW r \in Request, handler[r] \in Open, Refuse(r)
    PROVE  ReadsInv'
<1>1. PermitsOf(r) /\ r \in Request
    BY DEF ReadsInv, PermitsPlaced
<1>2. ReadsTypes'
    BY DEF ReadsInv, ReadsTypes, Refuse, Give, Handlers
<1>3. Alone(r)
    BY DEF ReadsInv, ReadsTypes, Refuse, Alone
<1>4. held'[r] = {} /\ kept'[r] = kept[r] /\ held[r] \cap kept[r] = {}
    BY <1>1 DEF ReadsInv, ReadsTypes, Refuse, PermitsOf, Working
<1>5. Exchanged(r)
    BY <1>4 DEF Refuse, Give, Exchanged, PermitsIn
<1>6. PermitsOf(r)'
    BY <1>1, <1>4 DEF ReadsInv, ReadsTypes, Refuse, PermitsOf, Working
<1>7. Counted'
    BY <1>1 DEF ReadsInv, Counted, Refuse, Give, PermitsOf, Semaphore
<1> QED BY <1>2, <1>3, <1>5, <1>6, <1>7, OneRequest

LEMMA ReadArrivesKeeps ==
    ASSUME ReadsInv, NEW r \in Request, ReadArrives(r) PROVE ReadsInv'
<1>1. PermitsOf(r)
    BY DEF ReadsInv, PermitsPlaced
<1>2. ReadsTypes' /\ Alone(r)
    BY DEF ReadsInv, ReadsTypes, ReadArrives, Alone, Handlers, Open
<1>3. Exchanged(r) /\ PermitsOf(r)' /\ Counted'
    BY <1>1 DEF ReadsInv, ReadsTypes, ReadArrives, Exchanged, PermitsIn, PermitsOf, Working,
        Counted
<1> QED BY <1>2, <1>3, OneRequest

LEMMA ReserveKeeps ==
    ASSUME ReadsInv, NEW r \in Request, ReserveHistory(r) \/ ReserveEvidence(r)
    PROVE  ReadsInv'
<1>1. PermitsOf(r) /\ handler[r] \in Open
    BY DEF ReadsInv, PermitsPlaced, ReserveHistory, ReserveEvidence, Open
<1>2. CASE Refuse(r)
    BY <1>1, <1>2, RefuseKeeps
<1>3. CASE ~ Refuse(r)
    <2>1. PICK s \in {"history", "evidence"} :
             /\ free[s] > 0 /\ free' = Take(s)
             /\ held' = [held EXCEPT ![r] = {s}]
             /\ \E to \in {"admitting", "asking"} :
                   /\ handler[r] = (IF to = "admitting" THEN "reserving" ELSE "asked")
                   /\ handler' = [handler EXCEPT ![r] = to]
             /\ UNCHANGED <<job, kept, inflight>>
        BY <1>3 DEF ReserveHistory, ReserveEvidence
    <2>2. ReadsTypes'
        <3>1. free' \in [Semaphore -> Nat]
            BY <2>1 DEF ReadsInv, ReadsTypes, Take, Semaphore
        <3> QED BY <2>1, <3>1 DEF ReadsInv, ReadsTypes, Handlers, Open, Semaphore
    <2>3. Alone(r)
        BY <2>1 DEF Alone
    <2>4. held[r] = {} /\ kept[r] = {} /\ held'[r] = {s} /\ kept'[r] = {}
        BY <1>1, <2>1 DEF ReadsInv, ReadsTypes, PermitsOf, Working
    <2>5. Exchanged(r)
        BY <2>1, <2>4 DEF ReadsInv, ReadsTypes, Exchanged, PermitsIn, Take
    <2>6. PermitsOf(r)'
        BY <1>1, <2>1, <2>4 DEF ReadsInv, ReadsTypes, PermitsOf, Working
    <2>7. Counted'
        BY <2>1 DEF ReadsInv, ReadsTypes, Counted, Take, Semaphore
    <2> QED BY <2>2, <2>3, <2>5, <2>6, <2>7, OneRequest
<1> QED BY <1>2, <1>3

(* The read permit is new to the request; the others move.                 *)
LEMMA AdmitKeeps ==
    ASSUME ReadsInv, NEW r \in Request, Admit(r) PROVE ReadsInv'
<1>1. PermitsOf(r) /\ handler[r] \in Open
    BY DEF ReadsInv, PermitsPlaced, Admit, Wait, Open
<1>2. CASE Refuse(r)
    BY <1>1, <1>2, RefuseKeeps
<1>3. CASE ~ Refuse(r)
    <2>1. /\ handler[r] \in {"admitting", "anchor", "prove"}
          /\ free["read"] > 0 /\ free' = Take("read") /\ inflight' = inflight + 1
          /\ kept' = [kept EXCEPT ![r] = held[r] \cup {"read"}]
          /\ held' = [held EXCEPT ![r] = {}]
          /\ job' = [job EXCEPT ![r] = "queued"]
          /\ handler' = [handler EXCEPT ![r] = Wait[handler[r]]]
        BY <1>3 DEF Admit, Wait
    <2>2. Wait[handler[r]] \in Awaiting
        BY <2>1 DEF Wait, Awaiting
    <2>3. ReadsTypes'
        <3>1. free' \in [Semaphore -> Nat]
            BY <2>1 DEF ReadsInv, ReadsTypes, Take, Semaphore
        <3> QED BY <2>1, <2>2, <3>1 DEF ReadsInv, ReadsTypes, Handlers, Open, Jobs, Semaphore
    <2>4. Alone(r)
        BY <2>1 DEF Alone
    <2>5. /\ kept[r] = {} /\ "read" \notin held[r]
          /\ held'[r] = {} /\ kept'[r] = held[r] \cup {"read"}
        BY <1>1, <2>1 DEF ReadsInv, ReadsTypes, PermitsOf, Working
    <2>6. Exchanged(r)
        BY <2>1, <2>5 DEF ReadsInv, ReadsTypes, Exchanged, PermitsIn, Take
    <2>7. PermitsOf(r)'
        BY <1>1, <2>1, <2>2, <2>5 DEF ReadsInv, ReadsTypes, PermitsOf, Working, Awaiting
    <2>8. Counted'
        BY <2>1 DEF ReadsInv, ReadsTypes, Counted, Take, Semaphore
    <2> QED BY <2>3, <2>4, <2>6, <2>7, <2>8, OneRequest
<1> QED BY <1>2, <1>3

LEMMA JobKeeps ==
    ASSUME ReadsInv, NEW r \in Request, JobStep(r) PROVE ReadsInv'
<1>1. PermitsOf(r)
    BY DEF ReadsInv, PermitsPlaced
<1>2. CASE JobStarts(r)
    <2>1. ReadsTypes' /\ Alone(r)
        BY <1>2 DEF ReadsInv, ReadsTypes, JobStarts, Alone, Jobs
    <2>2. Exchanged(r) /\ PermitsOf(r)' /\ Counted'
        BY <1>1, <1>2 DEF ReadsInv, ReadsTypes, JobStarts, Exchanged, PermitsIn, PermitsOf,
            Working, Counted
    <2> QED BY <2>1, <2>2, OneRequest
<1>3. CASE JobEnds(r)
    <2>1. ReadsTypes'
        BY <1>3 DEF ReadsInv, ReadsTypes, JobEnds, Give, Jobs
    <2>2. Alone(r)
        BY <1>3 DEF JobEnds, Alone
    <2>3. /\ "read" \in kept[r] /\ kept'[r] = {}
          /\ handler[r] \in {"gone"} \cup Awaiting
          /\ held[r] = {} /\ held'[r] = {}
        BY <1>1, <1>3 DEF ReadsInv, ReadsTypes, JobEnds, PermitsOf, Working, Handlers, Open
    <2>4. Exchanged(r)
        BY <1>3, <2>3 DEF JobEnds, Give, Exchanged, PermitsIn
    <2>5. PermitsOf(r)'
        BY <1>1, <1>3, <2>3 DEF ReadsInv, ReadsTypes, JobEnds, PermitsOf, Working, Awaiting
    <2>6. Counted'
        BY <1>3, <2>3 DEF ReadsInv, ReadsTypes, JobEnds, Counted, Give, Semaphore
    <2> QED BY <2>1, <2>2, <2>4, <2>5, <2>6, OneRequest
<1> QED BY <1>2, <1>3 DEF JobStep

LEMMA HandlerKeeps ==
    ASSUME ReadsInv, NEW r \in Request, Resume(r) \/ NodeAnswers(r) \/ Abandon(r)
    PROVE  ReadsInv'
<1>1. PermitsOf(r) /\ handler[r] \in Open
    BY DEF ReadsInv, PermitsPlaced, Resume, NodeAnswers, Abandon, Open, Awaiting
<1>2. CASE Resume(r)
    <2>1. /\ held[r] = {} /\ held'[r] = {} /\ kept'[r] = kept[r]
          /\ handler'[r] \in {"asked", "gone"}
          /\ handler'[r] = "asked" => job[r] = "ok"
          /\ job'[r] = job[r]
        BY <1>1, <1>2 DEF ReadsInv, ReadsTypes, Resume, PermitsOf, Awaiting
    <2>2. ReadsTypes' /\ Alone(r)
        BY <1>2 DEF ReadsInv, ReadsTypes, Resume, Give, Alone, Handlers, Open
    <2>3. Exchanged(r)
        BY <1>2, <2>1 DEF Resume, Give, Exchanged, PermitsIn
    <2>4. PermitsOf(r)'
        BY <1>1, <2>1 DEF PermitsOf, Working
    <2>5. Counted'
        BY <1>1, <1>2 DEF ReadsInv, Counted, Resume, Give, PermitsOf, Semaphore
    <2> QED BY <2>2, <2>3, <2>4, <2>5, OneRequest
<1>3. CASE NodeAnswers(r) /\ ~ Refuse(r)
    <2>1. /\ handler[r] = "asking" /\ handler' = [handler EXCEPT ![r] = "prove"]
          /\ UNCHANGED <<job, held, kept, free, inflight>>
        BY <1>3 DEF NodeAnswers
    <2>2. ReadsTypes' /\ Alone(r)
        BY <2>1 DEF ReadsInv, ReadsTypes, Alone, Handlers, Open
    <2>3. Exchanged(r) /\ PermitsOf(r)' /\ Counted'
        BY <1>1, <2>1 DEF ReadsInv, ReadsTypes, Exchanged, PermitsIn, PermitsOf, Working, Counted
    <2> QED BY <2>2, <2>3, OneRequest
<1>4. CASE Refuse(r)
    BY <1>1, <1>4, RefuseKeeps
<1> QED BY <1>2, <1>3, <1>4 DEF NodeAnswers, Abandon

-----------------------------------------------------------------------------
LEMMA ReadsStep == ReadsInv /\ [ReadsNext]_readsVars => ReadsInv'
<1> SUFFICES ASSUME ReadsInv, [ReadsNext]_readsVars PROVE ReadsInv'
    OBVIOUS
<1>1. CASE UNCHANGED readsVars
    BY <1>1 DEF readsVars, ReadsInv, ReadsTypes, PermitsPlaced, PermitsOf, Working, Balanced,
        Users, Counted
<1>2. CASE ReadsNext
    <2> PICK r \in Request : ReadArrives(r) \/ ReadStep(r) \/ Abandon(r)
        BY <1>2 DEF ReadsNext
    <2> QED BY ReadArrivesKeeps, ReserveKeeps, AdmitKeeps, JobKeeps, HandlerKeeps
            DEF ReadStep, HandlerStep
<1> QED BY <1>1, <1>2

LEMMA ReadsInvBounded == ReadsInv => ReadsBounded
<1> SUFFICES ASSUME ReadsInv PROVE ReadsBounded
    OBVIOUS
<1>1. Users("read") = Busy
    BY DEF ReadsInv, PermitsPlaced, PermitsOf, Working, Users, Busy
<1>2. free["read"] + Cardinality(Busy) = Budget["read"]
    BY <1>1 DEF ReadsInv, Balanced, Semaphore
<1>3. free["read"] \in Nat /\ Budget["read"] \in Nat /\ inflight \in Int
    BY ReadsAssumption DEF ReadsAssumption, ReadsInv, ReadsTypes, Semaphore
<1>4. Cardinality(Busy) \in Nat
    BY ReadsAssumption, FS_Subset, FS_CardinalityType DEF ReadsAssumption, Busy
<1>5. Cardinality(Busy) <= Budget["read"] /\ inflight = Cardinality(Busy)
    BY <1>2, <1>3, <1>4 DEF ReadsInv, Counted
<1>6. \A s \in Semaphore : free[s] >= 0 /\ free[s] + Cardinality(Users(s)) = Budget[s]
    BY DEF ReadsInv, ReadsTypes, Balanced
<1>7. \A r \in Busy : "read" \in kept[r]
    BY DEF ReadsInv, PermitsPlaced, PermitsOf, Working, Busy
<1> QED BY <1>5, <1>6, <1>7 DEF ReadsBounded

-----------------------------------------------------------------------------
(* The requests, the mempool's listings among them.                         *)

(* All blocking reads stay within their permits, and the permits are all   *)
(* accounted for, however handlers are dropped by timeouts and clients     *)
(* (lib.rs, `blocking`).                                                   *)
THEOREM RequestsReadsBounded == RequestsSpec => []ReadsBounded
<1>1. RequestsInit => ReadsInv
    BY ReadsStart DEF RequestsInit
<1>2. ReadsInv /\ [RequestsNext]_requestsVars => ReadsInv'
    BY ReadsStep DEF RequestsNext, requestsVars, readsVars
<1> QED BY <1>1, <1>2, ReadsInvBounded, PTL DEF RequestsSpec

-----------------------------------------------------------------------------
ObserverStates == {"unborn", "missed", "admitted", "asking", "parsing", "gone"}
ParserStates == {"none", "running", "ok", "refused"}

MempoolTypes ==
    /\ pool \in Nat
    /\ observer \in [Observer -> ObserverStates]
    /\ body \in [Observer -> Nat \cup {Nothing}]
    /\ parser \in [Observer -> ParserStates]
    /\ cache \in Nat \cup {Failed, Nothing}
    /\ live \in BOOLEAN
    /\ shown \in Nat \cup {Nothing}

(* One clone of the permit at a time belongs to a request. *)
OneHolder == \A o, p \in Holders : o = p

(* What is on its way to the cache is not older than what was shown. *)
NothingStale ==
    /\ shown <= pool
    /\ cache >= 0 => cache = shown
    /\ \A o \in Observer :
          /\ body[o] <= pool
          /\ observer[o] = "parsing" => body[o] # Nothing
          /\ observer[o] \in {"unborn", "missed", "admitted"} => body[o] = Nothing
          /\ observer[o] \in {"asking", "parsing"} /\ body[o] # Nothing => body[o] >= shown

MempoolInv == MempoolTypes /\ OneHolder /\ NothingStale

LEMMA MempoolStart == MempoolInit => MempoolInv
<1> SUFFICES ASSUME MempoolInit PROVE MempoolInv
    OBVIOUS
<1>1. MempoolTypes
    BY DEF MempoolInit, MempoolTypes, ObserverStates, ParserStates
<1>2. OneHolder
    BY DEF MempoolInit, OneHolder, Holders
<1>3. NothingStale
    BY DEF MempoolInit, NothingStale, Nothing
<1> QED BY <1>1, <1>2, <1>3 DEF MempoolInv

(* What is cached had been shown before, so showing it again changes       *)
(* nothing.                                                                *)
LEMMA ServeCachedShows ==
    ASSUME MempoolInv, NEW o \in Observer, ServeCached(o) PROVE shown' = shown
BY DEF MempoolInv, MempoolTypes, NothingStale, ServeCached, Show

LEMMA LookKeeps ==
    ASSUME MempoolInv, NEW o \in Observer, Look(o) \/ LookAgain(o)
    PROVE  MempoolInv' /\ shown' = shown
<1>1. UNCHANGED <<pool, body, parser, cache, live>>
    BY DEF Look, LookAgain
<1>2. shown' = shown
    BY ServeCachedShows DEF Look, LookAgain
<1>3. /\ observer' = [observer EXCEPT ![o] = observer'[o]]
      /\ \/ observer[o] = "unborn" /\ observer'[o] \in {"gone", "missed"}
         \/ observer[o] = "admitted" /\ observer'[o] \in {"gone", "asking"}
    BY DEF MempoolInv, MempoolTypes, Look, LookAgain, ServeCached
<1>4. MempoolTypes'
    BY <1>1, <1>2, <1>3 DEF MempoolInv, MempoolTypes, ObserverStates
<1>5. Holders' \subseteq Holders
    BY <1>1, <1>3 DEF MempoolInv, MempoolTypes, Holders
<1>6. OneHolder'
    BY <1>5 DEF MempoolInv, OneHolder
<1>7. NothingStale'
    BY <1>1, <1>2, <1>3 DEF MempoolInv, MempoolTypes, NothingStale
<1> QED BY <1>2, <1>4, <1>6, <1>7 DEF MempoolInv

LEMMA TakePermitKeeps ==
    ASSUME MempoolInv, NEW o \in Observer, TakePermit(o)
    PROVE  MempoolInv' /\ shown' = shown
<1>1. MempoolTypes' /\ shown' = shown
    BY DEF MempoolInv, MempoolTypes, TakePermit, ObserverStates
<1>2. IF Holders = {} THEN Holders' \subseteq {o} ELSE Holders' \subseteq Holders
    BY DEF MempoolInv, MempoolTypes, TakePermit, Holders
<1>3. OneHolder'
    BY <1>2 DEF MempoolInv, OneHolder
<1>4. NothingStale'
    BY DEF MempoolInv, MempoolTypes, NothingStale, TakePermit
<1> QED BY <1>1, <1>3, <1>4 DEF MempoolInv

(* The steps of the one request that holds the permit, up to its answer.   *)
LEMMA FetchKeeps ==
    ASSUME MempoolInv, NEW o \in Observer,
           NodeLists(o) \/ SpawnParse(o) \/ Parsed(o) \/ AbandonObservation(o)
    PROVE  MempoolInv' /\ shown' = shown
<1>1. MempoolTypes' /\ shown' = shown
    BY DEF MempoolInv, MempoolTypes, NodeLists, SpawnParse, Parsed, AbandonObservation,
        ObserverStates, ParserStates
<1>2. Holders' \subseteq Holders
    BY DEF MempoolInv, MempoolTypes, Holders, NodeLists, SpawnParse, Parsed, AbandonObservation
<1>3. OneHolder'
    BY <1>2 DEF MempoolInv, OneHolder
<1>4. NothingStale'
    BY DEF MempoolInv, MempoolTypes, NothingStale, NodeLists, SpawnParse, Parsed,
        AbandonObservation, Nothing
<1> QED BY <1>1, <1>3, <1>4 DEF MempoolInv

(* Its answer is not older than what was shown, and nobody else is on the  *)
(* way with one.                                                           *)
LEMMA StoreKeeps ==
    ASSUME MempoolInv, NEW o \in Observer, Finish(o) \/ NodeFails(o)
    PROVE  MempoolInv' /\ shown' >= shown
<1>1. PICK value \in Nat \cup {Failed} :
         /\ Store(o, value)
         /\ value # Failed => value = body[o] /\ observer[o] = "parsing"
    BY DEF MempoolInv, MempoolTypes, NothingStale, Finish, NodeFails
<1>2. o \in Holders /\ observer[o] \in {"asking", "parsing"}
    BY DEF Holders, Finish, NodeFails
<1>3. \A p \in Observer : observer[p] \in {"asking", "parsing"} => p = o
    BY <1>2 DEF MempoolInv, OneHolder, Holders
<1>4. value # Failed => value >= shown /\ value <= pool
    BY <1>1 DEF MempoolInv, MempoolTypes, NothingStale
<1>5. shown' >= shown /\ shown' \in Nat \cup {Nothing} /\ shown' <= pool
    BY <1>1, <1>4 DEF MempoolInv, MempoolTypes, NothingStale, Store, Show, Nothing, Failed
<1>6. MempoolTypes'
    BY <1>1, <1>5 DEF MempoolInv, MempoolTypes, Store, ObserverStates
<1>7. OneHolder'
    <2>1. Holders' \subseteq Holders
        BY <1>1 DEF MempoolInv, MempoolTypes, Holders, Store
    <2> QED BY <2>1 DEF MempoolInv, OneHolder
<1>8. NothingStale'
    <2>1. observer' = [observer EXCEPT ![o] = "gone"] /\ UNCHANGED <<pool, body>>
        BY <1>1 DEF Store
    <2>2. cache' >= 0 => cache' = shown'
        BY <1>1 DEF Store, Show
    <2>3. \A p \in Observer : observer'[p] \notin {"asking", "parsing"}
        BY <1>3, <2>1 DEF MempoolInv, MempoolTypes
    <2>4. \A p \in Observer :
             /\ body'[p] <= pool'
             /\ observer'[p] \in {"unborn", "missed", "admitted"} => body'[p] = Nothing
        BY <2>1 DEF MempoolInv, MempoolTypes, NothingStale
    <2> QED BY <1>5, <2>1, <2>2, <2>3, <2>4 DEF NothingStale
<1> QED BY <1>5, <1>6, <1>7, <1>8 DEF MempoolInv

LEMMA MempoolStep == MempoolInv /\ [MempoolNext]_mempoolVars => MempoolInv' /\ shown' >= shown
<1> SUFFICES ASSUME MempoolInv, [MempoolNext]_mempoolVars
             PROVE  MempoolInv' /\ shown' >= shown
    OBVIOUS
<1>1. shown' = shown => shown' >= shown
    BY DEF MempoolInv, MempoolTypes, Nothing
<1>2. CASE UNCHANGED mempoolVars
    BY <1>1, <1>2 DEF mempoolVars, MempoolInv, MempoolTypes, OneHolder, Holders, NothingStale
<1>3. ASSUME NEW o \in Observer, Look(o) \/ ObserverStep(o) \/ AbandonObservation(o)
      PROVE  MempoolInv' /\ shown' >= shown
    BY <1>1, <1>3, LookKeeps, TakePermitKeeps, FetchKeeps, StoreKeeps DEF ObserverStep
<1>4. CASE PoolMoves \/ Expire
    <2>1. UNCHANGED <<observer, body, parser, cache, shown>>
        BY <1>4 DEF PoolMoves, Expire
    <2>2. pool' \in Nat /\ pool' >= pool
        BY <1>4 DEF PoolMoves, Expire, MempoolInv, MempoolTypes
    <2>3. live' \in BOOLEAN
        BY <1>4, Zenon DEF PoolMoves, Expire, MempoolInv, MempoolTypes
    <2>4. MempoolTypes' /\ OneHolder'
        BY <2>1, <2>2, <2>3 DEF MempoolInv, MempoolTypes, OneHolder, Holders
    <2>5. NothingStale'
        BY <2>1, <2>2 DEF MempoolInv, MempoolTypes, NothingStale, Nothing
    <2> QED BY <1>1, <2>1, <2>4, <2>5 DEF MempoolInv
<1> QED BY <1>2, <1>3, <1>4 DEF MempoolNext

LEMMA AtMostOne ==
    ASSUME NEW S, \A o, p \in S : o = p
    PROVE  Cardinality(S) <= 1
<1>1. CASE S = {}
    <2>1. Cardinality(S) = 0
        BY <1>1, FS_EmptySet
    <2> QED BY <2>1
<1>2. CASE S # {}
    <2>1. PICK o \in S : S = {o}
        BY <1>2
    <2>2. Cardinality(S) = 1
        BY <2>1, FS_Singleton
    <2> QED BY <2>2
<1> QED BY <1>1, <1>2

LEMMA OnlyWhenExpired ==
    ASSUME MempoolInv, MempoolNext, NEW p \in Observer,
           observer[p] # "asking", observer'[p] = "asking"
    PROVE  ~ live
BY DEF MempoolInv, MempoolTypes, MempoolNext, ObserverStep, Look, TakePermit, LookAgain,
    ServeCached, NodeLists, SpawnParse, Parsed, Finish, NodeFails, Store, AbandonObservation,
    PoolMoves, Expire

(* Responses never go back to an older listing, the node is asked only     *)
(* when nothing unexpired is cached, and by one request at a time          *)
(* (handlers/mempool.rs, `response`).                                      *)
THEOREM RequestsMempoolFresh == RequestsSpec => MempoolFresh
<1>1. RequestsInit => MempoolInv
    BY MempoolStart DEF RequestsInit
<1>2. MempoolInv /\ [RequestsNext]_requestsVars => MempoolInv' /\ shown' >= shown
    BY MempoolStep DEF RequestsNext, requestsVars, mempoolVars
<1>3. MempoolInv /\ [RequestsNext]_requestsVars =>
        [/\ shown' >= shown
         /\ \A o \in Observer : observer[o] # "asking" /\ observer'[o] = "asking" => ~ live
         /\ Cardinality({o \in Observer : \/ observer'[o] \in {"asking", "parsing"}
                                          \/ parser'[o] = "running"}) <= 1]_mempoolVars
    <2> SUFFICES ASSUME MempoolInv, [RequestsNext]_requestsVars, ~ UNCHANGED mempoolVars
                 PROVE  /\ shown' >= shown
                        /\ \A o \in Observer :
                              observer[o] # "asking" /\ observer'[o] = "asking" => ~ live
                        /\ Cardinality({o \in Observer :
                              \/ observer'[o] \in {"asking", "parsing"}
                              \/ parser'[o] = "running"}) <= 1
        OBVIOUS
    <2>1. MempoolNext
        BY DEF RequestsNext, requestsVars
    <2> DEFINE Fetching == {o \in Observer : \/ observer'[o] \in {"asking", "parsing"}
                                             \/ parser'[o] = "running"}
    <2>2. \A o, p \in Fetching : o = p
        BY <1>2 DEF MempoolInv, OneHolder, Holders
    <2>3. Cardinality(Fetching) <= 1
        <3> HIDE DEF Fetching
        <3> QED BY <2>2, AtMostOne
    <2>4. MempoolInv' /\ shown' >= shown
        BY <1>2
    <2> QED BY <2>1, <2>3, <2>4, OnlyWhenExpired
<1> QED BY <1>1, <1>2, <1>3, PTL DEF RequestsSpec, MempoolFresh

-----------------------------------------------------------------------------
(* How the process ends.                                                   *)

SupervisorTypes ==
    /\ shutdown \in BOOLEAN
    /\ signalled \in BOOLEAN
    /\ ingest \in {Running, "writing"} \cup Ended
    /\ server \in {"serving", "draining", "closed", "failed"}
    /\ worker \in [Worker -> {"check", "queued", "waiting", "writing", "pause", "done"}]
    /\ main \in {"select", "await_server", "await_ingest", "join", "exited"}
    /\ outcome \in [ingest : {Running} \cup Ended, serverFailed : BOOLEAN]

(* What ended on a request to do so was requested to. *)
EndsWhenAsked ==
    /\ ingest = "ok" => shutdown
    /\ server \in {"draining", "closed"} => shutdown

(* Without a signal the end was asked for because something failed.        *)
AskedForAReason == shutdown /\ ~ signalled => ingest \in Ended \ {"ok"} \/ server = "failed"

(* What `run` remembers is how it was. *)
OutcomeTrue ==
    /\ main \in {"await_server", "join", "exited"} =>
          ingest \in Ended /\ outcome.ingest = ingest
    /\ main \in {"await_ingest", "join", "exited"} =>
          server \in {"closed", "failed"} /\ outcome.serverFailed = (server = "failed")

LastWords ==
    main = "exited" => exit = ExitCode /\ \A w \in Worker : worker[w] = "done"

SupervisorInv ==
    SupervisorTypes /\ EndsWhenAsked /\ AskedForAReason /\ OutcomeTrue /\ LastWords

LEMMA SupervisorStart == SupervisorInit => SupervisorInv
<1> SUFFICES ASSUME SupervisorInit PROVE SupervisorInv
    OBVIOUS
<1>1. SupervisorTypes
    BY DEF SupervisorInit, SupervisorTypes
<1>2. EndsWhenAsked /\ AskedForAReason /\ OutcomeTrue /\ LastWords
    BY DEF SupervisorInit, EndsWhenAsked, AskedForAReason, OutcomeTrue, LastWords, Running
<1> QED BY <1>1, <1>2 DEF SupervisorInv

LEMMA SupervisorStep ==
    SupervisorInv /\ Alive /\ SupervisorNext => SupervisorInv'
<1> SUFFICES ASSUME SupervisorInv, Alive, SupervisorNext PROVE SupervisorInv'
    OBVIOUS
<1> USE DEF SupervisorInv, Alive
<1>1. CASE Signal
    BY <1>1 DEF Signal, SupervisorTypes, EndsWhenAsked, AskedForAReason, OutcomeTrue, LastWords,
        ExitCode
<1>2. CASE IngestWrites \/ IngestCommits \/ IngestEnds
    <2>1. /\ ingest \in {Running, "writing"}
          /\ ingest' \in {Running, "writing"} \cup Ended
          /\ ingest' = "ok" => shutdown
          /\ UNCHANGED <<shutdown, signalled, server, worker, main, outcome, exit>>
        BY <1>2 DEF IngestWrites, IngestCommits, IngestEnds, Running, Ended
    <2>2. ingest \notin Ended
        BY <2>1 DEF Running, Ended
    <2> QED BY <2>1, <2>2 DEF SupervisorTypes, EndsWhenAsked, AskedForAReason, OutcomeTrue,
            LastWords
<1>3. ASSUME NEW w \in Worker, WorkerStep(w) PROVE SupervisorInv'
    <2>1. PICK to \in {"queued", "waiting", "writing", "pause", "check", "done"} :
             MoveWorker(w, to)
        BY <1>3 DEF WorkerStep, WorkerSpawns, WorkerStarts, WorkerWrites, WorkerBatchEnds,
            WorkerResumes
    <2> QED BY <2>1 DEF MoveWorker, SupervisorTypes, EndsWhenAsked, AskedForAReason,
            OutcomeTrue, LastWords
<1>4. CASE ServerDrains \/ ServerCloses \/ ServerFails
    <2>1. /\ server \in {"serving", "draining"}
          /\ server' \in {"draining", "closed", "failed"}
          /\ server' # "failed" => shutdown /\ server # "failed"
          /\ UNCHANGED <<shutdown, signalled, ingest, worker, main, outcome, exit>>
        BY <1>4 DEF ServerDrains, ServerCloses, ServerFails, EndsWhenAsked
    <2> QED BY <2>1 DEF SupervisorTypes, EndsWhenAsked, AskedForAReason, OutcomeTrue, LastWords
<1>5. CASE SelectIngest \/ AwaitServer
    BY <1>5 DEF SelectIngest, AwaitServer, SupervisorTypes, EndsWhenAsked, AskedForAReason,
        OutcomeTrue, LastWords, Ended
<1>6. CASE SelectServer \/ AwaitIngest
    BY <1>6 DEF SelectServer, AwaitIngest, SupervisorTypes, EndsWhenAsked, AskedForAReason,
        OutcomeTrue, LastWords, Ended
<1>7. CASE JoinAndExit
    BY <1>7 DEF JoinAndExit, SupervisorTypes, EndsWhenAsked, AskedForAReason, OutcomeTrue,
        LastWords, ExitCode
<1> QED BY <1>1, <1>2, <1>3, <1>4, <1>5, <1>6, <1>7 DEF SupervisorNext, MainStep

LEMMA SupervisorExits == SupervisorInv => ExitSound
<1> SUFFICES ASSUME SupervisorInv, main = "exited" PROVE ExitSound
    BY DEF ExitSound
<1>1. /\ ingest \in Ended /\ outcome.ingest = ingest
      /\ server \in {"closed", "failed"} /\ outcome.serverFailed = (server = "failed")
      /\ exit = ExitCode /\ \A w \in Worker : worker[w] = "done"
    BY DEF SupervisorInv, OutcomeTrue, LastWords
<1>2. ~ Writing
    BY <1>1 DEF Writing, Ended
<1>3. /\ ingest = "ok" => exit = (IF server = "failed" THEN 1 ELSE 0)
      /\ ingest = "reindex" => exit = 3
      /\ ingest \in {"error", "panicked"} => exit = 1
    BY <1>1 DEF ExitCode, EXIT_REINDEX_REQUIRED
<1>4. (exit = 3 <=> ingest = "reindex") /\ (exit = 0 <=> ingest = "ok" /\ server = "closed")
    BY <1>1, <1>3 DEF Ended
<1>5. exit = 0 => signalled
    BY <1>4 DEF SupervisorInv, SupervisorTypes, EndsWhenAsked, AskedForAReason, Ended
<1> QED BY <1>1, <1>2, <1>4, <1>5 DEF ExitSound, EXIT_REINDEX_REQUIRED

-----------------------------------------------------------------------------
(* A step of the process is one of the supervisor's or of a request's.     *)
LEMMA ProcessSteps ==
    ASSUME [ProcessNext]_processVars
    PROVE  /\ (Alive /\ SupervisorNext) \/ UNCHANGED supervisorVars
           /\ [ReadsNext]_readsVars
BY DEF ProcessNext, processVars, OfSupervisor, OfRequest, ClientDone, ServerActs, IngestActs,
    SupervisorNext, ReadsNext, readsVars

(* The exit code is the truth about how the service ended, and no write    *)
(* transaction is open when it does (bin/explorer/src/main.rs, `run`).     *)
THEOREM ProcessExitSound == ProcessSpec => []ExitSound
<1>1. ProcessInit => SupervisorInv
    BY SupervisorStart DEF ProcessInit
<1>2. SupervisorInv /\ [ProcessNext]_processVars => SupervisorInv'
    <2> SUFFICES ASSUME SupervisorInv, [ProcessNext]_processVars PROVE SupervisorInv'
        OBVIOUS
    <2>1. CASE Alive /\ SupervisorNext
        BY <2>1, SupervisorStep
    <2>2. CASE UNCHANGED supervisorVars
        BY <2>2 DEF supervisorVars, SupervisorInv, SupervisorTypes, EndsWhenAsked,
            AskedForAReason, OutcomeTrue, LastWords, ExitCode
    <2> QED BY <2>1, <2>2, ProcessSteps
<1> QED BY <1>1, <1>2, SupervisorExits, PTL DEF ProcessSpec

(* Shutting down, and the requests it leaves on the blocking pool, lose no *)
(* permit either.                                                          *)
THEOREM ProcessReadsBounded == ProcessSpec => []ReadsBounded
<1>1. ProcessInit => ReadsInv
    BY ReadsStart DEF ProcessInit
<1>2. ReadsInv /\ [ProcessNext]_processVars => ReadsInv'
    BY ReadsStep, ProcessSteps
<1> QED BY <1>1, <1>2, ReadsInvBounded, PTL DEF ProcessSpec

-----------------------------------------------------------------------------
(* The rate limiter: its map stays within its bound, errs only in the      *)
(* client's favour and honours the Retry-After it gives.                   *)

LEMMA CapFacts == Cap \in Nat /\ Cap >= Cost /\ Cost \in Nat /\ Cost > 0
<1>1. Burst \in Nat /\ Cost \in Nat /\ Burst >= 1 /\ Cost >= 1
  BY LimitRateAssumption
<1>2. Burst * Cost \in Nat
  BY <1>1
<1>3. Burst * Cost >= 1 * Cost
  BY <1>1
<1> QED BY <1>1, <1>2, <1>3 DEF Cap

LEMMA DivisionFacts ==
    ASSUME NEW x \in Nat, NEW s \in Int, s > 0
    PROVE  /\ x \div s \in Nat
           /\ (x \div s) * s \in Nat
           /\ (x \div s) * s > x - s
<1>1. x \div s \in Int
  OBVIOUS
<1>2. x \div s >= 0
  OBVIOUS
<1>3. s * (x \div s) > x - s
  OBVIOUS
<1> QED BY <1>1, <1>2, <1>3

(* Whole seconds cover what is missing. *)
LEMMA RetryFacts ==
    ASSUME NEW b, b.level \in Int, b.level < Cost
    PROVE  /\ RetryAfter(b) \in Nat
           /\ RetryAfter(b) * Second \in Nat
           /\ RetryAfter(b) * Second >= Cost - b.level
<1> DEFINE x == Cost - b.level + Second - 1
<1>1. Second \in Int /\ Second > 0 /\ x \in Nat /\ Cost \in Int
  BY LimitTimeAssumption, LimitRateAssumption
<1>2. RetryAfter(b) = x \div Second
  BY DEF RetryAfter
<1>3. RetryAfter(b) \in Nat /\ RetryAfter(b) * Second \in Nat
      /\ RetryAfter(b) * Second > x - Second
  BY <1>1, <1>2, DivisionFacts
<1>4. RetryAfter(b) * Second > Cost - b.level - 1
  <2> DEFINE y == RetryAfter(b) * Second
  <2>1. y \in Nat /\ y > x - Second
    BY <1>3
  <2> HIDE DEF y
  <2>2. y > Cost - b.level - 1
    BY <1>1, <2>1
  <2> QED BY <2>2 DEF y
<1> DEFINE z == RetryAfter(b) * Second
<1>5. z \in Nat /\ z > Cost - b.level - 1
  BY <1>3, <1>4
<1> HIDE DEF z
<1>6. z >= Cost - b.level
  BY <1>1, <1>5
<1> QED BY <1>3, <1>6 DEF z

-----------------------------------------------------------------------------
(* One bucket. *)

AnyBucket == [level: 0..Cap, last: Nat]

LEMMA RefilledFacts ==
    ASSUME NEW b \in AnyBucket, NEW t \in Nat
    PROVE  /\ Refilled(b, t) \in 0..Cap
           /\ Refilled(b, t) >= b.level
           /\ t >= b.last => Refilled(b, t) = Least(Cap, b.level + (t - b.last))
           /\ b.last >= t => Refilled(b, t) = b.level
BY CapFacts DEF AnyBucket, Refilled, Least, Since

(* Taking a token at t costs a token and no more at any later moment,      *)
(* whoever took one before with a later clock.                             *)
LEMMA TakeFacts ==
    ASSUME NEW b \in AnyBucket, NEW t \in Nat, NEW u \in Nat, t <= u
    PROVE  /\ TryTake(b, t) \in AnyBucket
           /\ TryTake(b, t).last = t
           /\ Refilled(b, t) >= Cost =>
                 /\ TryTake(b, t).level = Refilled(b, t) - Cost
                 /\ Refilled(TryTake(b, t), u) >= Refilled(b, u) - Cost
           /\ ~ (Refilled(b, t) >= Cost) =>
                 /\ TryTake(b, t).level = Refilled(b, t)
                 /\ Refilled(TryTake(b, t), u) >= Refilled(b, u)
<1>1. Refilled(b, t) \in 0..Cap
  BY RefilledFacts
<1>2. /\ TryTake(b, t).last = t
      /\ TryTake(b, t) \in AnyBucket
      /\ Refilled(b, t) >= Cost => TryTake(b, t).level = Refilled(b, t) - Cost
      /\ ~ (Refilled(b, t) >= Cost) => TryTake(b, t).level = Refilled(b, t)
  BY <1>1, CapFacts DEF TryTake, AnyBucket
<1>3. Refilled(TryTake(b, t), u) = Least(Cap, TryTake(b, t).level + (u - t))
  BY <1>2, RefilledFacts
<1>4. /\ b.level \in 0..Cap /\ b.last \in Nat /\ Cap \in Nat /\ Cost \in Nat /\ Cost <= Cap
  BY CapFacts DEF AnyBucket
<1>5. Refilled(b, t) = Least(Cap, b.level + Since(t, b.last))
      /\ Refilled(b, u) = Least(Cap, b.level + Since(u, b.last))
  BY DEF Refilled
<1>6. CASE Refilled(b, t) >= Cost
  <2>1. Least(Cap, Refilled(b, t) - Cost + (u - t)) >= Refilled(b, u) - Cost
    BY <1>4, <1>5, <1>6 DEF Least, Since
  <2> QED BY <1>2, <1>3, <1>6, <2>1
<1>7. CASE ~ (Refilled(b, t) >= Cost)
  <2>1. Least(Cap, Refilled(b, t) + (u - t)) >= Refilled(b, u)
    BY <1>4, <1>5, <1>7 DEF Least, Since
  <2> QED BY <1>2, <1>3, <1>7, <2>1
<1> QED BY <1>2, <1>6, <1>7

LEMMA TakeTypes ==
    ASSUME NEW b \in AnyBucket, NEW t \in Nat
    PROVE  /\ TryTake(b, t) \in [level: 0..Cap, last: {t}]
           /\ ~ (Refilled(b, t) >= Cost) => TryTake(b, t).level < Cost
<1>1. Refilled(b, t) \in 0..Cap
  BY RefilledFacts
<1> QED BY <1>1, CapFacts DEF TryTake

-----------------------------------------------------------------------------
(* The map. *)

(* What a map of these keys and buckets gives k at t.                      *)
LevelIn(keys, buckets, k, t) == IF k \in keys THEN Refilled(buckets[k], t) ELSE Cap

LevelNow(k, t) == LevelIn(tracked, bucket, k, t)
LevelNext(k, t) == LevelIn(tracked', bucket', k, t)

LimitInv ==
    /\ LimitTypeOK
    /\ \A k \in Key : bucket[k].last <= now
    /\ \A r \in Caller : pending[r].at <= now

LEMMA BucketTypes ==
    ASSUME LimitTypeOK
    PROVE  /\ now \in Nat
           /\ \A k \in Key : bucket[k] \in AnyBucket /\ bucket[k] \in Bucket
           /\ IsFiniteSet(tracked)
           /\ \A k \in Key, t \in Nat : LevelNow(k, t) \in 0..Cap
<1>1. now \in Nat /\ \A k \in Key : bucket[k] \in AnyBucket /\ bucket[k] \in Bucket
  BY LimitTimeAssumption DEF LimitTypeOK, AnyBucket, Bucket
<1>2. IsFiniteSet(tracked)
  BY LimitMapAssumption, FS_Subset DEF LimitTypeOK
<1>3. \A k \in Key, t \in Nat : LevelNow(k, t) \in 0..Cap
  BY <1>1, RefilledFacts, CapFacts DEF LevelNow, LevelIn
<1> QED BY <1>1, <1>2, <1>3

LEMMA LevelTypesNext ==
    ASSUME LimitTypeOK'
    PROVE  \A k \in Key, t \in Nat : LevelNext(k, t) \in 0..Cap
<1>1. \A k \in Key : bucket'[k] \in AnyBucket
  BY LimitTimeAssumption DEF LimitTypeOK, AnyBucket, Bucket
<1> QED BY <1>1, RefilledFacts, CapFacts DEF LevelNext, LevelIn

(* Whatever a sweep leaves, one more key fits. *)
LEMMA SweptFits ==
    ASSUME LimitTypeOK, NEW t, NEW k \in Key
    PROVE  /\ Swept(t) \subseteq tracked
           /\ Swept(t) \cup {k} \subseteq Key
           /\ Cardinality(Swept(t) \cup {k}) <= MaxBuckets
<1>1. IsFiniteSet(tracked) /\ tracked \subseteq Key
  BY BucketTypes DEF LimitTypeOK
<1>2. Swept(t) \subseteq tracked
  BY DEF Swept
<1>3. IsFiniteSet(Swept(t)) /\ Cardinality(Swept(t)) \in Nat
  BY <1>1, <1>2, FS_Subset, FS_CardinalityType
<1>4. ~ OverCap(Swept(t))
  <2>1. Cardinality({}) = 0
    BY FS_EmptySet
  <2>2. ~ OverCap({})
    BY <2>1, LimitMapAssumption DEF OverCap
  <2> QED BY <2>2 DEF Swept, Sweeps
<1>5. Cardinality(Swept(t)) < MaxBuckets
  BY <1>3, <1>4, LimitMapAssumption DEF OverCap
<1>6. Cardinality(Swept(t) \cup {k}) <= Cardinality(Swept(t)) + 1
  BY <1>3, FS_AddElement
<1>7. Cardinality(Swept(t) \cup {k}) \in Nat
  BY <1>3, FS_AddElement, FS_CardinalityType
<1> QED BY <1>1, <1>2, <1>3, <1>5, <1>6, <1>7, LimitMapAssumption

(* What a check of k at t does to a bucket b, and to all levels later on.  *)
CheckedAt(k, t, b) ==
    /\ t <= now
    /\ \A u \in Nat : u >= t => Refilled(b, u) >= LevelNow(k, u)
    /\ bucket'[k] = TryTake(b, t)
    /\ tracked' = Swept(t) \cup {k}
    /\ \A u \in Nat : LevelNext(k, u) = Refilled(TryTake(b, t), u)
    /\ \A j \in Key, u \in Nat : j # k => LevelNext(j, u) >= LevelNow(j, u)
    /\ allowance' = [allowance EXCEPT ![k] =
                        IF Refilled(b, t) >= Cost THEN Charged(@) ELSE @]
    /\ promised' = [promised EXCEPT ![k] =
                        IF Refilled(b, t) >= Cost THEN NoPromise
                        ELSE t + RetryAfter(TryTake(b, t)) * Second]

LEMMA CheckFacts ==
    ASSUME LimitInv, NEW r \in Caller, Check(r)
    PROVE  \E k \in Key, t \in Nat, b \in AnyBucket :
             k = pending[r].key /\ t = pending[r].at /\ CheckedAt(k, t, b)
<1>1. pending[r] \in [key: Key, at: 0..MaxTime]
  BY DEF LimitInv, LimitTypeOK, Check
<1>2. \E k \in Key, t \in 0..MaxTime : k = pending[r].key /\ t = pending[r].at
  BY <1>1
<1>3. PICK k \in Key, t \in 0..MaxTime : k = pending[r].key /\ t = pending[r].at
  BY <1>2
<1>4. t \in Nat /\ t <= now
  BY <1>3, LimitTimeAssumption DEF LimitInv
<1>5. PICK b \in AnyBucket :
         b = (IF k \in Swept(t) THEN bucket[k] ELSE [level |-> Cap, last |-> t])
  <2>1. bucket[k] \in AnyBucket
    BY BucketTypes DEF LimitInv
  <2>2. [level |-> Cap, last |-> t] \in AnyBucket
    BY <1>4, CapFacts DEF AnyBucket
  <2> QED BY <2>1, <2>2
<1>6. Swept(t) \subseteq tracked
  BY <1>4, SweptFits DEF LimitInv
<1>7. ASSUME NEW u \in Nat, u >= t PROVE Refilled(b, u) >= LevelNow(k, u)
  <2>1. LevelNow(k, u) \in 0..Cap
    BY BucketTypes DEF LimitInv
  <2>2. CASE k \in Swept(t)
    <3>1. LevelNow(k, u) = Refilled(b, u)
      BY <2>2, <1>5, <1>6 DEF LevelNow, LevelIn
    <3> QED BY <2>1, <3>1, CapFacts
  <2>3. CASE k \notin Swept(t)
    <3>1. Refilled(b, u) = Cap
      BY <2>3, <1>4, <1>5, <1>7, CapFacts DEF Refilled, Least, Since
    <3> QED BY <2>1, <3>1, CapFacts
  <2> QED BY <2>2, <2>3
<1>8. bucket'[k] = TryTake(b, t) /\ tracked' = Swept(t) \cup {k}
  BY <1>3, <1>5 DEF Check
<1>9. \A u \in Nat : LevelNext(k, u) = Refilled(TryTake(b, t), u)
  BY <1>8 DEF LevelNext, LevelIn
<1>10. ASSUME NEW j \in Key, NEW u \in Nat, j # k
       PROVE  LevelNext(j, u) >= LevelNow(j, u)
  <2>1. LevelNow(j, u) \in 0..Cap
    BY BucketTypes DEF LimitInv
  <2>2. CASE j \in Swept(t)
    <3>1. bucket'[j] = bucket[j] /\ j \in tracked'
      BY <2>2, <1>3, <1>8, <1>10 DEF Check
    <3>2. LevelNext(j, u) = LevelNow(j, u)
      BY <3>1, <2>2, <1>6 DEF LevelNow, LevelNext, LevelIn
    <3> QED BY <3>2, <2>1, CapFacts
  <2>3. CASE j \notin Swept(t)
    <3>1. LevelNext(j, u) = Cap
      BY <2>3, <1>8, <1>10 DEF LevelNext, LevelIn
    <3> QED BY <3>1, <2>1, CapFacts
  <2> QED BY <2>2, <2>3
<1>11. /\ allowance' = [allowance EXCEPT ![k] =
                           IF Refilled(b, t) >= Cost THEN Charged(@) ELSE @]
       /\ promised' = [promised EXCEPT ![k] =
                          IF Refilled(b, t) >= Cost THEN NoPromise
                          ELSE t + RetryAfter(TryTake(b, t)) * Second]
  BY <1>3, <1>5 DEF Check
<1>12. CheckedAt(k, t, b)
  BY <1>4, <1>7, <1>8, <1>9, <1>10, <1>11 DEF CheckedAt
<1> QED BY <1>3, <1>4, <1>5, <1>12

-----------------------------------------------------------------------------
LEMMA LimitInvInit == LimitInit => LimitInv
<1> SUFFICES ASSUME LimitInit PROVE LimitInv
  OBVIOUS
<1>1. NoBucket \in Bucket /\ NoBucket.last = 0
  BY CapFacts, LimitTimeAssumption DEF NoBucket, Bucket
<1>2. Cardinality({}) <= MaxBuckets
  BY FS_EmptySet, LimitMapAssumption
<1>3. NoRequest.at = 0
  BY DEF NoRequest
<1> QED BY <1>1, <1>2, <1>3, CapFacts, LimitTimeAssumption
        DEF LimitInit, LimitInv, LimitTypeOK, NoPromise

LEMMA LimitInvStep == LimitInv /\ [LimitNext]_limitVars => LimitInv'
<1> SUFFICES ASSUME LimitInv, [LimitNext]_limitVars PROVE LimitInv'
  OBVIOUS
<1> USE LimitTimeAssumption
<1>1. CASE Tick
  <2>1. now' \in 0..MaxTime /\ now' >= now
    BY <1>1 DEF Tick, LimitInv, LimitTypeOK
  <2>2. allowance' \in [Key -> 0..Cap]
    BY <1>1, CapFacts DEF Tick, LimitInv, LimitTypeOK, Least
  <2>3. UNCHANGED <<tracked, bucket, lastSweep, pending, promised>>
    BY <1>1 DEF Tick, mapVars
  <2>4. LimitTypeOK'
    BY <2>1, <2>2, <2>3 DEF LimitInv, LimitTypeOK
  <2>5. \A k \in Key : bucket[k].last <= now'
    BY <2>1, BucketTypes DEF LimitInv, AnyBucket
  <2>6. \A r \in Caller : pending[r].at <= now'
    <3>1. \A r \in Caller : pending[r].at \in Nat
      BY DEF LimitInv, LimitTypeOK, NoRequest
    <3> QED BY <2>1, <3>1, BucketTypes DEF LimitInv
  <2> QED BY <2>3, <2>4, <2>5, <2>6 DEF LimitInv
<1>2. CASE \E r \in Caller, k \in Key : Call(r, k)
  <2>1. PICK r \in Caller, k \in Key : Call(r, k)
    BY <1>2
  <2>2. pending' = [pending EXCEPT ![r] = [key |-> k, at |-> now]]
    BY <2>1 DEF Call
  <2>3. UNCHANGED <<now, tracked, bucket, lastSweep, allowance, promised>>
    BY <2>1 DEF Call, mapVars
  <2>4. pending' \in [Caller -> {NoRequest} \cup [key: Key, at: 0..MaxTime]]
    BY <2>2 DEF LimitInv, LimitTypeOK
  <2>5. \A s \in Caller : pending'[s].at <= now
    BY <2>2, BucketTypes DEF LimitInv, LimitTypeOK
  <2> QED BY <2>3, <2>4, <2>5 DEF LimitInv, LimitTypeOK
<1>3. CASE \E r \in Caller : Check(r)
  <2>1. PICK r \in Caller : Check(r)
    BY <1>3
  <2>2. PICK k \in Key, t \in Nat, b \in AnyBucket :
             k = pending[r].key /\ t = pending[r].at /\ CheckedAt(k, t, b)
    BY <2>1, CheckFacts
  <2>3. t \in 0..MaxTime /\ t <= now
    BY <2>2, BucketTypes DEF LimitInv, LimitTypeOK, CheckedAt
  <2>4. tracked' \subseteq Key /\ Cardinality(tracked') <= MaxBuckets
    <3>1. tracked' = Swept(t) \cup {k}
      BY <2>2 DEF CheckedAt
    <3> QED BY <3>1, SweptFits DEF LimitInv
  <2>5. TryTake(b, t) \in Bucket /\ TryTake(b, t).last = t
    <3>1. TryTake(b, t) \in [level: 0..Cap, last: {t}]
      BY TakeTypes
    <3> QED BY <2>3, <3>1 DEF Bucket
  <2>6. \A j \in Key : j # k => bucket'[j] \in {bucket[j], NoBucket}
    BY <2>1, <2>2 DEF Check
  <2>7. NoBucket \in Bucket /\ NoBucket.last = 0
    BY CapFacts DEF NoBucket, Bucket
  <2>8. bucket' = [j \in Key |-> bucket'[j]]
    BY <2>1 DEF Check
  <2>9. bucket' \in [Key -> Bucket] /\ \A j \in Key : bucket'[j].last <= now
    <3>1. \A j \in Key : bucket'[j] \in Bucket /\ bucket'[j].last <= now
      BY <2>2, <2>3, <2>5, <2>6, <2>7, BucketTypes DEF LimitInv, CheckedAt
    <3> QED BY <2>8, <3>1
  <2>10. /\ now' = now
         /\ lastSweep' \in {t, lastSweep}
         /\ pending' = [pending EXCEPT ![r] = NoRequest]
    BY <2>1, <2>2 DEF Check
  <2>11. allowance' \in [Key -> 0..Cap]
    <3>1. \A n \in 0..Cap : Charged(n) \in 0..Cap
      BY CapFacts DEF Charged
    <3> QED BY <2>2, <3>1 DEF LimitInv, LimitTypeOK, CheckedAt
  <2>12. promised' \in [Key -> Nat]
    <3>1. CASE Refilled(b, t) >= Cost
      BY <2>2, <3>1 DEF LimitInv, LimitTypeOK, NoPromise, CheckedAt
    <3>2. CASE ~ (Refilled(b, t) >= Cost)
      <4>1. TryTake(b, t).level \in Int /\ TryTake(b, t).level < Cost
        BY <3>2, TakeTypes, CapFacts
      <4>2. t + RetryAfter(TryTake(b, t)) * Second \in Nat
        BY <4>1, RetryFacts
      <4> QED BY <2>2, <3>2, <4>2 DEF LimitInv, LimitTypeOK, CheckedAt
    <3> QED BY <3>1, <3>2
  <2>13. pending' \in [Caller -> {NoRequest} \cup [key: Key, at: 0..MaxTime]]
         /\ \A s \in Caller : pending'[s].at <= now
    BY <2>10, BucketTypes DEF LimitInv, LimitTypeOK, NoRequest
  <2>14. lastSweep' \in 0..MaxTime /\ now' \in 0..MaxTime
    BY <2>3, <2>10 DEF LimitInv, LimitTypeOK
  <2>15. LimitTypeOK'
    BY <2>4, <2>9, <2>11, <2>12, <2>13, <2>14 DEF LimitTypeOK
  <2> QED BY <2>9, <2>10, <2>13, <2>15 DEF LimitInv
<1>4. CASE UNCHANGED limitVars
  BY <1>4 DEF limitVars, mapVars, LimitInv, LimitTypeOK
<1> QED BY <1>1, <1>2, <1>3, <1>4 DEF LimitNext

(* The map keeps its types and its bound.                                  *)
THEOREM LimitTypes == LimitSpec => []LimitTypeOK
<1>1. LimitInv => LimitTypeOK
  BY DEF LimitInv
<1> QED BY LimitInvInit, LimitInvStep, <1>1, PTL DEF LimitSpec

-----------------------------------------------------------------------------
LEMMA StricterStep ==
    ASSUME LimitInv, NeverStricter, [LimitNext]_limitVars
    PROVE  NeverStricter'
<1>0. now \in Nat /\ allowance \in [Key -> 0..Cap] /\ Cap \in Nat
  BY BucketTypes, CapFacts DEF LimitInv, LimitTypeOK
<1>1. CASE Tick
  <2> SUFFICES ASSUME NEW k \in Key
               PROVE  LevelAt(k, now)' >= allowance'[k]
    BY DEF NeverStricter
  <2>1. now' = now + 1 /\ allowance'[k] = Least(Cap, allowance[k] + 1)
        /\ UNCHANGED <<tracked, bucket>>
    BY <1>1 DEF Tick, mapVars
  <2>2. LevelAt(k, now) >= allowance[k] /\ allowance[k] \in 0..Cap
    BY <1>0 DEF NeverStricter
  <2>3. CASE k \in tracked
    <3>1. bucket[k].last <= now /\ bucket[k] \in AnyBucket
      BY BucketTypes DEF LimitInv
    <3>2. LevelAt(k, now) = Least(Cap, bucket[k].level + (now - bucket[k].last))
          /\ LevelAt(k, now)' = Least(Cap, bucket[k].level + (now + 1 - bucket[k].last))
      BY <1>0, <2>1, <2>3, <3>1 DEF LevelAt, Refilled, Least, Since, AnyBucket
    <3> QED BY <1>0, <2>1, <2>2, <3>1, <3>2 DEF Least, AnyBucket
  <2>4. CASE k \notin tracked
    <3>1. LevelAt(k, now)' = Cap
      BY <2>1, <2>4 DEF LevelAt
    <3> QED BY <1>0, <2>1, <2>2, <3>1 DEF Least
  <2> QED BY <2>3, <2>4
<1>2. CASE \E r \in Caller, k \in Key : Call(r, k)
  <2>1. UNCHANGED <<now, tracked, bucket, allowance>>
    BY <1>2 DEF Call, mapVars
  <2> QED BY <2>1 DEF NeverStricter, LevelAt
<1>3. CASE \E r \in Caller : Check(r)
  <2>1. PICK r \in Caller : Check(r)
    BY <1>3
  <2>2. PICK k \in Key, t \in Nat, b \in AnyBucket :
             k = pending[r].key /\ t = pending[r].at /\ CheckedAt(k, t, b)
    BY <2>1, CheckFacts
  <2>3. now' = now /\ t <= now
    BY <2>1, <2>2 DEF Check, CheckedAt
  <2>4. \A j \in Key : LevelNow(j, now) >= allowance[j] /\ LevelNow(j, now) \in 0..Cap
    BY <1>0, BucketTypes DEF NeverStricter, LimitInv, LevelAt, LevelNow, LevelIn
  <2>10. LimitTypeOK'
    BY LimitInvStep DEF LimitInv
  <2>5. ASSUME NEW j \in Key, j # k PROVE LevelNext(j, now) >= allowance'[j]
    <3>1. LevelNext(j, now) >= LevelNow(j, now)
      BY <1>0, <2>2, <2>5 DEF CheckedAt
    <3>2. allowance'[j] = allowance[j]
      BY <1>0, <2>2, <2>5 DEF CheckedAt
    <3>3. LevelNext(j, now) \in 0..Cap
      BY <1>0, <2>10, LevelTypesNext
    <3> QED BY <1>0, <2>4, <3>1, <3>2, <3>3
  <2>6. LevelNext(k, now) >= allowance'[k]
    <3>1. LevelNext(k, now) = Refilled(TryTake(b, t), now)
      BY <1>0, <2>2 DEF CheckedAt
    <3>2. Refilled(b, now) >= allowance[k] /\ Refilled(b, now) \in 0..Cap
      <4>1. Refilled(b, now) >= LevelNow(k, now)
        BY <1>0, <2>2, <2>3 DEF CheckedAt
      <4>2. Refilled(b, now) \in 0..Cap
        BY <1>0, RefilledFacts
      <4> QED BY <1>0, <2>4, <4>1, <4>2
    <3>3. Refilled(TryTake(b, t), now) \in 0..Cap
      BY <1>0, <2>3, TakeFacts, RefilledFacts
    <3>4. CASE Refilled(b, t) >= Cost
      <4>1. Refilled(TryTake(b, t), now) >= Refilled(b, now) - Cost
        BY <1>0, <2>3, <3>4, TakeFacts
      <4>2. allowance'[k] = Charged(allowance[k])
        BY <1>0, <2>2, <3>4 DEF CheckedAt
      <4> QED BY <1>0, <3>1, <3>2, <3>3, <4>1, <4>2, CapFacts DEF Charged
    <3>5. CASE ~ (Refilled(b, t) >= Cost)
      <4>1. Refilled(TryTake(b, t), now) >= Refilled(b, now)
        BY <1>0, <2>3, <3>5, TakeFacts
      <4>2. allowance'[k] = allowance[k]
        BY <1>0, <2>2, <3>5 DEF CheckedAt
      <4> QED BY <1>0, <3>1, <3>2, <3>3, <4>1, <4>2
    <3> QED BY <3>4, <3>5
  <2>7. \A j \in Key : LevelNext(j, now) >= allowance'[j]
    BY <2>5, <2>6
  <2> QED BY <2>3, <2>7 DEF NeverStricter, LevelAt, LevelNext, LevelIn
<1>4. CASE UNCHANGED limitVars
  BY <1>4 DEF limitVars, mapVars, NeverStricter, LevelAt
<1> QED BY <1>1, <1>2, <1>3, <1>4 DEF LimitNext

(* Sweeping, clearing and overtaking err only in the client's favour.      *)
THEOREM LimitNeverStricter == LimitSpec => []NeverStricter
<1>1. LimitInit => NeverStricter
  <2> SUFFICES ASSUME LimitInit PROVE NeverStricter
    OBVIOUS
  <2>1. \A k \in Key : LevelAt(k, now) = Cap /\ allowance[k] = Cap
    BY DEF LimitInit, LevelAt
  <2> QED BY <2>1, CapFacts DEF NeverStricter
<1>2. LimitInv /\ NeverStricter /\ [LimitNext]_limitVars => NeverStricter'
  BY StricterStep
<1> QED BY LimitInvInit, LimitInvStep, <1>1, <1>2, PTL DEF LimitSpec

LEMMA RetryStep ==
    ASSUME LimitInv, RetryHonoured, [LimitNext]_limitVars
    PROVE  RetryHonoured'
<1>0. /\ now \in Nat /\ Cap \in Nat /\ Cost \in Nat
      /\ promised \in [Key -> Nat] /\ promised' \in [Key -> Nat]
  BY BucketTypes, CapFacts, LimitInvStep DEF LimitInv, LimitTypeOK
<1>1. CASE Tick \/ (\E r \in Caller, k \in Key : Call(r, k)) \/ UNCHANGED limitVars
  <2>1. UNCHANGED <<tracked, bucket, promised>>
    BY <1>1 DEF Tick, Call, limitVars, mapVars
  <2> QED BY <2>1 DEF RetryHonoured, LevelAt
<1>2. CASE \E r \in Caller : Check(r)
  <2>1. PICK r \in Caller : Check(r)
    BY <1>2
  <2>2. PICK k \in Key, t \in Nat, b \in AnyBucket : CheckedAt(k, t, b)
    BY <2>1, CheckFacts
  <2>3. \A j \in Key, u \in Nat : LevelNext(j, u) \in 0..Cap
    BY LimitInvStep, LevelTypesNext DEF LimitInv
  <2>4. ASSUME NEW j \in Key, j # k, promised'[j] # NoPromise
        PROVE  LevelNext(j, promised'[j]) >= Cost
    <3>1. promised'[j] = promised[j] /\ promised[j] \in Nat
      BY <1>0, <2>2, <2>4 DEF CheckedAt
    <3>2. LevelNow(j, promised[j]) >= Cost /\ LevelNow(j, promised[j]) \in 0..Cap
      BY <2>4, <3>1, BucketTypes DEF RetryHonoured, LimitInv, LevelAt, LevelNow, LevelIn
    <3>3. LevelNext(j, promised[j]) >= LevelNow(j, promised[j])
      BY <2>2, <2>4, <3>1 DEF CheckedAt
    <3>4. LevelNext(j, promised[j]) \in 0..Cap
      BY <2>3, <3>1
    <3>5. LevelNext(j, promised[j]) >= Cost
      BY <1>0, <3>2, <3>3, <3>4
    <3> QED BY <3>1, <3>5
  <2>5. ASSUME promised'[k] # NoPromise
        PROVE  LevelNext(k, promised'[k]) >= Cost
    <3>1. ~ (Refilled(b, t) >= Cost)
          /\ promised'[k] = t + RetryAfter(TryTake(b, t)) * Second
      BY <1>0, <2>2, <2>5 DEF CheckedAt
    <3>2. PICK c \in AnyBucket : c = TryTake(b, t) /\ c.last = t /\ c.level < Cost
      BY <3>1, TakeTypes DEF AnyBucket
    <3>3. c.level \in 0..Cap
      BY DEF AnyBucket
    <3>4. PICK wait \in Nat : wait = RetryAfter(c) * Second /\ wait >= Cost - c.level
      BY <3>2, <3>3, RetryFacts, CapFacts
    <3>5. promised'[k] = t + wait /\ t + wait \in Nat
      BY <3>1, <3>2, <3>4
    <3>6. Refilled(c, t + wait) >= Cost
      BY <3>2, <3>3, <3>4, CapFacts DEF Refilled, Least, Since
    <3>7. LevelNext(k, t + wait) = Refilled(c, t + wait)
      BY <2>2, <3>2, <3>5 DEF CheckedAt
    <3> QED BY <3>5, <3>6, <3>7
  <2>6. \A j \in Key : promised'[j] # NoPromise => LevelNext(j, promised'[j]) >= Cost
    BY <2>4, <2>5
  <2> QED BY <2>6 DEF RetryHonoured, LevelAt, LevelNext, LevelIn, NoPromise
<1> QED BY <1>1, <1>2 DEF LimitNext

(* A client that comes back when it was told to finds a token.             *)
THEOREM LimitRetryHonoured == LimitSpec => []RetryHonoured
<1>1. LimitInit => RetryHonoured
  BY DEF LimitInit, RetryHonoured
<1>2. LimitInv /\ RetryHonoured /\ [LimitNext]_limitVars => RetryHonoured'
  BY RetryStep
<1> QED BY LimitInvInit, LimitInvStep, <1>1, <1>2, PTL DEF LimitSpec

-----------------------------------------------------------------------------
(* The status of a transaction.                                            *)

(* Queues: a request at the end, a request out of it.                      *)
Queue(q) == q \in Seq(Connection) /\ IsInjective(q)

LEMMA EmptyQueue == Queue(<<>>) /\ Range(<<>>) = {}
BY DEF Queue, IsInjective, Range

LEMMA Joined ==
    ASSUME NEW q, Queue(q), NEW r \in Connection, r \notin Range(q)
    PROVE  /\ Queue(Append(q, r))
           /\ Range(Append(q, r)) = Range(q) \cup {r}
           /\ q # <<>> => Head(Append(q, r)) = Head(q)
           /\ Append(q, r) # <<>>
<1>1. q \in Seq(Connection) /\ Len(q) \in Nat /\ DOMAIN q = 1..Len(q)
    BY DEF Queue
<1>2. /\ Append(q, r) \in Seq(Connection) /\ Len(Append(q, r)) = Len(q) + 1
      /\ DOMAIN Append(q, r) = 1..(Len(q) + 1)
      /\ \A i \in 1..(Len(q) + 1) : Append(q, r)[i] = IF i <= Len(q) THEN q[i] ELSE r
    BY <1>1
<1>3. IsInjective(Append(q, r))
    BY <1>1, <1>2 DEF Queue, IsInjective, Range
<1>4. Range(Append(q, r)) = Range(q) \cup {r}
    <2>1. \A i \in 1..Len(q) : Append(q, r)[i] = q[i]
        BY <1>1, <1>2
    <2>2. Append(q, r)[Len(q) + 1] = r /\ Len(q) + 1 \in 1..(Len(q) + 1)
        BY <1>1, <1>2
    <2>3. \A i \in 1..(Len(q) + 1) : i \in 1..Len(q) \/ i = Len(q) + 1
        BY <1>1
    <2>4. \A i \in 1..Len(q) : i \in 1..(Len(q) + 1)
        BY <1>1
    <2>5. ASSUME NEW s PROVE s \in Range(Append(q, r)) <=> s \in Range(q) \cup {r}
        BY <1>1, <1>2, <2>1, <2>2, <2>3, <2>4, Zenon DEF Range
    <2> QED BY <2>5
<1>5. q # <<>> => Head(Append(q, r)) = Head(q)
    BY <1>1, <1>2
<1>6. Append(q, r) # <<>>
    BY <1>1, <1>2
<1> QED BY <1>2, <1>3, <1>4, <1>5, <1>6 DEF Queue

LEMMA Parted ==
    ASSUME NEW q, Queue(q), NEW r \in Range(q)
    PROVE  /\ Queue(Without(q, r))
           /\ Range(Without(q, r)) = Range(q) \ {r}
           /\ Head(q) # r => Head(Without(q, r)) = Head(q)
<1>1. q \in Seq(Connection) /\ Len(q) \in Nat /\ DOMAIN q = 1..Len(q)
    BY DEF Queue
<1> DEFINE at == CHOOSE i \in DOMAIN q : q[i] = r
           n == Len(q) - 1
           w == [i \in 1..n |-> IF i < at THEN q[i] ELSE q[i + 1]]
<1>2. at \in 1..Len(q) /\ q[at] = r
    BY <1>1 DEF Range
<1>3. n \in Nat
    BY <1>1, <1>2
<1>4. Without(q, r) = w
    BY DEF Without
<1>5. \A i, j \in 1..Len(q) : q[i] = q[j] => i = j
    BY <1>1 DEF Queue, IsInjective
<1> HIDE DEF at
<1>6. w \in [1..n -> Connection]
    BY <1>1, <1>2, <1>3
<1>7. w \in Seq(Connection) /\ Len(w) = n /\ DOMAIN w = 1..n
    BY <1>3, <1>6
<1>8. IsInjective(w)
    BY <1>1, <1>2, <1>3, <1>5 DEF IsInjective
<1>9. Range(w) = Range(q) \ {r}
    <2>1. ASSUME NEW i \in 1..n PROVE w[i] \in Range(q) \ {r}
        BY <1>1, <1>2, <1>3, <1>5 DEF Range
    <2>2. ASSUME NEW i \in 1..Len(q), q[i] # r PROVE \E j \in 1..n : w[j] = q[i]
        <3>1. CASE i < at
            BY <1>1, <1>2, <1>3, <3>1
        <3>2. CASE i > at
            <4>1. i - 1 \in 1..n /\ ~ (i - 1 < at) /\ (i - 1) + 1 = i
                BY <1>1, <1>2, <1>3, <3>2
            <4>2. w[i - 1] = q[i]
                BY <4>1
            <4> QED BY <4>1, <4>2
        <3> QED BY <1>2, <2>2, <3>1, <3>2
    <2>3. ASSUME NEW s \in Range(w) PROVE s \in Range(q) \ {r}
        <3>1. PICK i \in 1..n : s = w[i]
            BY <1>7 DEF Range
        <3> QED BY <2>1, <3>1
    <2>4. ASSUME NEW s \in Range(q) \ {r} PROVE s \in Range(w)
        <3>1. PICK i \in 1..Len(q) : s = q[i]
            BY <1>1 DEF Range
        <3>2. PICK j \in 1..n : w[j] = q[i]
            BY <2>2, <2>4, <3>1
        <3> HIDE DEF w
        <3> QED BY <1>7, <3>1, <3>2 DEF Range
    <2> QED BY <2>3, <2>4
<1>10. Head(q) # r => Head(w) = Head(q)
    <2> SUFFICES ASSUME Head(q) # r PROVE Head(w) = Head(q)
        OBVIOUS
    <2>1. Head(q) = q[1] /\ at # 1
        BY <1>1, <1>2
    <2>2. 1 \in 1..n /\ 1 < at
        BY <1>2, <1>3, <2>1
    <2>3. w[1] = q[1]
        BY <2>2
    <2> QED BY <1>7, <2>1, <2>2, <2>3
<1> QED BY <1>4, <1>7, <1>8, <1>9, <1>10 DEF Queue

-----------------------------------------------------------------------------
Asking == {"fetch", "parse"}
Serving == Asking \cup {"second"}
Placed == Serving \cup {"first"}

StatusTypes ==
    /\ index \in [Tx -> Fact]
    /\ entries \in [Tx -> Object \cup {NoObject}]
    /\ obj \in [Object -> EntryType]
    /\ req \in [Connection -> {Idle} \cup [pc: Placed \cup {"bare"},
                                       tx: Tx, obj: Object \cup {NoObject}]]
    /\ permits \in Nat /\ detached \in Nat
    /\ facts \in [Connection -> SUBSET Fact]

(* Who waits where. *)
InTheirEntry ==
    \A r \in Connection : IF req[r].pc \in Placed
                         THEN req[r].obj = entries[req[r].tx] /\ req[r].obj \in Object
                         ELSE req[r].obj = NoObject
Queues ==
    \A o \in Object : /\ Queue(obj[o].queue)
                      /\ Range(obj[o].queue) = {r \in Connection : req[r].obj = o}
ServedFirst == \A r \in Connection : req[r].pc \in Serving => Holds(r)
OneEntryEach ==
    \A t, u \in Tx : entries[t] = entries[u] /\ entries[t] # NoObject => t = u
Flights == InTheirEntry /\ Queues /\ ServedFirst /\ OneEntryEach

Cached == {t \in Tx : entries[t] # NoObject}
CacheBounded == IsFiniteSet(Cached) /\ Cardinality(Cached) <= MaxEntries

(* What a request has heard, and what an entry of t remembers.             *)
Heard == \A r \in Connection : req[r] # Idle => index[req[r].tx] \in facts[r]
Remembers(e, t) ==
    /\ e.seen \/ (e.included # NoBlock /\ t \notin Wide) => e.inputs
    /\ e.seen => t \notin Wide
Remembered == \A t \in Tx : entries[t] # NoObject => Remembers(obj[entries[t]], t)

StatusInv ==
    StatusTypes /\ Flights /\ CacheBounded /\ WorkBounded /\ Heard /\ Remembered

LEMMA RequestForms ==
    ASSUME StatusTypes, NEW r \in Connection
    PROVE  /\ req[r] = Idle <=> req[r].pc = "idle"
           /\ req[r] # Idle => req[r].tx \in Tx /\ req[r].pc \in Placed \cup {"bare"}
           /\ req[r] \in {Idle} \cup [pc: Placed \cup {"bare"}, tx: Tx,
                                      obj: Object \cup {NoObject}]
<1>1. req[r] \in {Idle} \cup [pc: Placed \cup {"bare"}, tx: Tx, obj: Object \cup {NoObject}]
    BY DEF StatusTypes
<1>2. Idle.pc = "idle"
    BY DEF Idle
<1>3. "idle" \notin Placed \cup {"bare"}
    BY DEF Placed, Serving, Asking
<1> QED BY <1>1, <1>2, <1>3

-----------------------------------------------------------------------------
LEMMA CountMoved ==
    ASSUME NEW A, NEW B, IsFiniteSet(A), NEW r, \A q : q # r => (q \in A <=> q \in B),
           NEW left \in Nat, NEW after \in Nat, NEW total \in Int, left + Cardinality(A) = total,
           after = IF r \in A /\ r \notin B THEN left + 1
                   ELSE IF r \notin A /\ r \in B THEN left - 1 ELSE left
    PROVE  after + Cardinality(B) = total
<1>1. Cardinality(A) \in Nat
    BY FS_CardinalityType
<1>2. CASE r \in A /\ r \notin B
    <2>1. B = A \ {r}
        BY <1>2
    <2>2. Cardinality(B) = Cardinality(A) - 1
        BY <1>2, <2>1, FS_RemoveElement
    <2> QED BY <1>1, <1>2, <2>2
<1>3. CASE r \notin A /\ r \in B
    <2>1. B = A \cup {r}
        BY <1>3
    <2>2. Cardinality(B) = Cardinality(A) + 1
        BY <1>3, <2>1, FS_AddElement
    <2> QED BY <1>1, <1>3, <2>2
<1>4. CASE r \in A <=> r \in B
    <2>1. A = B
        BY <1>4
    <2> QED BY <1>1, <1>4, <2>1
<1> QED BY <1>2, <1>3, <1>4

(* A step of r takes a permit, gives one back, or leaves it with a parser, *)
(* as it must.                                                             *)
Swapped(r) ==
    permits' + detached' =
        IF req[r].pc \in Asking /\ req'[r].pc \notin Asking THEN (permits + detached) + 1
        ELSE IF req[r].pc \notin Asking /\ req'[r].pc \in Asking THEN (permits + detached) - 1
        ELSE permits + detached

LEMMA WorkMoved ==
    ASSUME WorkBounded, permits \in Nat, detached \in Nat, permits' \in Nat, detached' \in Nat,
           NEW r \in Connection,
           \A q \in Connection : q # r => req'[q].pc = req[q].pc,
           Swapped(r)
    PROVE  WorkBounded'
<1> DEFINE A == At(Asking)
           B == At(Asking)'
           left == permits + detached
<1>1. IsFiniteSet(A)
    BY ObjectAssumption, FS_Subset DEF ObjectAssumption, At
<1> DEFINE p == permits'
           d == detached'
<1>2. left \in Nat /\ p + d \in Nat /\ Permits \in Int
    <2>1. p \in Nat /\ d \in Nat
        OBVIOUS
    <2> HIDE DEF p, d
    <2> QED BY <2>1, BoundsAssumption
<1>3. left + Cardinality(A) = Permits
    <2>1. Cardinality(A) \in Nat
        BY <1>1, FS_CardinalityType
    <2>2. permits + Cardinality(A) + detached = Permits
        BY DEF WorkBounded, Asking
    <2> HIDE DEF A
    <2> QED BY <2>1, <2>2
<1>4. /\ \A q : q # r => (q \in A <=> q \in B)
      /\ r \in A <=> req[r].pc \in Asking
      /\ r \in B <=> req'[r].pc \in Asking
    BY DEF At
<1>5. p + d = IF r \in A /\ r \notin B THEN left + 1
              ELSE IF r \notin A /\ r \in B THEN left - 1 ELSE left
    <2>1. p + d = IF req[r].pc \in Asking /\ req'[r].pc \notin Asking THEN left + 1
                  ELSE IF req[r].pc \notin Asking /\ req'[r].pc \in Asking THEN left - 1
                  ELSE left
        BY Zenon DEF Swapped
    <2> HIDE DEF A, B, p, d, left
    <2> QED BY <1>4, <2>1
<1>6. p + d + Cardinality(B) = Permits
    <2> HIDE DEF A, B, left, p, d
    <2> QED BY <1>1, <1>2, <1>3, <1>4, <1>5, CountMoved
<1>7. Cardinality(B) \in Nat
    <2>1. IsFiniteSet(B)
        BY ObjectAssumption, FS_Subset DEF ObjectAssumption, At
    <2> QED BY <2>1, FS_CardinalityType
<1>8. p + Cardinality(B) + d = Permits
    <2>1. p \in Nat /\ d \in Nat
        OBVIOUS
    <2> HIDE DEF B, p, d
    <2> QED BY <1>6, <1>7, <2>1
<1> QED BY <1>8 DEF WorkBounded, Asking

(* The queues when nobody comes or goes, and when one request goes.        *)
LEMMA FlightsStay ==
    ASSUME StatusTypes, Flights, NEW r \in Connection, req[r].pc \in Placed, Holds(r),
           NEW pc \in Serving, req' = [req EXCEPT ![r].pc = pc], UNCHANGED entries,
           \A o \in Object : obj'[o].queue = obj[o].queue
    PROVE  Flights'
<1>1. \A q \in Connection : req'[q].obj = req[q].obj /\ req'[q].tx = req[q].tx
    BY RequestForms DEF StatusTypes
<1>2. req'[r].pc = pc /\ \A q \in Connection : q # r => req'[q].pc = req[q].pc
    BY RequestForms DEF StatusTypes, Placed, Idle
<1>3. InTheirEntry'
    BY <1>1, <1>2 DEF Flights, InTheirEntry, Placed
<1>4. Queues'
    BY <1>1 DEF Flights, Queues
<1>5. ServedFirst'
    BY <1>1, <1>2, <1>3 DEF Flights, ServedFirst, InTheirEntry, Holds, Placed
<1>6. OneEntryEach'
    BY DEF Flights, OneEntryEach
<1> QED BY <1>3, <1>4, <1>5, <1>6 DEF Flights

LEMMA FlightsLeave ==
    ASSUME StatusTypes, Flights, NEW r \in Connection, req[r] # Idle,
           req' = [req EXCEPT ![r] = Idle], UNCHANGED entries,
           \A o \in Object : obj'[o].queue = IF o = req[r].obj
                                               THEN Without(obj[o].queue, r) ELSE obj[o].queue
    PROVE  Flights'
<1>1. req'[r] = Idle /\ \A q \in Connection : q # r => req'[q] = req[q]
    BY DEF StatusTypes
<1>2. Idle.pc \notin Placed /\ Idle.obj = NoObject /\ NoObject \notin Object
    BY NamesAssumption DEF Idle, Placed, Serving, Asking
<1>3. InTheirEntry'
    BY <1>1, <1>2 DEF Flights, InTheirEntry
<1>4. ASSUME NEW o \in Object
      PROVE  /\ Queue(obj'[o].queue)
             /\ Range(obj'[o].queue) = {q \in Connection : req'[q].obj = o}
             /\ Head(obj[o].queue) # r => Head(obj'[o].queue) = Head(obj[o].queue)
    <2>1. CASE o = req[r].obj
        <3>1. Queue(obj[o].queue) /\ Range(obj[o].queue) = {q \in Connection : req[q].obj = o}
            BY DEF Flights, Queues
        <3>2. r \in Range(obj[o].queue)
            BY <2>1, <3>1
        <3>3. obj'[o].queue = Without(obj[o].queue, r)
            BY <2>1
        <3>4. Range(obj'[o].queue) = Range(obj[o].queue) \ {r}
            BY <3>1, <3>2, <3>3, Parted
        <3>5. {q \in Connection : req'[q].obj = o} = {q \in Connection : req[q].obj = o} \ {r}
            BY <1>1, <1>2
        <3>6. Range(obj'[o].queue) = {q \in Connection : req'[q].obj = o}
            BY <3>1, <3>4, <3>5
        <3> QED BY <3>1, <3>2, <3>3, <3>6, Parted
    <2>2. CASE o # req[r].obj
        <3>1. {q \in Connection : req'[q].obj = o} = {q \in Connection : req[q].obj = o}
            BY <1>1, <1>2, <2>2
        <3> QED BY <2>2, <3>1 DEF Flights, Queues
    <2> QED BY <2>1, <2>2
<1>5. Queues'
    BY <1>4 DEF Queues
<1>6. ServedFirst'
    <2> SUFFICES ASSUME NEW q \in Connection, req'[q].pc \in Serving PROVE Holds(q)'
        BY DEF ServedFirst
    <2>1. q # r /\ req'[q] = req[q] /\ req[q].obj \in Object /\ Holds(q)
        BY <1>1, <1>2 DEF Flights, ServedFirst, InTheirEntry, Placed
    <2> QED BY <1>4, <2>1 DEF Holds
<1>7. OneEntryEach'
    BY DEF Flights, OneEntryEach
<1> QED BY <1>3, <1>5, <1>6, <1>7 DEF Flights

-----------------------------------------------------------------------------
(* What an entry is told. *)
LEMMA RecordFacts ==
    ASSUME NEW e \in EntryType, NEW b \in Block, NEW t \in Tx, Remembers(e, t)
    PROVE  /\ RecordInclusion(e, b, t) \in EntryType
           /\ RecordInclusion(e, b, t).queue = e.queue
           /\ Remembers(RecordInclusion(e, b, t), t)
<1> DEFINE x == RecordInclusion(e, b, t)
<1>1. /\ x = [e EXCEPT !.included = b, !.inputs = t \notin Wide, !.wait = 0]
      /\ 0 \in 0..(IF CacheTime > Backoff THEN CacheTime ELSE Backoff)
    BY BoundsAssumption DEF RecordInclusion
<1>2. /\ x.queue = e.queue /\ x.age = e.age /\ x.wait = 0 /\ x.observation = e.observation
      /\ x.seen = e.seen /\ x.inputs = (t \notin Wide) /\ x.included = b
    BY <1>1 DEF EntryType
<1>3. x \in EntryType
    BY <1>1 DEF EntryType
<1>4. Remembers(x, t)
    BY <1>2 DEF Remembers
<1> QED BY <1>2, <1>3, <1>4

LEMMA ObservedFacts ==
    ASSUME NEW e \in EntryType, NEW t \in Tx, Remembers(e, t),
           NEW judged \in {"present", "absent", "unavailable"},
           judged = "present" => t \notin Wide
    PROVE  /\ Observed(e, judged) \in EntryType
           /\ Observed(e, judged).queue = e.queue
           /\ Remembers(Observed(e, judged), t)
<1> DEFINE x == Observed(e, judged)
           limit == IF CacheTime > Backoff THEN CacheTime ELSE Backoff
<1>1. Backoff \in 0..limit /\ CacheTime \in 0..limit
    BY BoundsAssumption
<1>2. /\ x = [e EXCEPT !.observation = judged,
                       !.wait = IF judged = "unavailable" THEN Backoff ELSE CacheTime,
                       !.seen = e.seen \/ judged = "present",
                       !.inputs = e.inputs \/ judged = "present"]
      /\ e \in [queue: Seq(Connection), age: 0..Retention, wait: 0..limit,
                observation: {"not_checked", "present", "absent", "unavailable"},
                seen: BOOLEAN, inputs: BOOLEAN, included: Block \cup {NoBlock}]
    BY DEF Observed, EntryType
<1> HIDE DEF limit, x
<1>3. /\ x.queue = e.queue /\ x.included = e.included
      /\ x.seen = (e.seen \/ judged = "present")
      /\ x.inputs = (e.inputs \/ judged = "present")
    BY <1>2
<1>4. x \in [queue: Seq(Connection), age: 0..Retention, wait: 0..limit,
             observation: {"not_checked", "present", "absent", "unavailable"},
             seen: BOOLEAN, inputs: BOOLEAN, included: Block \cup {NoBlock}]
    BY <1>1, <1>2
<1>5. Remembers(x, t)
    BY <1>3 DEF Remembers
<1> QED BY <1>3, <1>4, <1>5 DEF EntryType, x, limit

LEMMA LeaveFacts ==
    ASSUME NEW e \in EntryType, Queue(e.queue), NEW r \in Range(e.queue)
    PROVE  /\ Leave(e, r) \in EntryType
           /\ Leave(e, r).queue = Without(e.queue, r)
           /\ \A t : Remembers(e, t) <=> Remembers(Leave(e, r), t)
<1>1. Without(e.queue, r) \in Seq(Connection)
    BY Parted DEF Queue
<1> DEFINE w == Without(e.queue, r)
<1>2. Leave(e, r) = [e EXCEPT !.queue = w]
    BY DEF Leave
<1> HIDE DEF w
<1>3. /\ Leave(e, r).queue = w
      /\ Leave(e, r).wait = e.wait /\ Leave(e, r).seen = e.seen
      /\ Leave(e, r).inputs = e.inputs /\ Leave(e, r).included = e.included
    BY <1>2 DEF EntryType
<1>4. Leave(e, r) \in EntryType
    BY <1>1, <1>2 DEF EntryType, w
<1> QED BY <1>3, <1>4 DEF Remembers, w

LEMMA NewEntryFacts ==
    /\ NewEntry \in EntryType /\ NewEntry.queue = <<>>
    /\ \A t : Remembers(NewEntry, t)
    /\ ~ NewEntry.seen /\ NewEntry.included = NoBlock
<1>1. 0 \in 0..Retention /\ 0 \in 0..(IF CacheTime > Backoff THEN CacheTime ELSE Backoff)
    BY BoundsAssumption
<1>2. <<>> \in Seq(Connection)
    OBVIOUS
<1>3. NewEntry \in EntryType
    BY <1>1, <1>2 DEF NewEntry, EntryType
<1> QED BY <1>3 DEF NewEntry, Remembers

-----------------------------------------------------------------------------
(* A request that goes on with its entry; only its own changes, and not    *)
(* its queue.                                                              *)
LEMMA StayKeeps ==
    ASSUME StatusInv, NEW r \in Connection, req[r].pc \in Placed, Holds(r),
           NEW pc \in Serving, req' = [req EXCEPT ![r].pc = pc],
           NEW e \in EntryType, obj' = [obj EXCEPT ![req[r].obj] = e],
           e.queue = obj[req[r].obj].queue, Remembers(e, req[r].tx),
           UNCHANGED <<index, entries>>,
           facts' = facts \/ facts' = [facts EXCEPT ![r] = {index[req[r].tx]}],
           permits' \in Nat, detached' \in Nat, Swapped(r)
    PROVE  StatusInv'
<1> DEFINE o == req[r].obj
           t == req[r].tx
<1>1. /\ StatusTypes /\ Flights /\ Heard /\ Remembered /\ WorkBounded
      /\ o \in Object /\ o = entries[t] /\ t \in Tx /\ index[t] \in Fact
    <2>1. StatusTypes /\ Flights /\ Heard /\ Remembered /\ WorkBounded
        BY DEF StatusInv
    <2>2. o \in Object /\ o = entries[t]
        BY <2>1 DEF Flights, InTheirEntry
    <2>3. t \in Tx
        BY <2>1, RequestForms DEF Placed, Serving, Asking
    <2> QED BY <2>1, <2>2, <2>3 DEF StatusTypes
<1>2. /\ \A q \in Connection : req'[q].obj = req[q].obj /\ req'[q].tx = req[q].tx
      /\ \A q \in Connection : q # r => req'[q] = req[q]
      /\ req'[r].pc = pc
    BY <1>1, RequestForms DEF StatusTypes, Placed, Idle
<1>3. req'[r] \in [pc: Placed \cup {"bare"}, tx: Tx, obj: Object \cup {NoObject}]
    <2>1. req[r] \in [pc: Placed \cup {"bare"}, tx: Tx, obj: Object \cup {NoObject}]
        BY <1>1, RequestForms DEF Placed, Serving, Asking, Idle
    <2> QED BY <1>1, <2>1 DEF StatusTypes, Placed
<1>4. /\ obj' \in [Object -> EntryType] /\ obj'[o] = e
      /\ \A p \in Object : p # o => obj'[p] = obj[p]
    BY <1>1 DEF StatusTypes
<1>5. StatusTypes'
    <2>1. req' \in [Connection -> {Idle} \cup [pc: Placed \cup {"bare"}, tx: Tx,
                                           obj: Object \cup {NoObject}]]
        BY <1>1, <1>3 DEF StatusTypes
    <2>2. facts' \in [Connection -> SUBSET Fact]
        BY <1>1 DEF StatusTypes
    <2> QED BY <1>1, <1>4, <2>1, <2>2 DEF StatusTypes
<1>6. Flights'
    <2>1. \A p \in Object : obj'[p].queue = obj[p].queue
        BY <1>4
    <2> QED BY <1>1, <2>1, FlightsStay
<1>7. CacheBounded'
    BY DEF StatusInv, CacheBounded, Cached
<1>8. WorkBounded'
    BY <1>1, <1>2, WorkMoved DEF StatusTypes
<1>9. Heard'
    <2> SUFFICES ASSUME NEW q \in Connection, req'[q] # Idle
                 PROVE  index'[req'[q].tx] \in facts'[q]
        BY DEF Heard
    <2>1. CASE q = r
        <3>1. req[r] # Idle /\ index[t] \in facts[r]
            BY <1>1 DEF Heard, Placed, Serving, Asking, Idle
        <3> QED BY <1>1, <1>2, <2>1, <3>1 DEF StatusTypes
    <2>2. CASE q # r
        BY <1>1, <1>2, <2>2 DEF StatusTypes, Heard
    <2> QED BY <2>1, <2>2
<1>10. Remembered'
    <2> SUFFICES ASSUME NEW u \in Tx, entries[u] # NoObject PROVE Remembers(obj'[entries[u]], u)
        BY DEF Remembered
    <2>1. CASE entries[u] = o
        BY <1>1, <1>4, <2>1 DEF Flights, OneEntryEach
    <2>2. CASE entries[u] # o
        BY <1>1, <1>4, <2>2 DEF StatusTypes, Remembered
    <2> QED BY <2>1, <2>2
<1> QED BY <1>5, <1>6, <1>7, <1>8, <1>9, <1>10 DEF StatusInv

(* A request that ends; only the one that holds the lock has anything to   *)
(* say to the entry.                                                       *)
LEMMA EndKeeps ==
    ASSUME StatusInv, NEW r \in Connection, req[r] # Idle, req' = [req EXCEPT ![r] = Idle],
           facts' = [facts EXCEPT ![r] = {}], UNCHANGED <<index, entries>>,
           IF req[r].obj \in Object
             THEN \E e \in EntryType :
                     /\ e.queue = obj[req[r].obj].queue /\ Remembers(e, req[r].tx)
                     /\ obj' = [obj EXCEPT ![req[r].obj] = Leave(e, r)]
             ELSE obj' = obj,
           permits' \in Nat, detached' \in Nat, Swapped(r)
    PROVE  StatusInv'
<1> DEFINE o == req[r].obj
           t == req[r].tx
<1>1. /\ StatusTypes /\ Flights /\ Heard /\ Remembered /\ WorkBounded
      /\ t \in Tx /\ (o \in Object => o = entries[t]) /\ req'[r] = Idle
      /\ \A q \in Connection : q # r => req'[q] = req[q]
    BY RequestForms, NamesAssumption DEF StatusInv, StatusTypes, Flights, InTheirEntry
<1>2. /\ \A p \in Object : /\ obj'[p] \in EntryType
                           /\ p # o => obj'[p] = obj[p]
                           /\ p = o => obj'[p].queue = Without(obj[p].queue, r)
                           /\ p = o => Remembers(obj'[p], t)
      /\ obj' \in [Object -> EntryType]
    <2>1. CASE o \in Object
        <3>1. PICK e \in EntryType : /\ e.queue = obj[o].queue /\ Remembers(e, t)
                                     /\ obj' = [obj EXCEPT ![o] = Leave(e, r)]
            BY <2>1
        <3>2. Queue(e.queue) /\ r \in Range(e.queue)
            BY <1>1, <2>1, <3>1 DEF Flights, Queues
        <3>3. /\ Leave(e, r) \in EntryType /\ Leave(e, r).queue = Without(obj[o].queue, r)
              /\ Remembers(Leave(e, r), t)
            BY <3>1, <3>2, LeaveFacts
        <3> QED BY <1>1, <2>1, <3>1, <3>3 DEF StatusTypes
    <2>2. CASE o \notin Object
        BY <1>1, <2>2 DEF StatusTypes
    <2> QED BY <2>1, <2>2
<1>3. StatusTypes'
    <2>1. req' \in [Connection -> {Idle} \cup [pc: Placed \cup {"bare"}, tx: Tx,
                                           obj: Object \cup {NoObject}]]
        BY <1>1 DEF StatusTypes
    <2>2. facts' \in [Connection -> SUBSET Fact]
        BY <1>1 DEF StatusTypes
    <2> QED BY <1>1, <1>2, <2>1, <2>2 DEF StatusTypes
<1>4. Flights'
    BY <1>1, <1>2, FlightsLeave
<1>5. CacheBounded'
    BY DEF StatusInv, CacheBounded, Cached
<1>6. WorkBounded'
    BY <1>1, WorkMoved DEF StatusTypes
<1>7. Heard'
    BY <1>1 DEF Heard, StatusTypes
<1>8. Remembered'
    <2> SUFFICES ASSUME NEW u \in Tx, entries[u] # NoObject PROVE Remembers(obj'[entries[u]], u)
        BY DEF Remembered
    <2>1. entries[u] \in Object
        BY <1>1 DEF StatusTypes
    <2>2. CASE entries[u] = o
        BY <1>1, <1>2, <2>1, <2>2 DEF Flights, OneEntryEach
    <2>3. CASE entries[u] # o
        BY <1>1, <1>2, <2>1, <2>3 DEF Remembered
    <2> QED BY <2>2, <2>3
<1> QED BY <1>3, <1>4, <1>5, <1>6, <1>7, <1>8 DEF StatusInv

-----------------------------------------------------------------------------
(* The actions of a request. *)
LEMMA PlacedFacts ==
    ASSUME StatusInv, NEW r \in Connection, req[r].pc \in Placed
    PROVE  /\ req[r].obj \in Object /\ req[r].obj = entries[req[r].tx] /\ req[r].tx \in Tx
           /\ obj[req[r].obj] \in EntryType /\ Remembers(obj[req[r].obj], req[r].tx)
           /\ index[req[r].tx] \in Fact /\ req[r] # Idle
           /\ req[r].pc \in Serving => Holds(r)
<1>1. req[r].obj \in Object /\ req[r].obj = entries[req[r].tx]
    BY DEF StatusInv, Flights, InTheirEntry
<1>2. req[r].tx \in Tx /\ req[r] # Idle
    BY RequestForms DEF StatusInv, Placed, Serving, Asking
<1> QED BY <1>1, <1>2, NamesAssumption
        DEF StatusInv, StatusTypes, Remembered, Flights, ServedFirst

LEMMA FirstReadKeeps ==
    ASSUME StatusInv, NEW r \in Connection, FirstRead(r) PROVE StatusInv'
<1> DEFINE e == obj[req[r].obj]
           t == req[r].tx
           f == index[t]
<1>1. /\ req[r].pc = "first" /\ Holds(r)
      /\ req[r].obj \in Object /\ t \in Tx /\ e \in EntryType /\ Remembers(e, t) /\ req[r] # Idle
      /\ UNCHANGED <<index, entries, detached>>
      /\ permits \in Nat /\ detached \in Nat
      /\ obj \in [Object -> EntryType] /\ req[r].pc \in Placed
    BY PlacedFacts DEF FirstRead, Placed, StatusInv, StatusTypes
<1>2. CASE f \in Block
    <2>1. /\ req' = [req EXCEPT ![r] = Idle] /\ facts' = [facts EXCEPT ![r] = {}]
          /\ obj' = [obj EXCEPT ![req[r].obj] = Leave(RecordInclusion(e, f, t), r)]
          /\ permits' = permits
        BY <1>2 DEF FirstRead, Ends, Becomes
    <2>2. /\ RecordInclusion(e, f, t) \in EntryType
          /\ RecordInclusion(e, f, t).queue = e.queue
          /\ Remembers(RecordInclusion(e, f, t), t)
        BY <1>1, <1>2, RecordFacts
    <2>3. Swapped(r)
        BY <1>1, <2>1 DEF Swapped, Asking, Idle, StatusInv, StatusTypes
    <2> QED BY <1>1, <2>1, <2>2, <2>3, EndKeeps
<1>3. CASE f \notin Block
    <2>1. PICK pc \in {"second", "fetch"}, x \in {e, Observed(e, "unavailable")} :
             /\ req' = [req EXCEPT ![r].pc = pc] /\ facts' = facts
             /\ obj' = [obj EXCEPT ![req[r].obj] = x]
             /\ pc = "second" => permits' = permits /\ (x = e => e.wait > 0)
             /\ pc = "fetch"  => permits > 0 /\ permits' = permits - 1 /\ x = e
        <3>1. obj = [obj EXCEPT ![req[r].obj] = e]
            BY <1>1
        <3>2. facts' = facts
            BY <1>3 DEF FirstRead
        <3>3. CASE e.wait > 0 /\ Moves(r, "second") /\ UNCHANGED <<obj, permits>>
            BY <3>1, <3>2, <3>3 DEF Moves
        <3>4. CASE /\ Becomes(r, Observed(e, "unavailable")) /\ Moves(r, "second")
                   /\ UNCHANGED permits /\ e.wait = 0
            <4>1. Observed(e, "unavailable").wait = Backoff
                BY <1>1 DEF Observed, EntryType
            <4> QED BY <3>2, <3>4, <4>1, BoundsAssumption DEF Moves, Becomes
        <3>5. CASE permits > 0 /\ permits' = permits - 1 /\ Moves(r, "fetch") /\ UNCHANGED obj
            BY <3>1, <3>2, <3>5 DEF Moves
        <3> QED BY <1>3, <3>3, <3>4, <3>5 DEF FirstRead
    <2>2. x \in EntryType /\ x.queue = e.queue /\ Remembers(x, t)
        BY <1>1, ObservedFacts
    <2>4. permits' \in Nat /\ detached' \in Nat /\ pc \in Serving
        BY <1>1, <2>1 DEF Serving, Asking
    <2>5. req'[r].pc = pc
        BY <1>1, <2>1, RequestForms DEF StatusInv, StatusTypes, Idle
    <2>6. Swapped(r)
        BY <1>1, <2>1, <2>5 DEF Swapped, Asking
    <2> QED BY <1>1, <2>1, <2>2, <2>4, <2>6, StayKeeps
<1> QED BY <1>2, <1>3

(* Both ways to hear of the node. *)
LEMMA HearKeeps ==
    ASSUME StatusInv, NEW r \in Connection, NodeReplies(r) \/ ParseEnds(r) PROVE StatusInv'
<1> DEFINE e == obj[req[r].obj]
           t == req[r].tx
<1>1. req[r].pc \in Asking /\ req[r].pc \in Placed
    BY DEF NodeReplies, ParseEnds, Placed, Serving, Asking
<1>2. /\ req[r].obj \in Object /\ t \in Tx /\ e \in EntryType /\ Remembers(e, t)
      /\ Holds(r) /\ permits \in Nat /\ detached \in Nat /\ obj \in [Object -> EntryType]
    BY <1>1, PlacedFacts DEF StatusInv, StatusTypes, Serving
<1>3. CASE NodeReplies(r) /\ Moves(r, "parse") /\ UNCHANGED <<obj, permits>>
    <2>1. /\ req' = [req EXCEPT ![r].pc = "parse"] /\ obj' = [obj EXCEPT ![req[r].obj] = e]
          /\ UNCHANGED <<index, entries, detached, permits>>
          /\ facts' = [facts EXCEPT ![r] = {index[t]}]
        BY <1>2, <1>3 DEF NodeReplies, Moves
    <2>2. req'[r].pc = "parse"
        BY <1>1, <2>1, RequestForms DEF StatusInv, StatusTypes, Idle, Asking
    <2>3. Swapped(r) /\ "parse" \in Serving
        BY <1>1, <2>1, <2>2 DEF Swapped, Asking, Serving
    <2> QED BY <1>1, <1>2, <2>1, <2>3, StayKeeps
<1>4. CASE ~ (NodeReplies(r) /\ Moves(r, "parse") /\ UNCHANGED <<obj, permits>>)
    <2>1. PICK judged \in {"present", "absent", "unavailable"} :
             /\ judged = "present" => t \notin Wide
             /\ obj' = [obj EXCEPT ![req[r].obj] = Observed(e, judged)]
        BY <1>4 DEF NodeReplies, ParseEnds, Becomes
    <2>2. /\ req' = [req EXCEPT ![r].pc = "second"] /\ permits' = permits + 1
          /\ UNCHANGED <<index, entries, detached>>
          /\ facts' = facts \/ facts' = [facts EXCEPT ![r] = {index[t]}]
        BY <1>4 DEF NodeReplies, ParseEnds, Moves
    <2>3. /\ Observed(e, judged) \in EntryType /\ Observed(e, judged).queue = e.queue
          /\ Remembers(Observed(e, judged), t)
        BY <1>2, <2>1, ObservedFacts
    <2>4. req'[r].pc = "second"
        BY <1>1, <2>2, RequestForms DEF StatusInv, StatusTypes, Idle, Asking
    <2>5. Swapped(r) /\ "second" \in Serving /\ permits' \in Nat /\ detached' \in Nat
        BY <1>1, <1>2, <2>2, <2>4 DEF Swapped, Asking, Serving
    <2> QED BY <1>1, <1>2, <2>1, <2>2, <2>3, <2>5, StayKeeps
<1> QED BY <1>3, <1>4

LEMMA SecondReadKeeps ==
    ASSUME StatusInv, NEW r \in Connection, SecondRead(r) PROVE StatusInv'
<1> DEFINE e == obj[req[r].obj]
           t == req[r].tx
           f == index[t]
           told == IF f \in Block THEN RecordInclusion(e, f, t) ELSE e
<1>1. req[r].pc = "second" /\ req[r].pc \in Placed /\ req[r].pc \in Serving
    BY DEF SecondRead, Placed, Serving, Asking
<1>2. /\ req[r].obj \in Object /\ t \in Tx /\ e \in EntryType /\ Remembers(e, t)
      /\ Holds(r) /\ permits \in Nat /\ detached \in Nat /\ req[r] # Idle
    BY <1>1, PlacedFacts DEF StatusInv, StatusTypes
<1>3. /\ req' = [req EXCEPT ![r] = Idle] /\ facts' = [facts EXCEPT ![r] = {}]
      /\ obj' = [obj EXCEPT ![req[r].obj] = Leave(told, r)]
      /\ UNCHANGED <<index, entries, permits, detached>>
    BY DEF SecondRead, Ends, Becomes, FoundAtLast
<1>4. told \in EntryType /\ told.queue = e.queue /\ Remembers(told, t)
    BY <1>2, RecordFacts
<1>5. Swapped(r)
    BY <1>1, <1>3 DEF Swapped, Asking, Idle, StatusInv, StatusTypes
<1> QED BY <1>2, <1>3, <1>4, <1>5, EndKeeps

(* A failed read, a dropped request, and one without an entry.             *)
LEMMA GoneKeeps ==
    ASSUME StatusInv, NEW r \in Connection, BareRead(r) \/ ReadFails(r) \/ Cancel(r)
    PROVE  StatusInv'
<1>1. /\ StatusTypes /\ Flights /\ permits \in Nat /\ detached \in Nat
      /\ req[r].pc \in Placed \cup {"bare"} /\ req[r] # Idle
    BY RequestForms DEF StatusInv, StatusTypes, BareRead, ReadFails, Cancel, Placed, Serving,
        Asking, Idle
<1>2. /\ req' = [req EXCEPT ![r] = Idle] /\ facts' = [facts EXCEPT ![r] = {}]
      /\ UNCHANGED <<index, entries>>
    BY DEF BareRead, ReadFails, Cancel, Ends, cacheVars
<1>3. permits' \in Nat /\ detached' \in Nat /\ Swapped(r)
    <2>1. req'[r].pc \notin Asking
        BY <1>2 DEF StatusInv, StatusTypes, Idle, Asking
    <2>2. CASE BareRead(r) \/ ReadFails(r)
        <3>1. req[r].pc \notin Asking /\ permits' = permits /\ detached' = detached
            BY <2>2 DEF BareRead, ReadFails, Asking, cacheVars
        <3> QED BY <1>1, <2>1, <3>1 DEF Swapped
    <2>3. CASE Cancel(r)
        <3>1. /\ req[r].pc = "fetch" => permits' = permits + 1 /\ detached' = detached
              /\ req[r].pc = "parse" => permits' = permits /\ detached' = detached + 1
              /\ req[r].pc \notin Asking => permits' = permits /\ detached' = detached
            BY <1>1, <2>3 DEF Cancel, PermitsAfterCancel, Asking
        <3> QED BY <1>1, <2>1, <3>1 DEF Swapped, Asking
    <2> QED BY <2>2, <2>3
<1>4. CASE req[r].obj \in Object
    <2>1. req[r].pc \in Placed
        BY <1>1, <1>4, NamesAssumption DEF Flights, InTheirEntry
    <2>2. obj[req[r].obj] \in EntryType /\ Remembers(obj[req[r].obj], req[r].tx)
        BY <2>1, PlacedFacts
    <2>3. obj' = Left(r)
        BY <2>1 DEF BareRead, ReadFails, Cancel, Placed, Serving, Asking
    <2>4. obj' = [obj EXCEPT ![req[r].obj] = Leave(obj[req[r].obj], r)]
        BY <1>1, <1>4, <2>3 DEF Left, StatusTypes
    <2> QED BY <1>1, <1>2, <1>3, <1>4, <2>2, <2>4, EndKeeps
<1>5. CASE req[r].obj \notin Object
    <2>1. obj' = obj \/ obj' = Left(r)
        BY DEF BareRead, ReadFails, Cancel, cacheVars
    <2>2. obj' = obj
        BY <1>1, <1>5, <2>1 DEF Left, StatusTypes
    <2> QED BY <1>1, <1>2, <1>3, <1>5, <2>2, EndKeeps
<1> QED BY <1>4, <1>5

-----------------------------------------------------------------------------
(* The world outside. *)
LEMMA DetachedKeeps ==
    ASSUME StatusInv, DetachedEnds PROVE StatusInv'
<1>1. /\ detached' = detached - 1 /\ permits' = permits + 1 /\ detached > 0
      /\ UNCHANGED <<index, entries, obj, req, facts>>
    BY DEF DetachedEnds
<1>2. permits \in Nat /\ detached \in Nat
    BY DEF StatusInv, StatusTypes
<1>3. WorkBounded'
    <2> DEFINE c == Cardinality(At({"fetch", "parse"}))
    <2>1. c \in Nat
        BY ObjectAssumption, FS_Subset, FS_CardinalityType DEF At
    <2>2. permits + c + detached = Permits
        BY DEF StatusInv, WorkBounded
    <2>3. At({"fetch", "parse"})' = At({"fetch", "parse"})
        BY <1>1 DEF At
    <2>4. (permits + 1) + c + (detached - 1) = Permits
        <3> HIDE DEF c
        <3> QED BY <1>2, <2>1, <2>2
    <2> QED BY <1>1, <2>3, <2>4 DEF WorkBounded
<1>4. StatusTypes'
    BY <1>1, <1>2 DEF StatusInv, StatusTypes
<1>5. Flights' /\ CacheBounded' /\ Heard' /\ Remembered'
    BY <1>1 DEF StatusInv, Flights, InTheirEntry, Queues, ServedFirst, Holds, OneEntryEach,
        CacheBounded, Cached, Heard, Remembered
<1> QED BY <1>3, <1>4, <1>5 DEF StatusInv

LEMMA IndexKeeps ==
    ASSUME StatusInv, NEW t \in Tx, NEW f \in Fact, IndexMoves(t, f) PROVE StatusInv'
<1>1. /\ index' = [index EXCEPT ![t] = f]
      /\ facts' = [r \in Connection |-> IF req[r].tx = t THEN facts[r] \cup {f} ELSE facts[r]]
      /\ UNCHANGED <<entries, obj, permits, detached, req>>
    BY DEF IndexMoves, cacheVars
<1>2. StatusTypes'
    BY <1>1 DEF StatusInv, StatusTypes
<1>3. Heard'
    BY <1>1 DEF StatusInv, StatusTypes, Heard
<1>4. WorkBounded'
    BY <1>1 DEF StatusInv, WorkBounded, At
<1>5. Flights' /\ CacheBounded' /\ Remembered'
    BY <1>1 DEF StatusInv, Flights, InTheirEntry, Queues, ServedFirst, Holds, OneEntryEach,
        CacheBounded, Cached, Remembered
<1> QED BY <1>2, <1>3, <1>4, <1>5 DEF StatusInv

LEMMA TickKeeps ==
    ASSUME StatusInv, TimePasses PROVE StatusInv'
<1>1. UNCHANGED <<index, entries, req, permits, detached, facts>>
    BY DEF TimePasses
<1>2. ASSUME NEW o \in Object
      PROVE  /\ obj'[o] \in EntryType /\ obj'[o].queue = obj[o].queue
             /\ \A t : Remembers(obj[o], t) => Remembers(obj'[o], t)
    <2> DEFINE e == obj[o]
               limit == IF CacheTime > Backoff THEN CacheTime ELSE Backoff
    <2>1. /\ e \in [queue: Seq(Connection), age: 0..Retention, wait: 0..limit,
                    observation: {"not_checked", "present", "absent", "unavailable"},
                    seen: BOOLEAN, inputs: BOOLEAN, included: Block \cup {NoBlock}]
          /\ limit \in Nat /\ Retention \in Nat
        BY BoundsAssumption DEF StatusInv, StatusTypes, EntryType
    <2>2. \/ obj'[o] = e
          \/ obj'[o] = [e EXCEPT !.age = IF e.age < Retention THEN e.age + 1 ELSE e.age,
                                 !.wait = IF e.wait > 0 THEN e.wait - 1 ELSE 0]
        BY DEF TimePasses
    <2> HIDE DEF e, limit
    <2>3. /\ (IF e.age < Retention THEN e.age + 1 ELSE e.age) \in 0..Retention
          /\ (IF e.wait > 0 THEN e.wait - 1 ELSE 0) \in 0..limit
        BY <2>1
    <2>4. /\ obj'[o].queue = e.queue
          /\ obj'[o].seen = e.seen /\ obj'[o].inputs = e.inputs
          /\ obj'[o].included = e.included
        BY <2>1, <2>2, <2>3
    <2>5. obj'[o] \in [queue: Seq(Connection), age: 0..Retention, wait: 0..limit,
                       observation: {"not_checked", "present", "absent", "unavailable"},
                       seen: BOOLEAN, inputs: BOOLEAN, included: Block \cup {NoBlock}]
        BY <2>1, <2>2, <2>3
    <2> QED BY <2>4, <2>5 DEF EntryType, Remembers, e, limit
<1>3. StatusTypes'
    <2>1. obj' \in [Object -> EntryType]
        BY <1>2 DEF TimePasses
    <2> QED BY <1>1, <2>1 DEF StatusInv, StatusTypes
<1>4. Flights'
    BY <1>1, <1>2 DEF StatusInv, Flights, InTheirEntry, Queues, ServedFirst, Holds, OneEntryEach,
        Placed
<1>5. Remembered'
    <2>1. \A t \in Tx : entries[t] # NoObject => entries[t] \in Object
        BY DEF StatusInv, StatusTypes
    <2> QED BY <1>1, <1>2, <2>1 DEF StatusInv, Remembered
<1>6. CacheBounded' /\ WorkBounded' /\ Heard'
    BY <1>1 DEF StatusInv, CacheBounded, Cached, WorkBounded, At, Heard
<1> QED BY <1>3, <1>4, <1>5, <1>6 DEF StatusInv

-----------------------------------------------------------------------------
(* A new request.  Every entry in use is in the cache, and there are more  *)
(* objects than the cache may hold.                                        *)
LEMMA UsedAreCached ==
    ASSUME StatusInv, NEW o \in Object, InUse(o)
    PROVE  \E t \in Tx : entries[t] = o
<1>1. Queue(obj[o].queue) /\ obj[o].queue # <<>>
      /\ Range(obj[o].queue) = {r \in Connection : req[r].obj = o}
    BY DEF InUse, StatusInv, Flights, Queues
<1>2. Head(obj[o].queue) \in Range(obj[o].queue)
    BY <1>1 DEF Queue, Range
<1>3. PICK r \in Connection : req[r].obj = o
    BY <1>1, <1>2
<1>4. req[r].pc \in Placed
    BY <1>3, NamesAssumption DEF StatusInv, Flights, InTheirEntry
<1> QED BY <1>3, <1>4, PlacedFacts

LEMMA UnusedExists ==
    ASSUME StatusInv, NEW r \in Connection
    PROVE  Unused \in Object /\ ~ InUse(Unused) /\ \A t \in Tx : entries[t] # Unused
<1> DEFINE Used == {entries[t] : t \in Cached}
           f == [t \in Cached |-> entries[t]]
<1>1. IsFiniteSet(Cached) /\ Cardinality(Cached) <= MaxEntries /\ Cardinality(Cached) \in Nat
    BY FS_CardinalityType DEF StatusInv, CacheBounded
<1>2. f \in Surjection(Cached, Used)
    BY DEF Surjection
<1>3. IsFiniteSet(Used) /\ Cardinality(Used) <= Cardinality(Cached) /\ Cardinality(Used) \in Nat
    <2> HIDE DEF Used, f
    <2>1. IsFiniteSet(Used) /\ Cardinality(Used) <= Cardinality(Cached)
        BY <1>1, <1>2, FS_Surjection
    <2> QED BY <2>1, FS_CardinalityType
<1>4. Cardinality(Object) > MaxEntries
    <2>1. IsFiniteSet(Object) /\ IsFiniteSet(Connection)
        BY ObjectAssumption
    <2>2. Cardinality(Object) \in Nat /\ Cardinality(Connection) \in Nat
        BY <2>1, FS_CardinalityType
    <2>3. Cardinality(Connection) # 0
        BY <2>1, FS_EmptySet
    <2> QED BY <2>2, <2>3, ObjectAssumption, BoundsAssumption
<1>5. PICK o \in Object : o \notin Used
    <2> SUFFICES ASSUME Object \subseteq Used PROVE FALSE
        OBVIOUS
    <2> HIDE DEF Used
    <2>1. Cardinality(Object) <= Cardinality(Used) /\ Cardinality(Object) \in Nat
        BY <1>3, FS_Subset, FS_CardinalityType, ObjectAssumption
    <2> QED BY <1>1, <1>3, <1>4, <2>1, BoundsAssumption
<1>6. \A t \in Tx : entries[t] # o
    BY <1>5, NamesAssumption DEF Cached
<1>7. ~ InUse(o)
    BY <1>6, UsedAreCached
<1> QED BY <1>6, <1>7 DEF Unused

(* A lookup of t leaves every entry in use where it is, and t an entry of  *)
(* its own, unless there is no room.                                       *)
Room(map, t) ==
    /\ map \in [Tx -> Object \cup {NoObject}]
    /\ \A u \in Tx : u # t => map[u] \in {entries[u], NoObject}
    /\ \/ map[t] = NoObject
       \/ map[t] = entries[t] /\ entries[t] \in Object
       \/ map[t] \in Object /\ ~ InUse(map[t]) /\ \A u \in Tx : entries[u] # map[t]
    /\ \A u \in Tx : entries[u] \in Object /\ InUse(entries[u]) => map[u] = entries[u]
    /\ IsFiniteSet({u \in Tx : map[u] # NoObject})
    /\ Cardinality({u \in Tx : map[u] # NoObject}) <= MaxEntries

LEMMA EntryAtFacts ==
    ASSUME StatusInv, NEW r \in Connection, NEW t \in Tx, NEW map \in EntryAt(t)
    PROVE  Room(map, t)
<1> DEFINE remains == [u \in Tx |-> IF u \in Kept THEN entries[u] ELSE NoObject]
           c == {u \in Tx : map[u] # NoObject}
<1>1. /\ entries \in [Tx -> Object \cup {NoObject}] /\ Kept \subseteq Tx
      /\ \A u \in Kept : entries[u] \in Object
      /\ \A u \in Tx : entries[u] \in Object /\ InUse(entries[u]) => u \in Kept
    BY NamesAssumption DEF Kept, StatusInv, StatusTypes
<1>2. IsFiniteSet(Kept) /\ Cardinality(Kept) <= MaxEntries /\ Cardinality(Kept) \in Nat
    <2>1. Kept \subseteq Cached /\ IsFiniteSet(Cached) /\ Cardinality(Cached) <= MaxEntries
        BY DEF Kept, Cached, StatusInv, CacheBounded
    <2>2. IsFiniteSet(Kept) /\ Cardinality(Kept) <= Cardinality(Cached)
        BY <2>1, FS_Subset
    <2> QED BY <2>1, <2>2, FS_CardinalityType, BoundsAssumption
<1> USE DEF Room
<1>3. CASE map = remains
    <2>1. c = Kept
        BY <1>1, <1>3, NamesAssumption
    <2>2. map \in [Tx -> Object \cup {NoObject}]
        BY <1>1, <1>3
    <2>3. \A u \in Tx : map[u] = IF u \in Kept THEN entries[u] ELSE NoObject
        BY <1>3
    <2> HIDE DEF remains
    <2> QED BY <1>1, <1>2, <2>1, <2>2, <2>3
<1>4. ASSUME t \notin Kept, NEW u \in Tx, map = [remains EXCEPT ![u] = NoObject, ![t] = Unused],
             IF Full THEN u \in Evictable ELSE u = t
      PROVE  /\ map \in [Tx -> Object \cup {NoObject}]
             /\ \A v \in Tx : v # t => map[v] \in {entries[v], NoObject}
             /\ map[t] \in Object /\ ~ InUse(map[t]) /\ \A v \in Tx : entries[v] # map[t]
             /\ \A v \in Tx : entries[v] \in Object /\ InUse(entries[v]) => map[v] = entries[v]
             /\ IsFiniteSet(c) /\ Cardinality(c) <= MaxEntries
    <2>1. Unused \in Object /\ ~ InUse(Unused) /\ \A v \in Tx : entries[v] # Unused
        BY UnusedExists
    <2>2. /\ map \in [Tx -> Object \cup {NoObject}] /\ map[t] = Unused
          /\ \A v \in Tx : v # t => map[v] = IF v \in Kept /\ v # u THEN entries[v] ELSE NoObject
        BY <1>1, <1>4, <2>1
    <2>3. u # t => u \in Kept /\ ~ InUse(entries[u]) /\ Full
        BY <1>4 DEF Evictable
    <2>4. c = (Kept \ {u}) \cup {t}
        BY <1>1, <1>4, <2>1, <2>2, NamesAssumption
    <2>5. \A v \in Tx : entries[v] \in Object /\ InUse(entries[v]) => map[v] = entries[v]
        BY <1>1, <1>4, <2>2, <2>3
    <2>6. IsFiniteSet(c) /\ Cardinality(c) <= MaxEntries
        <3> DEFINE rest == Kept \ {u}
        <3>1. /\ IsFiniteSet(rest)
              /\ Cardinality(rest) = IF u \in Kept THEN Cardinality(Kept) - 1 ELSE Cardinality(Kept)
            BY <1>2, FS_RemoveElement
        <3>2. t \notin rest
            BY <1>4
        <3> HIDE DEF rest
        <3>3. /\ IsFiniteSet(rest \cup {t})
              /\ Cardinality(rest \cup {t}) = Cardinality(rest) + 1
            BY <3>1, <3>2, FS_AddElement
        <3>4. Full <=> Cardinality(Kept) = MaxEntries
            BY DEF Full
        <3>5. u \in Kept \/ (u = t /\ ~ Full)
            BY <1>4 DEF Evictable
        <3>6. Cardinality(rest) + 1 <= MaxEntries
            BY <1>2, <1>4, <3>1, <3>4, <3>5, BoundsAssumption
        <3> QED BY <2>4, <3>3, <3>6 DEF rest
    <2> HIDE DEF c, remains
    <2> QED BY <1>1, <2>1, <2>2, <2>5, <2>6
<1>5. \/ map = remains
      \/ /\ t \notin Kept
         /\ \E u \in IF Full THEN Oldest ELSE {t} :
                map = [remains EXCEPT ![u] = NoObject, ![t] = Unused]
    BY DEF EntryAt
<1>6. Oldest \subseteq Evictable /\ Evictable \subseteq Tx
    BY DEF Oldest, Evictable, Kept
<1> HIDE DEF c, remains
<1>7. CASE map # remains
    <2>1. PICK u \in IF Full THEN Oldest ELSE {t} :
               map = [remains EXCEPT ![u] = NoObject, ![t] = Unused]
        BY <1>5, <1>7
    <2>2. u \in Tx /\ (IF Full THEN u \in Evictable ELSE u = t) /\ t \notin Kept
        BY <1>5, <1>6, <1>7, <2>1
    <2> QED BY <1>4, <2>1, <2>2 DEF c
<1> QED BY <1>3, <1>7 DEF c

Found(o, t) == IF entries[t] = o THEN obj[o] ELSE NewEntry
WithRequest(e, r) == [e EXCEPT !.age = 0, !.queue = Append(@, r)]

LEMMA ArriveKeeps ==
    ASSUME StatusInv, NEW r \in Connection, NEW t \in Tx, Arrive(r, t) PROVE StatusInv'
<1>1. PICK map \in EntryAt(t) :
        /\ entries' = map
        /\ obj' = [o \in Object |->
              IF o = map[t] THEN WithRequest(Found(o, t), r)
              ELSE IF InUse(o) \/ \E u \in Tx : map[u] = o THEN obj[o]
              ELSE NewEntry]
        /\ req' = [req EXCEPT ![r] =
              [pc |-> IF map[t] = NoObject THEN "bare" ELSE "first",
               tx |-> t, obj |-> map[t]]]
    BY Zenon DEF Arrive, WithRequest, Found
<1>2. /\ req[r] = Idle /\ facts' = [facts EXCEPT ![r] = {index[t]}]
      /\ UNCHANGED <<index, permits, detached>>
    BY Zenon DEF Arrive
<1>3. Room(map, t)
    BY EntryAtFacts
<1> USE DEF Room
<1>4. /\ StatusTypes /\ Flights /\ Remembered /\ Heard
      /\ NoObject \notin Object /\ Idle.pc = "idle" /\ Idle.obj = NoObject
    BY NamesAssumption DEF StatusInv, Idle
<1>5. /\ req'[r].pc \in {"first", "bare"} /\ req'[r].tx = t /\ req'[r].obj = map[t]
      /\ req'[r].pc = "bare" <=> map[t] = NoObject
      /\ \A q \in Connection : q # r => req'[q] = req[q]
    BY <1>1, <1>4 DEF StatusTypes
(* A serving request keeps its place, its entry and its lock. *)
<1>6. ASSUME NEW q \in Connection, req[q].pc \in Placed
      PROVE  /\ q # r /\ req[q].obj \in Object /\ req[q].obj = entries[req[q].tx]
             /\ req[q].tx \in Tx /\ map[req[q].tx] = req[q].obj /\ InUse(req[q].obj)
    <2>1. /\ req[q].obj \in Object /\ req[q].obj = entries[req[q].tx] /\ req[q].tx \in Tx
        BY <1>6, PlacedFacts
    <2>2. q \in Range(obj[req[q].obj].queue)
        BY <2>1, <1>4 DEF Flights, Queues
    <2>3. InUse(req[q].obj)
        BY <2>2, EmptyQueue DEF InUse
    <2>4. q # r
        BY <1>2, <1>4, <1>6 DEF Placed, Serving, Asking
    <2> QED BY <1>3, <2>1, <2>3, <2>4
(* The entries, one by one. *)
<1>7. ASSUME NEW o \in Object
      PROVE  /\ obj'[o] \in EntryType
             /\ obj'[o].queue = IF o = map[t] THEN Append(obj[o].queue, r) ELSE obj[o].queue
             /\ \A u \in Tx : map[u] = o => Remembers(obj'[o], u)
    <2>1. obj[o] \in EntryType /\ NewEntry \in EntryType
        BY <1>4, NewEntryFacts DEF StatusTypes
    <2>2. CASE o = map[t]
        <3> DEFINE base == Found(o, t)
        <3>1. obj'[o] = WithRequest(base, r)
            BY <1>1, <2>2
        <3>2. base \in EntryType /\ base.queue = obj[o].queue
            BY <1>3, <1>4, <2>1, <2>2, NewEntryFacts DEF InUse, Found
        <3>3. InUse(o) => base = obj[o]
            BY <1>3, <1>4, <2>2 DEF Found
        <3>4. Remembers(base, t)
            BY <1>4, <2>2, NewEntryFacts DEF Remembered, Found
        <3>5. \A u \in Tx : map[u] = o => u = t
            BY <1>3, <1>4, <2>2 DEF Flights, OneEntryEach
        <3> HIDE DEF base
        <3>6. /\ obj'[o].queue = Append(base.queue, r) /\ obj'[o].age = 0
              /\ obj'[o].wait = base.wait /\ obj'[o].observation = base.observation
              /\ obj'[o].seen = base.seen /\ obj'[o].inputs = base.inputs
              /\ obj'[o].included = base.included
            BY <3>1, <3>2 DEF EntryType, WithRequest
        <3>7. Append(base.queue, r) \in Seq(Connection) /\ 0 \in 0..Retention
            BY <3>2, BoundsAssumption DEF EntryType
        <3>8. obj'[o] \in EntryType
            BY <3>1, <3>2, <3>7 DEF EntryType, WithRequest
        <3>9. Remembers(obj'[o], t)
            BY <3>4, <3>6 DEF Remembers
        <3> QED BY <2>2, <3>2, <3>3, <3>5, <3>6, <3>8, <3>9
    <2>3. CASE o # map[t] /\ (InUse(o) \/ \E u \in Tx : map[u] = o)
        <3>1. obj'[o] = obj[o]
            BY <1>1, <2>3
        <3>2. ASSUME NEW u \in Tx, map[u] = o PROVE Remembers(obj[o], u)
            <4>1. u # t /\ entries[u] = o
                BY <1>3, <1>4, <2>3, <3>2
            <4> QED BY <1>4, <4>1 DEF Remembered
        <3> QED BY <2>1, <2>3, <3>1, <3>2
    <2>4. CASE o # map[t] /\ ~ InUse(o) /\ ~ \E u \in Tx : map[u] = o
        <3>1. obj'[o] = NewEntry
            BY <1>1, <2>4
        <3>2. obj'[o].queue = obj[o].queue
            BY <2>4, <3>1, NewEntryFacts DEF InUse
        <3> QED BY <2>1, <2>4, <3>1, <3>2
    <2> QED BY <2>2, <2>3, <2>4
<1>8. StatusTypes'
    <2>1. obj' \in [Object -> EntryType]
        BY <1>1, <1>7
    <2>2. req'[r] \in [pc: Placed \cup {"bare"}, tx: Tx, obj: Object \cup {NoObject}]
        <3>1. map[t] \in Object \cup {NoObject}
            BY <1>3
        <3>2. req'[r] = [pc |-> IF map[t] = NoObject THEN "bare" ELSE "first",
                         tx |-> t, obj |-> map[t]]
            BY <1>1, <1>4 DEF StatusTypes
        <3> QED BY <3>1, <3>2 DEF Placed
    <2>3. facts' \in [Connection -> SUBSET Fact]
        BY <1>2, <1>4 DEF StatusTypes
    <2>4. req' \in [Connection -> {Idle} \cup [pc: Placed \cup {"bare"}, tx: Tx,
                                           obj: Object \cup {NoObject}]]
        <3> DEFINE forms == {Idle} \cup [pc: Placed \cup {"bare"}, tx: Tx,
                                         obj: Object \cup {NoObject}]
        <3>1. req \in [Connection -> forms] /\ req'[r] \in forms
            BY <1>4, <2>2 DEF StatusTypes
        <3> HIDE DEF forms
        <3>2. req' = [req EXCEPT ![r] = req'[r]]
            BY <1>1, <3>1
        <3>3. req' \in [Connection -> forms]
            BY <3>1, <3>2
        <3> QED BY <3>3 DEF forms
    <2> QED BY <1>1, <1>2, <1>3, <1>4, <2>1, <2>3, <2>4 DEF StatusTypes
<1>9. InTheirEntry'
    <2> SUFFICES ASSUME NEW q \in Connection
                 PROVE  IF req'[q].pc \in Placed
                          THEN req'[q].obj = map[req'[q].tx] /\ req'[q].obj \in Object
                          ELSE req'[q].obj = NoObject
        BY <1>1 DEF InTheirEntry
    <2>1. CASE q = r
        <3>1. "first" \in Placed /\ "bare" \notin Placed
            BY DEF Placed, Serving, Asking
        <3> QED BY <1>3, <1>4, <1>5, <2>1, <3>1
    <2>2. CASE q # r
        BY <1>4, <1>5, <1>6, <2>2 DEF Flights, InTheirEntry
    <2> QED BY <2>1, <2>2
<1>10. Queues'
    <2> SUFFICES ASSUME NEW o \in Object
                 PROVE  /\ Queue(obj'[o].queue)
                        /\ Range(obj'[o].queue) = {q \in Connection : req'[q].obj = o}
        BY DEF Queues
    <2>1. Queue(obj[o].queue) /\ Range(obj[o].queue) = {q \in Connection : req[q].obj = o}
        BY <1>4 DEF Flights, Queues
    <2>2. r \notin Range(obj[o].queue)
        BY <1>2, <1>4, <2>1
    <2>3. CASE o = map[t]
        <3>1. obj'[o].queue = Append(obj[o].queue, r)
            BY <1>7, <2>3
        <3>2. {q \in Connection : req'[q].obj = o} = {q \in Connection : req[q].obj = o} \cup {r}
            BY <1>5, <2>3
        <3> QED BY <2>1, <2>2, <3>1, <3>2, Joined
    <2>4. CASE o # map[t]
        <3>1. obj'[o].queue = obj[o].queue
            BY <1>7, <2>4
        <3>2. {q \in Connection : req'[q].obj = o} = {q \in Connection : req[q].obj = o}
            BY <1>2, <1>4, <1>5, <2>4
        <3> QED BY <2>1, <3>1, <3>2
    <2> QED BY <2>3, <2>4
<1>11. ServedFirst'
    <2> SUFFICES ASSUME NEW q \in Connection, req'[q].pc \in Serving PROVE Holds(q)'
        BY DEF ServedFirst
    <2>1. q # r
        BY <1>5 DEF Serving, Asking
    <2>2. req'[q] = req[q] /\ req[q].pc \in Placed
        BY <1>5, <2>1 DEF Placed
    <2> DEFINE o == req[q].obj
    <2>3. o \in Object /\ InUse(o) /\ Head(obj[o].queue) = q
        BY <1>4, <1>6, <2>2 DEF Flights, ServedFirst, Holds
    <2>4. Queue(obj[o].queue) /\ obj[o].queue # <<>> /\ r \notin Range(obj[o].queue)
        BY <1>2, <1>4, <2>3 DEF Flights, Queues, InUse
    <2>5. Head(Append(obj[o].queue, r)) = q
        BY <2>3, <2>4, Joined
    <2>6. Head(obj'[o].queue) = q
        BY <1>7, <2>3, <2>5
    <2> QED BY <2>2, <2>6 DEF Holds
<1>12. OneEntryEach'
    <2> SUFFICES ASSUME NEW u \in Tx, NEW v \in Tx, map[u] = map[v], map[u] # NoObject
                 PROVE  u = v
        BY <1>1 DEF OneEntryEach
    <2>1. \A w \in Tx : w # t /\ map[w] # NoObject => map[w] = entries[w]
        BY <1>3
    <2> QED BY <1>3, <1>4, <2>1 DEF Flights, OneEntryEach
<1>13. CacheBounded'
    <2>1. Cached' = {u \in Tx : map[u] # NoObject}
        BY <1>1 DEF Cached
    <2> QED BY <1>3, <2>1 DEF CacheBounded
<1>14. WorkBounded'
    <2>1. At({"fetch", "parse"})' = At({"fetch", "parse"})
        BY <1>2, <1>4, <1>5 DEF At
    <2> QED BY <1>2, <2>1 DEF StatusInv, WorkBounded
<1>15. Heard'
    BY <1>2, <1>4, <1>5 DEF Heard, StatusTypes
<1>16. Remembered'
    <2> SUFFICES ASSUME NEW u \in Tx, map[u] # NoObject PROVE Remembers(obj'[map[u]], u)
        BY <1>1 DEF Remembered
    <2>1. map[u] \in Object
        BY <1>3
    <2> QED BY <1>7, <2>1
<1> QED BY <1>8, <1>9, <1>10, <1>11, <1>12, <1>13, <1>14, <1>15, <1>16
        DEF StatusInv, Flights

-----------------------------------------------------------------------------
LEMMA StatusStart == ASSUME StatusInit PROVE StatusInv
<1> USE DEF StatusInit
<1>1. StatusTypes
    BY NewEntryFacts, BoundsAssumption DEF StatusTypes
<1>2. Flights
    <2>1. \A r \in Connection : req[r].pc = "idle" /\ req[r].obj = NoObject
        BY DEF Idle
    <2>2. "idle" \notin Placed /\ "idle" \notin Serving
        BY DEF Placed, Serving, Asking
    <2>3. Queues
        <3>1. \A o \in Object : {r \in Connection : req[r].obj = o} = {}
            BY <2>1, NamesAssumption
        <3>2. \A o \in Object : obj[o].queue = <<>>
            BY NewEntryFacts
        <3> QED BY <3>1, <3>2, EmptyQueue DEF Queues
    <2> QED BY <2>1, <2>2, <2>3 DEF Flights, InTheirEntry, ServedFirst, OneEntryEach
<1>3. CacheBounded
    <2>1. Cached = {}
        BY DEF Cached
    <2> QED BY <2>1, FS_EmptySet, BoundsAssumption DEF CacheBounded
<1>4. WorkBounded
    <2>1. At({"fetch", "parse"}) = {}
        BY DEF At, Idle
    <2> QED BY <2>1, FS_EmptySet, BoundsAssumption DEF WorkBounded
<1>5. Heard /\ Remembered
    BY DEF Heard, Remembered, Idle
<1> QED BY <1>1, <1>2, <1>3, <1>4, <1>5 DEF StatusInv

LEMMA StatusStep == ASSUME StatusInv, [StatusNext]_statusVars PROVE StatusInv'
<1>1. ASSUME NEW r \in Connection, NEW t \in Tx, Arrive(r, t) PROVE StatusInv'
    BY <1>1, ArriveKeeps
<1>2. ASSUME NEW r \in Connection, RequestStep(r) PROVE StatusInv'
    BY <1>2, FirstReadKeeps, HearKeeps, SecondReadKeeps, GoneKeeps DEF RequestStep
<1>3. ASSUME NEW r \in Connection, Cancel(r) PROVE StatusInv'
    BY <1>3, GoneKeeps
<1>4. CASE DetachedEnds
    BY <1>4, DetachedKeeps
<1>5. ASSUME NEW t \in Tx, NEW f \in Fact, IndexMoves(t, f) PROVE StatusInv'
    BY <1>5, IndexKeeps
<1>6. CASE TimePasses
    BY <1>6, TickKeeps
<1>7. CASE UNCHANGED statusVars
    BY <1>7 DEF statusVars, cacheVars, StatusInv, StatusTypes, Flights, InTheirEntry, Queues,
        ServedFirst, Holds, OneEntryEach, CacheBounded, Cached, WorkBounded, At, Heard,
        Remembered
<1> QED BY <1>1, <1>2, <1>3, <1>4, <1>5, <1>6, <1>7 DEF StatusNext

(* The inductive invariant of tx_status.rs and its cache: queues, permits, *)
(* what each request heard and what each entry remembers.                  *)
THEOREM StatusInductive == StatusSpec => []StatusInv
<1>1. StatusInit => StatusInv
    BY StatusStart
<1>2. StatusInv /\ [StatusNext]_statusVars => StatusInv'
    BY StatusStep
<1> QED BY <1>1, <1>2, PTL DEF StatusSpec

-----------------------------------------------------------------------------
(* What the node has said, and to whom it is no longer told: the entry of  *)
(* a transaction called confirmed since asks the node before it answers.   *)
Word == {"present", "absent"}

AsksFirst ==
    \A t \in reported : entries[t] # NoObject /\ obj[entries[t]].observation \in Word
                          => obj[entries[t]].wait = 0
TellsNothingOld ==
    \A r \in Connection : req[r].pc = "second" /\ req[r].tx \in reported
                              => obj[req[r].obj].observation \notin Word
HeardSince == reported \subseteq Tx /\ AsksFirst /\ TellsNothingOld

(* A step of r that changes only its own entry, which it holds if so, and  *)
(* what is reported of its own transaction only.                           *)
LEMMA OwnWord ==
    ASSUME StatusInv, HeardSince, NEW r \in Connection, req[r].pc \in Placed, Holds(r),
           NEW pc \in {"idle"} \cup Placed, req'[r].pc = pc,
           req'[r].pc # "idle" => req'[r].tx = req[r].tx /\ req'[r].obj = req[r].obj,
           \A q \in Connection : q # r => req'[q] = req[q],
           UNCHANGED entries,
           \A o \in Object : o # req[r].obj => obj'[o] = obj[o],
           reported' \subseteq Tx,
           \A t \in Tx : t # req[r].tx => (t \in reported' <=> t \in reported),
           req[r].tx \in reported' /\ obj'[req[r].obj].observation \in Word
              => obj'[req[r].obj].wait = 0 /\ pc # "second"
    PROVE  HeardSince'
<1> DEFINE o == req[r].obj
           t == req[r].tx
<1>1. /\ o \in Object /\ o = entries[t] /\ t \in Tx /\ StatusTypes /\ Flights
    BY PlacedFacts DEF StatusInv
<1>2. AsksFirst'
    <2> SUFFICES ASSUME NEW u \in reported', entries[u] # NoObject,
                        obj'[entries[u]].observation \in Word
                 PROVE  obj'[entries[u]].wait = 0
        BY DEF AsksFirst
    <2>1. u \in Tx /\ entries[u] \in Object
        BY <1>1 DEF StatusTypes
    <2>2. CASE u = t
        BY <1>1, <2>2
    <2>3. CASE u # t
        <3>1. entries[u] # o /\ u \in reported
            BY <1>1, <2>1, <2>3 DEF Flights, OneEntryEach
        <3> QED BY <2>1, <3>1 DEF HeardSince, AsksFirst
    <2> QED BY <2>2, <2>3
<1>3. TellsNothingOld'
    <2> SUFFICES ASSUME NEW q \in Connection, req'[q].pc = "second", req'[q].tx \in reported'
                 PROVE  obj'[req'[q].obj].observation \notin Word
        BY DEF TellsNothingOld
    <2>1. CASE q = r
        BY <2>1
    <2>2. CASE q # r
        <3>1. /\ req'[q] = req[q] /\ req[q].pc \in Serving /\ req[q].pc \in Placed
            BY <2>2 DEF Serving, Placed
        <3>2. /\ req[q].obj \in Object /\ req[q].obj = entries[req[q].tx] /\ req[q].tx \in Tx
              /\ Holds(q)
            BY <3>1, PlacedFacts
        <3>3. req[q].obj # o
            BY <2>2, <3>2 DEF Holds
        <3>4. req[q].tx # t
            BY <1>1, <3>2, <3>3
        <3> QED BY <3>1, <3>2, <3>3, <3>4 DEF HeardSince, TellsNothingOld
    <2> QED BY <2>1, <2>2
<1> QED BY <1>2, <1>3 DEF HeardSince

(* A step that touches nobody's word, except to forget or to be asked.     *)
LEMMA OthersWord ==
    ASSUME StatusInv, HeardSince, UNCHANGED reported,
           \A t \in Tx : entries'[t] # NoObject /\ obj'[entries'[t]].observation \in Word
              => /\ entries[t] = entries'[t]
                 /\ obj[entries[t]].observation \in Word
                 /\ obj[entries[t]].wait = 0 => obj'[entries'[t]].wait = 0,
           \A r \in Connection : req'[r].pc = "second"
              => /\ req[r].pc = "second" /\ req'[r].tx = req[r].tx
                 /\ obj'[req'[r].obj].observation = obj[req[r].obj].observation
    PROVE  HeardSince'
<1>1. AsksFirst'
    BY DEF HeardSince, AsksFirst
<1>2. TellsNothingOld'
    BY DEF HeardSince, TellsNothingOld
<1> QED BY <1>1, <1>2 DEF HeardSince

LEMMA ServedWord ==
    ASSUME StatusInv, HeardSince, NEW r \in Connection,
           FirstRead(r) \/ NodeReplies(r) \/ ParseEnds(r) \/ SecondRead(r)
    PROVE  HeardSince'
<1> DEFINE e == obj[req[r].obj]
           t == req[r].tx
           o == req[r].obj
<1>1. /\ req[r].pc \in Placed /\ Holds(r) /\ UNCHANGED entries
      /\ req[r].pc = "idle" => FALSE
    <2>1. req[r].pc \in Placed /\ UNCHANGED entries /\ (req[r].pc = "first" => Holds(r))
        BY DEF FirstRead, NodeReplies, ParseEnds, SecondRead, Placed, Serving, Asking
    <2> QED BY <2>1, PlacedFacts DEF Placed, Serving, Asking
<1>2. /\ o \in Object /\ o = entries[t] /\ t \in Tx /\ e \in EntryType /\ reported \subseteq Tx
      /\ entries[t] # NoObject /\ obj \in [Object -> EntryType]
      /\ r \in Range(e.queue) /\ Queue(e.queue)
    <2>1. o \in Object /\ o = entries[t] /\ t \in Tx /\ e \in EntryType
        BY <1>1, PlacedFacts
    <2> QED BY <2>1, NamesAssumption DEF StatusInv, StatusTypes, Flights, Queues, HeardSince
<1>3. ASSUME NEW x \in EntryType PROVE /\ Leave(x, r).observation = x.observation
                                       /\ Leave(x, r).wait = x.wait
    BY DEF Leave, EntryType
<1>4. t \in reported /\ e.observation \in Word => e.wait = 0
    BY <1>2 DEF HeardSince, AsksFirst
<1>5. CASE FirstRead(r) /\ index[t] \in Block
    <2> DEFINE x == RecordInclusion(e, index[t], t)
    <2>1. /\ req' = [req EXCEPT ![r] = Idle] /\ obj' = [obj EXCEPT ![o] = Leave(x, r)]
          /\ reported' = reported \cup {t}
        BY <1>5 DEF FirstRead, Ends, Becomes
    <2>2. x \in EntryType /\ x.wait = 0
        <3>1. Remembers(e, t)
            BY <1>1, PlacedFacts
        <3> QED BY <1>2, <1>5, <3>1, RecordFacts DEF RecordInclusion, EntryType
    <2>3. obj'[o].wait = 0
        BY <1>2, <1>3, <2>1, <2>2
    <2>4. req'[r].pc = "idle" /\ \A q \in Connection : q # r => req'[q] = req[q]
        BY <2>1 DEF StatusInv, StatusTypes, Idle
    <2>5. \A p \in Object : p # o => obj'[p] = obj[p]
        BY <1>2, <2>1
    <2> HIDE DEF x
    <2> QED BY <1>1, <1>2, <2>1, <2>3, <2>4, <2>5, OwnWord
<1>6. CASE SecondRead(r)
    <2> DEFINE x == IF index[t] \in Block THEN RecordInclusion(e, index[t], t) ELSE e
    <2>1. /\ req' = [req EXCEPT ![r] = Idle] /\ obj' = [obj EXCEPT ![o] = Leave(x, r)]
          /\ reported' = IF index[t] \in Block THEN reported \cup {t} ELSE reported
          /\ req[r].pc = "second"
        BY <1>6 DEF SecondRead, Ends, Becomes, FoundAtLast
    <2>2. /\ x \in EntryType
          /\ t \in reported' /\ x.observation \in Word => x.wait = 0
        <3>1. Remembers(e, t)
            BY <1>1, PlacedFacts
        <3>2. CASE index[t] \in Block
            BY <1>2, <3>1, <3>2, RecordFacts DEF RecordInclusion, EntryType
        <3>3. CASE index[t] \notin Block
            BY <1>2, <2>1, <3>3 DEF HeardSince, TellsNothingOld
        <3> QED BY <3>2, <3>3
    <2>3. t \in reported' /\ obj'[o].observation \in Word => obj'[o].wait = 0
        BY <1>2, <1>3, <2>1, <2>2
    <2>4. req'[r].pc = "idle" /\ \A q \in Connection : q # r => req'[q] = req[q]
        BY <2>1 DEF StatusInv, StatusTypes, Idle
    <2>5. /\ \A p \in Object : p # o => obj'[p] = obj[p]
          /\ reported' \subseteq Tx /\ \A u \in Tx : u # t => (u \in reported' <=> u \in reported)
        BY <1>2, <2>1
    <2> HIDE DEF x
    <2> QED BY <1>1, <1>2, <2>3, <2>4, <2>5, OwnWord
<1>7. CASE (FirstRead(r) /\ index[t] \notin Block) \/ NodeReplies(r) \/ ParseEnds(r)
    <2>1. PICK pc \in {"second", "fetch", "parse"} :
             /\ req' = [req EXCEPT ![r].pc = pc]
             /\ \/ /\ obj' = obj /\ reported' = reported
                   /\ pc = "second" => e.wait > 0
                \/ \E judged \in {"present", "absent", "unavailable"} :
                      /\ obj' = [obj EXCEPT ![o] = Observed(e, judged)]
                      /\ reported' = IF judged = "unavailable" THEN reported
                                                               ELSE reported \ {t}
        <3>1. CASE FirstRead(r) /\ index[t] \notin Block
            <4>1. reported' = reported
                BY <3>1 DEF FirstRead
            <4>2. CASE e.wait > 0 /\ Moves(r, "second") /\ UNCHANGED <<obj, permits>>
                BY <4>1, <4>2 DEF Moves
            <4>3. CASE Becomes(r, Observed(e, "unavailable")) /\ Moves(r, "second")
                BY <4>1, <4>3 DEF Moves, Becomes
            <4>4. CASE Moves(r, "fetch") /\ UNCHANGED obj
                BY <4>1, <4>4 DEF Moves
            <4> QED BY <3>1, <4>2, <4>3, <4>4 DEF FirstRead
        <3>2. CASE NodeReplies(r)
            BY <3>2 DEF NodeReplies, Moves, Becomes, ReportedAfter
        <3>3. CASE ParseEnds(r)
            BY <3>3 DEF ParseEnds, Moves, Becomes, ReportedAfter
        <3> QED BY <1>7, <3>1, <3>2, <3>3
    <2>2. /\ req'[r].pc = pc /\ req'[r].tx = t /\ req'[r].obj = o
          /\ \A q \in Connection : q # r => req'[q] = req[q]
        BY <1>1, <2>1, RequestForms DEF StatusInv, StatusTypes, Idle
    <2>3. ASSUME NEW judged \in {"present", "absent", "unavailable"}
          PROVE  Observed(e, judged).observation = judged
        BY <1>2 DEF Observed, EntryType
    <2>4. /\ \A p \in Object : p # o => obj'[p] = obj[p]
          /\ reported' \subseteq Tx /\ \A u \in Tx : u # t => (u \in reported' <=> u \in reported)
        BY <1>2, <2>1
    <2>5. t \in reported' /\ obj'[o].observation \in Word => obj'[o].wait = 0 /\ pc # "second"
        BY <1>2, <1>4, <2>1, <2>3 DEF Word, EntryType
    <2>6. pc \in Placed
        BY DEF Placed, Serving, Asking
    <2> QED BY <1>1, <1>2, <2>2, <2>4, <2>5, <2>6, OwnWord
<1> QED BY <1>5, <1>6, <1>7

LEMMA GoneWord ==
    ASSUME StatusInv, HeardSince, NEW r \in Connection, BareRead(r) \/ ReadFails(r) \/ Cancel(r)
    PROVE  HeardSince'
<1>1. /\ req' = [req EXCEPT ![r] = Idle] /\ UNCHANGED <<entries, reported>>
      /\ obj' = obj \/ obj' = Left(r)
    BY DEF BareRead, ReadFails, Cancel, Ends, cacheVars
<1>2. ASSUME NEW o \in Object
      PROVE  obj'[o].observation = obj[o].observation /\ obj'[o].wait = obj[o].wait
    <2>1. obj[o] \in EntryType
        BY DEF StatusInv, StatusTypes
    <2>2. obj'[o] = obj[o] \/ obj'[o] = Leave(obj[o], r)
        BY <1>1 DEF Left
    <2> QED BY <2>1, <2>2 DEF Leave, EntryType
<1>3. \A t \in Tx : entries[t] # NoObject => entries[t] \in Object
    BY DEF StatusInv, StatusTypes
<1>4. ASSUME NEW q \in Connection, req'[q].pc = "second"
      PROVE  req'[q] = req[q] /\ req[q].obj \in Object
    <2>1. req'[q] = req[q]
        BY <1>1, <1>4 DEF StatusInv, StatusTypes, Idle
    <2> QED BY <1>4, <2>1, PlacedFacts DEF Placed, Serving
<1> QED BY <1>1, <1>2, <1>3, <1>4, OthersWord

LEMMA WorldWord ==
    ASSUME StatusInv, HeardSince,
           DetachedEnds \/ TimePasses \/ \E t \in Tx, f \in Fact : IndexMoves(t, f)
    PROVE  HeardSince'
<1>1. UNCHANGED <<entries, req, reported>>
    BY DEF DetachedEnds, TimePasses, IndexMoves, cacheVars
<1>2. ASSUME NEW o \in Object
      PROVE  obj'[o].observation = obj[o].observation /\ (obj[o].wait = 0 => obj'[o].wait = 0)
    <2>1. obj[o] \in EntryType
        BY DEF StatusInv, StatusTypes
    <2>2. \/ obj'[o] = obj[o]
          \/ /\ obj'[o].observation = obj[o].observation
             /\ obj'[o].wait = IF obj[o].wait > 0 THEN obj[o].wait - 1 ELSE 0
        <3>1. CASE DetachedEnds \/ \E t \in Tx, f \in Fact : IndexMoves(t, f)
            BY <3>1 DEF DetachedEnds, IndexMoves, cacheVars
        <3>2. CASE TimePasses
            BY <2>1, <3>2 DEF TimePasses, EntryType
        <3> QED BY <3>1, <3>2
    <2> QED BY <2>2
<1>3. /\ \A t \in Tx : entries[t] # NoObject => entries[t] \in Object
      /\ \A r \in Connection : req[r].pc = "second" => req[r].obj \in Object
    BY PlacedFacts DEF StatusInv, StatusTypes, Placed, Serving
<1> QED BY <1>1, <1>2, <1>3, OthersWord

LEMMA ArriveWord ==
    ASSUME StatusInv, HeardSince, NEW r \in Connection, NEW t \in Tx, Arrive(r, t)
    PROVE  HeardSince'
<1>1. PICK map \in EntryAt(t) :
        /\ entries' = map
        /\ obj' = [o \in Object |->
              IF o = map[t] THEN WithRequest(Found(o, t), r)
              ELSE IF InUse(o) \/ \E u \in Tx : map[u] = o THEN obj[o]
              ELSE NewEntry]
        /\ req' = [req EXCEPT ![r] =
              [pc |-> IF map[t] = NoObject THEN "bare" ELSE "first",
               tx |-> t, obj |-> map[t]]]
    BY Zenon DEF Arrive, WithRequest, Found
<1>2. UNCHANGED reported
    BY Zenon DEF Arrive
<1>3. Room(map, t)
    BY EntryAtFacts
<1>4. ASSUME NEW o \in Object, o = map[t], entries[t] = o
      PROVE  obj'[o].observation = obj[o].observation /\ obj'[o].wait = obj[o].wait
    <2>1. obj'[o] = WithRequest(obj[o], r) /\ obj[o] \in EntryType
        BY <1>1, <1>4 DEF Found, StatusInv, StatusTypes
    <2> QED BY <2>1 DEF WithRequest, EntryType
<1>5. ASSUME NEW u \in Tx, map[u] # NoObject, obj'[map[u]].observation \in Word
      PROVE  /\ entries[u] = map[u]
             /\ obj'[map[u]].observation = obj[map[u]].observation
             /\ obj'[map[u]].wait = obj[map[u]].wait
    <2>0. map[u] \in Object
        BY <1>3, <1>5 DEF Room
    <2>1. CASE u = t /\ entries[t] = map[t]
        BY <1>4, <2>0, <2>1
    <2>2. CASE u = t /\ entries[t] # map[t]
        <3>1. obj'[map[t]] = WithRequest(NewEntry, r)
            BY <1>1, <2>0, <2>2 DEF Found
        <3>2. obj'[map[t]].observation = "not_checked"
            BY <3>1 DEF WithRequest, NewEntry
        <3> QED BY <1>5, <2>2, <3>2 DEF Word
    <2>3. CASE u # t
        <3>1. entries[u] = map[u]
            BY <1>3, <1>5, <2>3 DEF Room
        <3>2. map[u] # map[t]
            BY <1>3, <1>5, <2>0, <2>3, <3>1
               DEF Room, StatusInv, Flights, OneEntryEach
        <3>3. obj'[map[u]] = obj[map[u]]
            BY <1>1, <2>0, <3>2
        <3> QED BY <3>1, <3>3
    <2> QED BY <2>1, <2>2, <2>3
<1>6. ASSUME NEW q \in Connection, req'[q].pc = "second"
      PROVE  /\ req'[q] = req[q]
             /\ obj'[req[q].obj].observation = obj[req[q].obj].observation
    <2>1. req'[q] = req[q]
        BY <1>1, <1>6 DEF StatusInv, StatusTypes
    <2> DEFINE o == req[q].obj
    <2>2. o \in Object /\ o = entries[req[q].tx] /\ q \in Range(obj[o].queue)
        <3>1. req[q].pc \in Placed
            BY <1>6, <2>1 DEF Placed, Serving
        <3>2. o \in Object /\ o = entries[req[q].tx]
            BY <3>1, PlacedFacts
        <3> QED BY <3>2 DEF StatusInv, Flights, Queues
    <2>3. InUse(o)
        BY <2>2, EmptyQueue DEF InUse
    <2>4. CASE o = map[t]
        <3>1. entries[t] = o
            BY <1>3, <2>2, <2>3, <2>4, NamesAssumption DEF Room
        <3> QED BY <1>4, <2>1, <2>2, <2>4, <3>1
    <2>5. CASE o # map[t]
        BY <1>1, <2>1, <2>2, <2>3, <2>5
    <2> QED BY <2>1, <2>4, <2>5
<1> QED BY <1>1, <1>2, <1>5, <1>6, OthersWord

LEMMA HeardStep ==
    ASSUME StatusInv, HeardSince, [StatusNext]_statusVars PROVE HeardSince'
<1>1. ASSUME NEW r \in Connection, NEW t \in Tx, Arrive(r, t) PROVE HeardSince'
    BY <1>1, ArriveWord
<1>2. ASSUME NEW r \in Connection, RequestStep(r) \/ Cancel(r) PROVE HeardSince'
    BY <1>2, ServedWord, GoneWord DEF RequestStep
<1>3. CASE DetachedEnds \/ TimePasses \/ \E t \in Tx, f \in Fact : IndexMoves(t, f)
    BY <1>3, WorldWord
<1>4. CASE UNCHANGED statusVars
    BY <1>4 DEF statusVars, cacheVars, HeardSince, AsksFirst, TellsNothingOld
<1> QED BY <1>1, <1>2, <1>3, <1>4 DEF StatusNext

(* The cache forgets the node's word on a transaction it called confirmed: *)
(* its entry asks again before anybody is told.                            *)
THEOREM StatusHeardSince == StatusSpec => []HeardSince
<1>1. StatusInit => HeardSince
    BY DEF StatusInit, HeardSince, AsksFirst, TellsNothingOld, Idle
<1>2. StatusInv /\ HeardSince /\ [StatusNext]_statusVars => HeardSince'
    BY HeardStep
<1> QED BY <1>1, <1>2, StatusInductive, PTL DEF StatusSpec

-----------------------------------------------------------------------------
(* Whatever requests arrive, are dropped or fail, and whatever the node    *)
(* says when: requests for one transaction share the cache's entry and one *)
(* of them asks, no permit is lost or made up, the cache keeps its bound,  *)
(* and a lock passes from a request that is gone to the next one waiting.  *)
THEOREM StatusFlightsSound == StatusSpec => []FlightsSound
<1>1. ASSUME StatusInv, HeardSince PROVE FlightsSound
    <2>1. StatusTypes /\ Flights /\ CacheBounded /\ WorkBounded
        BY <1>1 DEF StatusInv
    <2>2. permits \in 0..Permits /\ detached \in 0..Permits
        <3> DEFINE c == Cardinality(At({"fetch", "parse"}))
        <3>1. c \in Nat
            BY ObjectAssumption, FS_Subset, FS_CardinalityType DEF At
        <3>2. permits + c + detached = Permits /\ permits \in Nat /\ detached \in Nat
            BY <2>1 DEF WorkBounded, StatusTypes
        <3> HIDE DEF c
        <3> QED BY <3>1, <3>2, BoundsAssumption
    <2>3. StatusTypeOK
        <3>1. Placed \cup {"bare"} = {"bare", "first", "fetch", "parse", "second"}
            BY DEF Placed, Serving, Asking
        <3> QED BY <1>1, <2>1, <2>2, <3>1 DEF StatusTypeOK, StatusTypes, CacheBounded, Cached, HeardSince
    <2>4. SingleFlight
        <3>1. ASSUME NEW r \in At({"first", "fetch", "parse", "second"})
              PROVE  entries[req[r].tx] = req[r].obj
            BY <2>1 DEF At, Flights, InTheirEntry, Placed, Serving, Asking
        <3>2. ASSUME NEW r \in At({"fetch", "parse", "second"}),
                     NEW s \in At({"fetch", "parse", "second"}), req[r].tx = req[s].tx
              PROVE  r = s
            <4>1. /\ req[r].pc \in Serving /\ req[s].pc \in Serving
                  /\ req[r].pc \in Placed /\ req[s].pc \in Placed
                  /\ r \in Connection /\ s \in Connection
                BY DEF At, Placed, Serving, Asking
            <4>2. req[r].obj = req[s].obj
                BY <2>1, <3>2, <4>1 DEF Flights, InTheirEntry
            <4> QED BY <2>1, <4>1, <4>2 DEF Flights, ServedFirst, Holds
        <3> QED BY <3>1, <3>2 DEF SingleFlight
    <2>5. LocksPassOn
        BY <2>1 DEF LocksPassOn, Flights, Queues, Queue
    <2> QED BY <2>1, <2>3, <2>4, <2>5 DEF FlightsSound
<1> QED BY <1>1, StatusInductive, StatusHeardSince, PTL

-----------------------------------------------------------------------------
(* A reply of which the three properties of answers are so.                *)
Good(a) ==
    /\ a.state = "confirmed" => a.inclusion \in a.facts
    /\ a.state = "conflicted" => "spent" \in a.facts
    /\ a.state \in {"pending", "no_longer_observed", "not_observed", "unavailable"}
          => a.facts \cap {"none", "spent"} # {}
    /\ a.state # "none" /\ a.known /\ a.facts = {"spent"} => a.state = "conflicted"
    /\ a.state \in {"pending", "no_longer_observed", "not_observed"} => ~ a.outdated

LEMMA ResponseGood ==
    ASSUME StatusTypes, NEW r \in Connection, NEW f \in Fact, f \in facts[r], NEW e, NEW inputs,
           \/ f \in Block
           \/ /\ req[r].tx \notin Wide /\ (e.seen \/ e.included # NoBlock) => inputs
              /\ req[r].tx \in reported => e.observation \notin Word
    PROVE  Good(Response(r, f, e, inputs))
<1> DEFINE a == Response(r, f, e, inputs)
           state == CASE e.observation = "present" -> "pending"
                      [] e.observation = "absent" /\ e.seen -> "no_longer_observed"
                      [] e.observation = "absent" /\ ~ e.seen -> "not_observed"
                      [] OTHER -> "unavailable"
<1>1. /\ state \in {"pending", "no_longer_observed", "not_observed", "unavailable"}
      /\ e.observation \notin Word => state = "unavailable"
    <2>1. CASE e.observation = "present"
        BY <2>1 DEF Word
    <2>2. CASE e.observation = "absent" /\ e.seen
        BY <2>2 DEF Word
    <2>3. CASE e.observation = "absent" /\ ~ e.seen
        BY <2>3 DEF Word
    <2>4. CASE e.observation \notin Word
        BY <2>4 DEF Word
    <2> QED BY <2>1, <2>2, <2>3, <2>4 DEF Word
<1> HIDE DEF state
<1>2. /\ a.state = IF f \in Block THEN "confirmed"
                   ELSE IF f = "spent" /\ inputs THEN "conflicted" ELSE state
      /\ a.inclusion = (IF f \in Block THEN f ELSE NoBlock) /\ a.facts = facts[r]
      /\ a.known = (req[r].tx \notin Wide /\ (e.seen \/ e.included # NoBlock))
      /\ a.outdated = (req[r].tx \in reported)
    BY DEF Response, state
<1> HIDE DEF a
<1>3. f \in Block \/ f = "none" \/ f = "spent"
    BY DEF Fact
<1>4. ASSUME f \in Block PROVE Good(a)
    <2>1. f # "spent" /\ a.state = "confirmed" /\ a.inclusion = f
        BY <1>2, <1>4, NamesAssumption
    <2>2. f \in a.facts /\ a.facts # {"spent"}
        BY <1>2, <2>1
    <2>3. a.state \notin {"none", "conflicted", "pending", "no_longer_observed",
                         "not_observed", "unavailable"}
        BY <2>1
    <2> QED BY <2>1, <2>2, <2>3, Zenon DEF Good
<1>5. ASSUME f \notin Block PROVE Good(a)
    <2>1. a.state = IF f = "spent" /\ inputs THEN "conflicted" ELSE state
        BY <1>2, <1>5
    <2>2. a.known => inputs
        BY <1>2, <1>5, Zenon
    <2>3. a.state \in {"pending", "no_longer_observed", "not_observed"} => ~ a.outdated
        BY <1>1, <1>2, <1>5, <2>1
    <2>4. f \in a.facts
        BY <1>2
    <2>5. a.state # "confirmed" /\ (a.state = "conflicted" => "spent" \in a.facts)
        BY <1>1, <2>1, <2>4
    <2>6. a.facts \cap {"none", "spent"} # {}
        BY <1>3, <1>5, <2>4
    <2>7. a.facts = {"spent"} /\ inputs => a.state = "conflicted"
        BY <2>1, <2>4
    <2> QED BY <2>2, <2>3, <2>5, <2>6, <2>7, Zenon DEF Good
<1> QED BY <1>4, <1>5 DEF a

LEMMA AnswerStep ==
    ASSUME StatusInv, HeardSince, Good(answer), [StatusNext]_statusVars PROVE Good(answer')
<1>1. CASE answer' = NoAnswer
    BY <1>1 DEF NoAnswer, Good
<1>2. ASSUME NEW r \in Connection, FirstRead(r) PROVE Good(answer')
    <2> DEFINE f == index[req[r].tx]
    <2>1. CASE f \in Block
        <3>1. answer' = Response(r, f, obj[req[r].obj], FALSE)
            BY <1>2, <2>1 DEF FirstRead, Ends
        <3>2. f \in facts[r] /\ f \in Fact
            BY <1>2, <2>1 DEF FirstRead, StatusInv, Heard, Fact, Idle
        <3> QED BY <2>1, <3>1, <3>2, ResponseGood DEF StatusInv
    <2>2. CASE f \notin Block
        BY <1>1, <1>2, <2>2 DEF FirstRead, Moves
    <2> QED BY <2>1, <2>2
<1>3. ASSUME NEW r \in Connection, SecondRead(r) PROVE Good(answer')
    <2> DEFINE f == index[req[r].tx]
               e == obj[req[r].obj]
    <2>1. req[r].pc = "second" /\ req[r].pc \in Placed
        BY <1>3 DEF SecondRead, Placed, Serving
    <2>2. answer' = Response(r, f, e, e.inputs)
        BY <1>3 DEF SecondRead, Ends, FoundAtLast
    <2>3. f \in facts[r] /\ f \in Fact
        BY <2>1, PlacedFacts DEF StatusInv, Heard
    <2>4. Remembers(e, req[r].tx) /\ (req[r].tx \in reported => e.observation \notin Word)
        BY <2>1, PlacedFacts DEF HeardSince, TellsNothingOld
    <2>5. req[r].tx \notin Wide /\ (e.seen \/ e.included # NoBlock) => e.inputs
        BY <2>4, Zenon DEF Remembers
    <2> HIDE DEF e, f
    <2> QED BY <2>2, <2>3, <2>4, <2>5, ResponseGood DEF StatusInv
<1>4. ASSUME NEW r \in Connection, BareRead(r) PROVE Good(answer')
    <2> DEFINE f == index[req[r].tx]
               e == [NewEntry EXCEPT !.observation = "unavailable"]
    <2>1. answer' = Response(r, f, e, FALSE)
        BY <1>4 DEF BareRead, Ends
    <2>2. req[r] # Idle /\ req[r].tx \in Tx
        BY <1>4, RequestForms DEF BareRead, StatusInv, Idle
    <2>3. f \in facts[r] /\ f \in Fact
        BY <2>2 DEF StatusInv, Heard, StatusTypes
    <2>4. ~ e.seen /\ e.included = NoBlock /\ e.observation \notin Word
        BY DEF NewEntry, Word
    <2> HIDE DEF e, f
    <2> QED BY <2>1, <2>3, <2>4, ResponseGood DEF StatusInv
<1>5. ASSUME NEW r \in Connection, RequestStep(r) PROVE Good(answer')
    BY <1>1, <1>2, <1>3, <1>4, <1>5 DEF RequestStep, NodeReplies, ParseEnds, ReadFails, Moves, Ends
<1>6. CASE UNCHANGED statusVars
    BY <1>6 DEF statusVars
<1>7. ASSUME \E r \in Connection : Cancel(r) \/ \E t \in Tx : Arrive(r, t) PROVE answer' = NoAnswer
    BY <1>7, Zenon DEF Cancel, Arrive, Ends
<1>8. ASSUME \/ DetachedEnds \/ TimePasses \/ \E t \in Tx, f \in Fact : IndexMoves(t, f)
      PROVE  answer' = NoAnswer
    BY <1>8, Zenon DEF DetachedEnds, TimePasses, IndexMoves
<1> QED BY <1>1, <1>5, <1>6, <1>7, <1>8 DEF StatusNext

(* Every answer is consistent with what its request learned of index and   *)
(* node: what the three properties of an answer have in common.            *)
THEOREM StatusAnswersGood == StatusSpec => []Good(answer)
<1>1. StatusInit => Good(answer)
    BY DEF StatusInit, NoAnswer, Good
<1>2. StatusInv /\ HeardSince /\ Good(answer) /\ [StatusNext]_statusVars => Good(answer)'
    BY AnswerStep
<1> QED BY <1>1, <1>2, StatusInductive, StatusHeardSince, PTL DEF StatusSpec

(* An answer says of the index what was so after the node was heard,       *)
(* whatever was indexed or undone between the two reads of a request.      *)
THEOREM StatusAnswerTrue == StatusSpec => []AnswerTrue
<1>1. Good(answer) => AnswerTrue
    BY DEF Good, AnswerTrue, Answered
<1> QED BY <1>1, StatusAnswersGood, PTL

(* A transaction whose inputs were once learned and one of whose inputs    *)
(* another one spent all along is never called pending.                    *)
THEOREM StatusDoubleSpendNoticed == StatusSpec => []DoubleSpendNoticed
<1>1. Good(answer) => DoubleSpendNoticed
    BY DEF Good, DoubleSpendNoticed, Answered
<1> QED BY <1>1, StatusAnswersGood, PTL

(* Once the cache has called a transaction confirmed, no later answer goes *)
(* back to what the node said before, whatever was undone, evicted or      *)
(* dropped in between.                                                     *)
THEOREM StatusFreshAfterConfirmed == StatusSpec => []FreshAfterConfirmed
<1>1. Good(answer) => FreshAfterConfirmed
    BY DEF Good, FreshAfterConfirmed, Answered
<1> QED BY <1>1, StatusAnswersGood, PTL
=============================================================================
