------------------------------ MODULE RateLimit ------------------------------
(***************************************************************************)
(* The rate limiter in front of the API: RateLimit::check and TokenBucket  *)
(* of crates/xp-api/src/limit.rs.  Buckets are refilled when they are      *)
(* looked at, forgotten once they have been full for a while, and all      *)
(* forgotten when there are too many.                                      *)
(*                                                                         *)
(* A request reads the clock, then waits for the mutex: requests can reach *)
(* the map in another order than that of their times.  MaxDelay bounds the *)
(* wait.  Time is `now`, bounded by MaxTime.  Tokens are counted in ticks  *)
(* of refill: a bucket gains one unit per tick and a request costs `Cost`  *)
(* of them, so Cost is 1 / per_second.  Clients on the allowlist, and all  *)
(* of them when per_second is 0, pass without reaching the map.            *)
(***************************************************************************)
EXTENDS Integers, FiniteSets

CONSTANTS
    Caller,     \* requests under way
    Key, NoKey, \* clients, after bucket_key
    Cost,       \* ticks in which one token is refilled
    Burst,      \* tokens a full bucket holds
    Second,     \* ticks in a second
    MaxBuckets, SweepEvery, IdleFor,
    MaxDelay,
    MaxTime

ASSUME LimitKeyAssumption == NoKey \notin Key
ASSUME LimitRateAssumption == Cost \in Nat \ {0} /\ Burst \in Nat \ {0}
ASSUME LimitTimeAssumption ==
    /\ Second \in Nat \ {0} /\ MaxDelay \in Nat /\ MaxTime \in Nat
    /\ SweepEvery \in Nat \ {0} /\ IdleFor \in Nat \ {0}
ASSUME LimitMapAssumption == IsFiniteSet(Key) /\ MaxBuckets \in Nat \ {0}

VARIABLES
    now,
    tracked,    \* the keys of the map
    bucket,     \* their buckets; full ones for the others
    lastSweep,
    pending,    \* the request's key and the time it read, while it waits
    allowance,  \* history: what exact accounting leaves, debts forgiven
    promised    \* history: when a key may retry, as told by its last refusal

mapVars == <<tracked, bucket, lastSweep>>
limitVars == <<now, mapVars, pending, allowance, promised>>

Cap == Burst * Cost
Bucket == [level: 0..Cap, last: 0..MaxTime]
NoBucket == [level |-> Cap, last |-> 0]
NoRequest == [key |-> NoKey, at |-> 0]
NoPromise == 0

Least(m, n) == IF m < n THEN m ELSE n

(* A token taken off an account, down to nothing. *)
Charged(n) == IF n > Cost THEN n - Cost ELSE 0

(* saturating_duration_since *)
Since(t, last) == IF t > last THEN t - last ELSE 0

Refilled(b, t) == Least(Cap, b.level + Since(t, b.last))

(* Mutant: a refusal restarts the clock and drops what was refilled. *)
TryTakeForgetful(b, t) ==
    IF Refilled(b, t) >= Cost THEN [level |-> Refilled(b, t) - Cost, last |-> t]
    ELSE [b EXCEPT !.last = t]

(* try_take: the refill is stored whether or not a token is taken.         *)
TryTake(b, t) ==
    [level |-> IF Refilled(b, t) >= Cost THEN Refilled(b, t) - Cost ELSE Refilled(b, t),
     last  |-> t]

(* Full, and for long enough. *)
IsIdle(b, t) == Since(t, b.last + (Cap - b.level)) >= IdleFor

OverCap(keys) == Cardinality(keys) >= MaxBuckets

Sweeps(t) == Since(t, lastSweep) >= SweepEvery \/ OverCap(tracked)

(* What the sweep leaves: everybody goes if it leaves too many.            *)
Swept(t) ==
    LET live == {k \in tracked : ~ IsIdle(bucket[k], t)}
    IN  IF ~ Sweeps(t) THEN tracked ELSE IF OverCap(live) THEN {} ELSE live

(* Mutant: rounded down. *)
RetryAfterFloor(b) ==
    LET seconds == (Cost - b.level) \div Second
    IN  IF seconds = 0 THEN 1 ELSE seconds

(* Whole seconds until a token is there, and never none. *)
RetryAfter(b) == (Cost - b.level + Second - 1) \div Second

-----------------------------------------------------------------------------
LimitInit ==
    /\ now = 0
    /\ tracked = {}
    /\ bucket = [k \in Key |-> NoBucket]
    /\ lastSweep = 0
    /\ pending = [r \in Caller |-> NoRequest]
    /\ allowance = [k \in Key |-> Cap]
    /\ promised = [k \in Key |-> NoPromise]

Tick ==
    /\ now < MaxTime
    /\ \A r \in Caller : pending[r] # NoRequest => now < pending[r].at + MaxDelay
    /\ now' = now + 1
    /\ allowance' = [k \in Key |-> Least(Cap, allowance[k] + 1)]
    /\ UNCHANGED <<mapVars, pending, promised>>

(* RateLimitService::call: Instant::now().                                 *)
Call(r, k) ==
    /\ pending[r] = NoRequest
    /\ pending' = [pending EXCEPT ![r] = [key |-> k, at |-> now]]
    /\ UNCHANGED <<now, mapVars, allowance, promised>>

(* RateLimit::check, under the mutex.                                      *)
Check(r) ==
    LET k == pending[r].key
        t == pending[r].at
        b == IF k \in Swept(t) THEN bucket[k] ELSE [level |-> Cap, last |-> t]
        passes == Refilled(b, t) >= Cost
    IN  /\ pending[r] # NoRequest
        /\ tracked' = Swept(t) \cup {k}
        /\ bucket' = [j \in Key |-> IF j = k THEN TryTake(b, t)
                                    ELSE IF j \in Swept(t) THEN bucket[j] ELSE NoBucket]
        /\ lastSweep' = IF Sweeps(t) THEN t ELSE lastSweep
        /\ pending' = [pending EXCEPT ![r] = NoRequest]
        /\ allowance' = [allowance EXCEPT ![k] = IF passes THEN Charged(@) ELSE @]
        /\ promised' = [promised EXCEPT ![k] =
              IF passes THEN NoPromise ELSE t + RetryAfter(TryTake(b, t)) * Second]
        /\ UNCHANGED now

LimitNext == \/ Tick
             \/ \E r \in Caller : Check(r) \/ \E k \in Key : Call(r, k)

LimitSpec == LimitInit /\ [][LimitNext]_limitVars

-----------------------------------------------------------------------------
LimitTypeOK ==
    /\ now \in 0..MaxTime
    /\ tracked \subseteq Key /\ Cardinality(tracked) <= MaxBuckets
    /\ bucket \in [Key -> Bucket]
    /\ lastSweep \in 0..MaxTime
    /\ pending \in [Caller -> {NoRequest} \cup [key: Key, at: 0..MaxTime]]
    /\ allowance \in [Key -> 0..Cap]
    /\ promised \in [Key -> Nat]

(* What a request that reads the clock at t would find.                    *)
LevelAt(k, t) == IF k \in tracked THEN Refilled(bucket[k], t) ELSE Cap

(* Sweeping, clearing the map and requests that overtake one another only  *)
(* ever err in the client's favour: nobody has less than exact accounting  *)
(* of what it was granted would leave it.                                  *)
NeverStricter == \A k \in Key : LevelAt(k, now) >= allowance[k]

(* A client told to come back after so many seconds, and that does not     *)
(* spend what it has before, will then find a token.                       *)
RetryHonoured ==
    \A k \in Key : promised[k] # NoPromise => LevelAt(k, promised[k]) >= Cost
=============================================================================
