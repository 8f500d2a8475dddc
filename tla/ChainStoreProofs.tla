-------------------------- MODULE ChainStoreProofs --------------------------
(***************************************************************************)
(* The safety of ChainStore for every block tree, window and set of        *)
(* batches.  One inductive invariant carries everything: each of the two   *)
(* databases is sound by itself (Sound), and the one on disk is a prefix   *)
(* of the one in memory.                                                   *)
(***************************************************************************)
EXTENDS ChainStore, WellFoundedInduction, TLAPS

(* A non-empty set of naturals has a least element. *)
LEMMA Least ==
    ASSUME NEW S, S \subseteq Nat, S # {}
    PROVE  \E m \in S : \A k \in S : m <= k
<1> DEFINE R == OpToRel(<, Nat)
<1>1. IsWellFoundedOn(R, Nat)
  BY NatLessThanWellFounded
<1>2. \E m \in S : \A k \in S : ~ (<<k, m>> \in R)
  <2> HIDE DEF R
  <2> QED BY <1>1, WFMin
<1>3. \A k, m \in Nat : k < m => <<k, m>> \in R
  BY DEF OpToRel
<1> HIDE DEF R
<1>4. PICK m \in S : \A k \in S : ~ (<<k, m>> \in R)
  BY <1>2
<1>5. \A k \in S : ~ (k < m)
  BY <1>3, <1>4
<1> QED BY <1>4, <1>5

(* The tip's id stands for the whole chain: each block names its parent.   *)
LEMMA TipDetermines ==
    ASSUME NEW c \in Seq(Block), NEW e \in Seq(Block), Linked(c), Linked(e),
           Len(c) = Len(e), Len(c) > 0, c[Len(c)] = e[Len(e)]
    PROVE  c = e
<1> DEFINE n == Len(c)
           Bad == {k \in Nat : k < n /\ c[n - k] # e[n - k]}
<1>0. n \in Nat \ {0} /\ c \in [1..n -> Block] /\ e \in [1..n -> Block]
  OBVIOUS
<1>1. Bad = {}
  <2> SUFFICES ASSUME Bad # {} PROVE FALSE
    OBVIOUS
  <2>1. PICK m \in Bad : \A k \in Bad : m <= k
    <3> HIDE DEF Bad
    <3>1. Bad \subseteq Nat
      BY DEF Bad
    <3> QED BY <3>1, Least
  <2>2. m \in Nat /\ m < n /\ m # 0 /\ c[n - m] # e[n - m]
    BY <1>0
  <2>3. m - 1 \in Nat /\ m - 1 < n /\ m - 1 \notin Bad
    <3>1. m - 1 \in Nat /\ m - 1 < n /\ ~ (m <= m - 1)
      BY <2>2, <1>0
    <3> HIDE DEF Bad
    <3> QED BY <2>1, <3>1
  <2>4. c[n - (m - 1)] = e[n - (m - 1)]
    BY <2>3
  <2>5. n - (m - 1) \in 1..n /\ n - (m - 1) > 1 /\ (n - (m - 1)) - 1 = n - m
    BY <2>2, <1>0
  <2>6. /\ Parent[c[n - (m - 1)]] = c[(n - (m - 1)) - 1]
        /\ Parent[e[n - (m - 1)]] = e[(n - (m - 1)) - 1]
    BY <2>5, <1>0 DEF Linked, LinkedAt
  <2> QED BY <2>2, <2>4, <2>5, <2>6
<1>2. \A i \in 1..n : c[i] = e[i]
  <2> SUFFICES ASSUME NEW i \in 1..n, c[i] # e[i] PROVE FALSE
    OBVIOUS
  <2>1. n - i \in Nat /\ n - i < n /\ n - (n - i) = i
    BY <1>0
  <2>2. n - i \in Bad
    BY <2>1
  <2> QED BY <2>2, <1>1
<1> QED BY <1>0, <1>2

-----------------------------------------------------------------------------
(* What one database owes, wherever it is.  The last conjunct is what      *)
(* seed_genesis and the height-1 block give.                               *)
Sound(d) == /\ d \in Database
            /\ Linked(d.chain)
            /\ UndoExact(d)
            /\ Openable(d)

IInv == /\ Sound(db)
        /\ Sound(disk)
        /\ CrashOnlyTruncates
        /\ outcome \in Outcome \ {"Refused"}

USE WindowAssumption

(* Appending linked blocks keeps a database sound, whatever the batch's    *)
(* length: the rows it prunes are those that fell out of the window.       *)
LEMMA ExtendSound ==
    ASSUME NEW d, Sound(d), NEW batch \in Seq(Block), batch # <<>>,
           d.seeded, Linked(d.chain \o batch)
    PROVE  /\ Sound(Extend(d, batch))
           /\ Len(Extend(d, batch).chain) >= Len(d.chain)
           /\ \A h \in 1..Len(d.chain) : Extend(d, batch).chain[h] = d.chain[h]
           /\ Extend(d, batch).peak >= d.peak
<1> DEFINE e == Extend(d, batch)
           n == Tip(d) + Len(batch)
           new == Tip(d) + 1 .. n
<1>1. /\ d.chain \in Seq(Block) /\ d.undo \in SUBSET Nat
      /\ d.peak \in Nat /\ d.seeded \in BOOLEAN
  BY DEF Sound, Database
<1>2. /\ Len(d.chain) \in Nat /\ Len(batch) \in Nat /\ Tip(d) = Len(d.chain)
      /\ n \in Nat
  BY <1>1 DEF Tip
<1>3. /\ d = [chain |-> d.chain, undo |-> d.undo, seeded |-> d.seeded, peak |-> d.peak]
  BY DEF Sound, Database
<1>4. /\ e.chain = d.chain \o batch
      /\ e.undo = (d.undo \cup new) \ PrunedBy(new)
      /\ e.peak = IF n > d.peak THEN n ELSE d.peak
      /\ e.seeded = d.seeded
      /\ DOMAIN e = {"chain", "undo", "seeded", "peak"}
  BY <1>3 DEF Extend
<1>5. e.chain \in Seq(Block) /\ Tip(e) = n
  BY <1>1, <1>2, <1>4 DEF Tip
<1>6. e.undo \in SUBSET Nat /\ e.peak \in Nat
  BY <1>1, <1>2, <1>4
<1>7. e \in Database
  <2>1. d \in [chain: Seq(Block), undo: SUBSET Nat, seeded: BOOLEAN, peak: Nat]
    BY DEF Sound, Database
  <2>2. e \in [chain: Seq(Block), undo: SUBSET Nat, seeded: BOOLEAN, peak: Nat]
    BY <2>1, <1>1, <1>4, <1>5, <1>6 DEF Extend
  <2> QED BY <2>2 DEF Database
<1>8. UndoExact(e)
  <2>1. /\ d.undo = {h \in 1..Tip(d) : h >= d.peak - Window}
        /\ Tip(d) \in d.peak - Window - 1 .. d.peak
    BY DEF Sound, UndoExact
  <2>2. Tip(e) \in e.peak - Window - 1 .. e.peak
    BY <2>1, <1>1, <1>2, <1>4, <1>5
  <2>3. ASSUME NEW h \in Nat
        PROVE  h \in e.undo <=> h \in 1..n /\ h >= e.peak - Window
    <3>1. h \in PrunedBy(new) <=> \E k \in new : k > Window /\ h = k - Window - 1
      BY DEF PrunedBy
    <3>2. h \in PrunedBy(new) <=> h + Window + 1 \in new
      BY <3>1, <1>2
    <3>3. h \in e.undo <=> /\ (h \in 1..Tip(d) /\ h >= d.peak - Window) \/ h \in new
                           /\ ~ (h + Window + 1 \in new)
      BY <3>2, <2>1, <1>4
    <3>9. h \in e.undo <=> /\ \/ 1 <= h /\ h <= Tip(d) /\ h >= d.peak - Window
                              \/ Tip(d) + 1 <= h /\ h <= n
                           /\ ~ (h + Window + 1 >= Tip(d) + 1 /\ h + Window + 1 <= n)
      BY <3>3, <1>2
    <3>4. /\ Tip(d) \in Nat /\ Tip(d) <= d.peak /\ Tip(d) >= d.peak - Window - 1
          /\ n \in Nat /\ n > Tip(d)
      BY <2>1, <1>1, <1>2
    <3>5. CASE n > d.peak
      <4>1. e.peak = n
        BY <3>5, <1>4
      <4> QED BY <3>9, <3>4, <3>5, <4>1, <1>1
    <3>6. CASE n <= d.peak
      <4>1. e.peak = d.peak
        BY <3>6, <1>4, <1>1, <1>2
      <4> QED BY <3>9, <3>4, <3>6, <4>1, <1>1
    <3> QED BY <3>4, <3>5, <3>6, <1>1
  <2> QED BY <2>2, <2>3, <1>5, <1>6 DEF UndoExact
<1>9. Linked(e.chain) /\ Openable(e)
  BY <1>4 DEF Openable
<1>10. \A h \in 1..Len(d.chain) : e.chain[h] = d.chain[h]
  BY <1>1, <1>4
<1> QED BY <1>1, <1>2, <1>4, <1>5, <1>7, <1>8, <1>9, <1>10 DEF Sound, Tip

(* A granted rollback keeps a database sound and the blocks up to its      *)
(* target in place, and cannot end below the settled floor.                *)
LEMMA TruncateSound ==
    ASSUME NEW d, Sound(d), NEW target \in Nat, target < Tip(d),
           RollbackOutcome(d, target) = "Ok"
    PROVE  /\ Sound(Truncate(d, target))
           /\ Len(Truncate(d, target).chain) = target
           /\ \A h \in 1..target : Truncate(d, target).chain[h] = d.chain[h]
           /\ Truncate(d, target).peak = d.peak
           /\ target >= d.peak - Window - 1
<1> DEFINE e == Truncate(d, target)
<1>1. /\ d.chain \in Seq(Block) /\ d.undo \in SUBSET Nat
      /\ d.peak \in Nat /\ d.seeded \in BOOLEAN
      /\ Len(d.chain) \in Nat /\ Tip(d) = Len(d.chain)
  BY DEF Sound, Database, Tip
<1>2. d = [chain |-> d.chain, undo |-> d.undo, seeded |-> d.seeded, peak |-> d.peak]
  BY DEF Sound, Database
<1>3. /\ e.chain = SubSeq(d.chain, 1, target)
      /\ e.undo = d.undo \ (target + 1 .. Tip(d))
      /\ e.peak = d.peak
      /\ e.seeded = d.seeded
  BY <1>2 DEF Truncate
<1>4. /\ e.chain \in Seq(Block) /\ Len(e.chain) = target
      /\ \A h \in 1..target : e.chain[h] = d.chain[h]
  BY <1>1, <1>3
<1>5. target + 1 .. Tip(d) \subseteq d.undo
  <2>1. d.chain # <<>>
    BY <1>1
  <2>2. ~ (Tip(d) <= target) /\ Tip(d) > target
    BY <1>1
  <2>3. CASE Tip(d) - target > Window
    BY <2>1, <2>2, <2>3, <1>1 DEF RollbackOutcome
  <2>4. CASE Tip(d) - target <= Window
    BY <2>1, <2>2, <2>4, <1>1 DEF RollbackOutcome
  <2> QED BY <2>3, <2>4, <1>1
<1>6. /\ d.undo = {h \in 1..Tip(d) : h >= d.peak - Window}
      /\ Tip(d) \in d.peak - Window - 1 .. d.peak
  BY DEF Sound, UndoExact
<1>7. target >= d.peak - Window - 1
  <2>1. target + 1 \in d.undo
    BY <1>1, <1>5
  <2> QED BY <2>1, <1>1, <1>6
<1>8. UndoExact(e)
  <2>1. Tip(e) = target
    BY <1>4 DEF Tip
  <2>2. target \in e.peak - Window - 1 .. e.peak
    BY <1>1, <1>3, <1>6, <1>7
  <2>3. e.undo = {h \in 1..target : h >= e.peak - Window}
    BY <1>1, <1>3, <1>6
  <2> QED BY <2>1, <2>2, <2>3 DEF UndoExact
<1>9. Linked(e.chain)
  <2>1. \A i \in 1..Len(d.chain) : LinkedAt(d.chain, i)
    BY DEF Sound, Linked
  <2>2. ASSUME NEW i \in 1..target PROVE LinkedAt(e.chain, i)
    <3>1. LinkedAt(d.chain, i)
      BY <1>1, <2>1
    <3>2. e.chain[i] = d.chain[i] /\ (i > 1 => e.chain[i - 1] = d.chain[i - 1])
      BY <1>4
    <3> QED BY <3>1, <3>2 DEF LinkedAt
  <2> QED BY <1>4, <2>2 DEF Linked
<1>10. Openable(e)
  BY <1>1, <1>3 DEF Openable, Sound
<1>11. e \in Database
  <2>1. d \in [chain: Seq(Block), undo: SUBSET Nat, seeded: BOOLEAN, peak: Nat]
    BY DEF Sound, Database
  <2>2. e \in [chain: Seq(Block), undo: SUBSET Nat, seeded: BOOLEAN, peak: Nat]
    BY <2>1, <1>1, <1>3, <1>4 DEF Truncate
  <2> QED BY <2>2 DEF Database
<1> QED BY <1>3, <1>4, <1>7, <1>8, <1>9, <1>10, <1>11 DEF Sound

(* A fresh database is sound. *)
LEMMA InitIInv == Init => IInv
<1> SUFFICES ASSUME Init PROVE IInv
  OBVIOUS
<1>1. /\ db = EmptyDatabase /\ disk = EmptyDatabase
      /\ EmptyDatabase.chain = <<>> /\ EmptyDatabase.undo = {}
      /\ EmptyDatabase.peak = 0
  BY DEF Init, EmptyDatabase
<1>2. EmptyDatabase \in Database
  BY DEF EmptyDatabase, Database
<1>3. UndoExact(EmptyDatabase)
  BY <1>1 DEF UndoExact, Tip
<1>4. Sound(EmptyDatabase)
  BY <1>1, <1>2, <1>3 DEF Sound, Linked, Openable
<1>5. CrashOnlyTruncates
  BY <1>1 DEF CrashOnlyTruncates
<1> QED BY <1>1, <1>4, <1>5 DEF IInv, Init, Outcome

(* Each committing call, one lemma: the new database is sound, a crash     *)
(* still only truncates, and settled blocks stay.                          *)
LEMMA CommitKeeps ==
    ASSUME IInv, NEW d, Sound(d), outcome' \in Outcome \ {"Refused"},
           \/ db' = d /\ disk' = d
           \/ /\ db' = d /\ disk' = disk
              /\ Len(d.chain) >= Len(db.chain)
              /\ \A h \in 1..Len(db.chain) : d.chain[h] = db.chain[h]
    PROVE  IInv'
<1>1. Sound(db') /\ Sound(disk')
  BY DEF IInv
<1>2. CrashOnlyTruncates'
  <2>1. CASE db' = d /\ disk' = d
    BY <2>1 DEF CrashOnlyTruncates, Sound, Database
  <2>2. CASE /\ db' = d /\ disk' = disk
             /\ Len(d.chain) >= Len(db.chain)
             /\ \A h \in 1..Len(db.chain) : d.chain[h] = db.chain[h]
    <3>1. /\ Len(disk.chain) \in Nat /\ Len(db.chain) \in Nat /\ Len(d.chain) \in Nat
      BY DEF IInv, Sound, Database
    <3> QED BY <2>2, <3>1 DEF CrashOnlyTruncates, IInv
  <2> QED BY <2>1, <2>2
<1> QED BY <1>1, <1>2 DEF IInv, Sound

(* What the invariant says of the database a call starts from. *)
LEMMA IInvFacts ==
    ASSUME IInv
    PROVE  /\ Sound(db) /\ Sound(disk) /\ CrashOnlyTruncates
           /\ db \in Database /\ db.chain \in Seq(Block) /\ Len(db.chain) \in Nat
           /\ Tip(db) = Len(db.chain) /\ db.seeded \in BOOLEAN
BY DEF IInv, Sound, Database, Tip

(* A call that fails, or finds nothing to do, commits nothing.             *)
LEMMA FailKeeps ==
    ASSUME IInv, NEW error \in Outcome \ {"Refused"}, Fail(error)
    PROVE  IInv'
BY DEF IInv, Fail, CrashOnlyTruncates, Sound

(* seed_genesis keeps the invariant.                                       *)
LEMMA SeedKeeps == ASSUME IInv, SeedGenesis PROVE IInv'
<1>1. CASE \E error \in {"Ok", "Corrupt"} \cup Faults : Fail(error)
  BY FaultsAssumption, <1>1, FailKeeps DEF Outcome
<1>2. CASE db.chain = <<>> /\ CommitImmediate([db EXCEPT !.seeded = TRUE])
  <2> DEFINE d == [db EXCEPT !.seeded = TRUE]
  <2>1. d \in Database /\ d.chain = db.chain /\ d.undo = db.undo /\ d.peak = db.peak
    BY IInvFacts DEF Database
  <2>2. Sound(d)
    BY <2>1, <1>2, IInvFacts DEF Sound, UndoExact, Tip, Openable
  <2>3. db' = d /\ disk' = d /\ outcome' \in Outcome \ {"Refused"}
    BY <1>2 DEF CommitImmediate, Outcome
  <2> HIDE DEF d
  <2> QED BY <2>2, <2>3, CommitKeeps
<1> QED BY <1>1, <1>2 DEF SeedGenesis

(* apply_batch keeps the invariant, for batches of any length.             *)
LEMMA ApplyKeeps ==
    ASSUME IInv, NEW batch \in Seq(Block), NEW durable \in BOOLEAN,
           ApplyBatch(batch, durable)
    PROVE  IInv'
<1>1. CASE \E error \in {"Ok", "ParentMismatch"} \cup Faults : Fail(error)
  BY FaultsAssumption, <1>1, FailKeeps DEF Outcome
<1>2. CASE /\ batch # <<>>
           /\ Accepts(db, batch)
           /\ IF durable THEN CommitImmediate(Extend(db, batch))
                         ELSE CommitNone(Extend(db, batch))
  <2> DEFINE d == Extend(db, batch)
  <2>1. /\ Sound(d)
        /\ Len(d.chain) >= Len(db.chain)
        /\ \A h \in 1..Len(db.chain) : d.chain[h] = db.chain[h]
    BY <1>2, IInvFacts, ExtendSound DEF Accepts
  <2>2. /\ outcome' \in Outcome \ {"Refused"}
        /\ \/ db' = d /\ disk' = d
           \/ db' = d /\ disk' = disk
    BY <1>2 DEF CommitImmediate, CommitNone, Outcome
  <2> HIDE DEF d
  <2> QED BY <2>1, <2>2, CommitKeeps
<1> QED BY <1>1, <1>2 DEF ApplyBatch

(* rollback_to keeps the invariant, whatever its target.                   *)
LEMMA RollbackKeeps ==
    ASSUME IInv, NEW target \in 0..Tip(db), RollbackTo(target)
    PROVE  IInv'
<1>1. CASE \E error \in {"Ok"} \cup Faults : Fail(error)
  BY FaultsAssumption, <1>1, FailKeeps DEF Outcome
<1>2. CASE Fail(RollbackOutcome(db, target))
  <2>1. RollbackOutcome(db, target) \in Outcome \ {"Refused"}
    BY IInvFacts DEF RollbackOutcome, Outcome
  <2> QED BY <1>2, <2>1, FailKeeps
<1>3. CASE /\ RollbackOutcome(db, target) = "Ok"
           /\ ~ (Tip(db) <= target)
           /\ CommitImmediate(Truncate(db, target))
  <2> DEFINE d == Truncate(db, target)
  <2>1. Sound(d)
    BY <1>3, IInvFacts, TruncateSound
  <2>2. db' = d /\ disk' = d /\ outcome' \in Outcome \ {"Refused"}
    BY <1>3 DEF CommitImmediate, Outcome
  <2> HIDE DEF d
  <2> QED BY <2>1, <2>2, CommitKeeps
<1> QED BY <1>1, <1>2, <1>3 DEF RollbackTo

(* An auxiliary rebuild's commit keeps the invariant.                      *)
LEMMA AuxiliaryKeeps == ASSUME IInv, AuxiliaryCommit PROVE IInv'
<1>1. db' = db /\ disk' = db /\ outcome' \in Outcome \ {"Refused"}
  BY DEF AuxiliaryCommit, CommitImmediate, Outcome
<1> QED BY <1>1, IInvFacts, CommitKeeps

(* A crash, and opening what it left, keep the invariant.                  *)
LEMMA CrashKeeps == ASSUME IInv, CrashAndOpen PROVE IInv'
<1>1. db' = disk /\ disk' = disk /\ outcome' = "Opened"
  BY IInvFacts DEF CrashAndOpen, Sound
<1> QED BY <1>1, IInvFacts, CommitKeeps DEF Outcome

(* Every call of the store keeps the invariant.                            *)
LEMMA NextIInv == IInv /\ [Next]_vars => IInv'
<1> SUFFICES ASSUME IInv, [Next]_vars PROVE IInv'
  OBVIOUS
<1>1. CASE SeedGenesis
  BY <1>1, SeedKeeps
<1>2. ASSUME NEW batch \in Batch, NEW durable \in BOOLEAN, ApplyBatch(batch, durable)
      PROVE  IInv'
  BY <1>2, BatchAssumption, ApplyKeeps
<1>3. ASSUME NEW target \in 0..Tip(db), RollbackTo(target) PROVE IInv'
  BY <1>3, RollbackKeeps
<1>4. CASE AuxiliaryCommit
  BY <1>4, AuxiliaryKeeps
<1>5. CASE CrashAndOpen
  BY <1>5, CrashKeeps
<1>6. CASE UNCHANGED vars
  BY <1>6 DEF vars, IInv, Sound, CrashOnlyTruncates
<1> QED BY <1>1, <1>2, <1>3, <1>4, <1>5, <1>6 DEF Next

(* The inductive invariant: both databases are sound, and a crash only     *)
(* truncates.                                                              *)
THEOREM StoreInvariant == Spec => []IInv
BY InitIInv, NextIInv, PTL DEF Spec

(* The type invariant, for every block tree and window. *)
THEOREM StoreTypeOK == Spec => []TypeOK
<1>1. IInv => TypeOK
  BY DEF IInv, Sound, TypeOK, UndoExact
<1> QED BY <1>1, StoreInvariant, PTL

(* Every committed header links to the one below it, in memory and on      *)
(* disk: apply_batch's parent test, with rollback_to's removals.           *)
THEOREM StoreChainLinked == Spec => []ChainLinked
<1>1. IInv => ChainLinked
  BY DEF IInv, Sound, ChainLinked
<1> QED BY <1>1, StoreInvariant, PTL

(* The keys of UNDO are exactly those of the window below the highest      *)
(* height ever indexed: apply_batch's pruning against rollback_to's.       *)
THEOREM StoreUndoRetention == Spec => []UndoRetention
<1>1. IInv => UndoRetention
  BY DEF IInv, Sound, UndoRetention
<1> QED BY <1>1, StoreInvariant, PTL

(* Which rollbacks the undo rows there are can serve.                      *)
LEMMA GrantedExactly == ASSUME IInv PROVE RollbackExact
<1> SUFFICES ASSUME NEW t \in 0..Tip(db), db.chain # <<>>
             PROVE  (RollbackOutcome(db, t) = "Ok") <=>
                    (t = Tip(db) \/ (Tip(db) - t <= Window /\ t >= db.peak - Window - 1))
  BY DEF RollbackExact
<1>1. /\ Tip(db) \in Nat /\ db.peak \in Nat
      /\ db.undo = {h \in 1..Tip(db) : h >= db.peak - Window}
      /\ Tip(db) \in db.peak - Window - 1 .. db.peak
  BY DEF IInv, Sound, Database, UndoExact, Tip
<1>2. CASE t = Tip(db)
  <2>1. RollbackOutcome(db, t) = "Ok"
    BY <1>1, <1>2 DEF RollbackOutcome
  <2> QED BY <2>1, <1>2
<1>3. CASE t < Tip(db) /\ Tip(db) - t > Window
  <2>1. RollbackOutcome(db, t) = "ReindexRequired"
    BY <1>1, <1>3 DEF RollbackOutcome
  <2> QED BY <2>1, <1>1, <1>3
<1>4. CASE t < Tip(db) /\ Tip(db) - t <= Window
  <2>1. RollbackOutcome(db, t) = (IF t + 1 .. Tip(db) \subseteq db.undo
                                    THEN "Ok" ELSE "ReindexRequired")
    BY <1>1, <1>4 DEF RollbackOutcome
  <2>2. (t + 1 .. Tip(db) \subseteq db.undo) <=> t >= db.peak - Window - 1
    <3>1. t + 1 \in t + 1 .. Tip(db)
      BY <1>1, <1>4
    <3>2. ASSUME t + 1 .. Tip(db) \subseteq db.undo PROVE t >= db.peak - Window - 1
      BY <3>1, <3>2, <1>1
    <3>3. ASSUME t >= db.peak - Window - 1 PROVE t + 1 .. Tip(db) \subseteq db.undo
      BY <3>3, <1>1
    <3> QED BY <3>2, <3>3
  <2> QED BY <2>1, <2>2, <1>4, <1>1
<1> QED BY <1>1, <1>2, <1>3, <1>4

(* rollback_to grants a short rollback exactly when it ends at or above    *)
(* the lowest height undo rows were kept for.                              *)
THEOREM StoreRollbackExact == Spec => []RollbackExact
<1>1. IInv => RollbackExact
  BY GrantedExactly
<1> QED BY <1>1, StoreInvariant, PTL

(* The chain on disk is a prefix of the one readers were served.           *)
THEOREM StoreCrashOnlyTruncates == Spec => []CrashOnlyTruncates
<1>1. IInv => CrashOnlyTruncates
  BY DEF IInv
<1> QED BY <1>1, StoreInvariant, PTL

(* Store::open never refuses what an earlier process left.                 *)
THEOREM StoreNeverRefused == Spec => []NeverRefused
<1>1. IInv => NeverRefused
  BY DEF IInv, Sound, NeverRefused
<1> QED BY <1>1, StoreInvariant, PTL

(* Settled blocks are final: rollbacks stop above them, batches only       *)
(* append, and a crash keeps the ones settled on disk.                     *)
THEOREM StoreSettledKept == Spec => SettledKept
<1> DEFINE Kept ==
      LET floor == (IF outcome' \in {"Opened", "Refused"}
                      THEN disk.peak ELSE db.peak) - Window - 1
      IN  \A h \in 1..floor : /\ h <= Len(db'.chain)
                              /\ db'.chain[h] = db.chain[h]
<1>1. ASSUME IInv, [Next]_vars PROVE [Kept]_vars
  <2>0. /\ Sound(db) /\ Sound(disk) /\ CrashOnlyTruncates
        /\ db.peak \in Nat /\ disk.peak \in Nat
        /\ Len(db.chain) \in Nat /\ Len(disk.chain) \in Nat
        /\ Tip(db) = Len(db.chain)
        /\ db.peak - Window - 1 <= Len(db.chain)
        /\ disk.peak - Window - 1 <= Len(disk.chain)
    BY <1>1 DEF IInv, Sound, Database, Tip, UndoExact
  <2>1. ASSUME db' = db, outcome' \notin {"Opened", "Refused"} PROVE Kept
    BY <2>0, <2>1
  <2>2. ASSUME NEW error \in Outcome \ {"Opened", "Refused"}, Fail(error) PROVE Kept
    BY <2>1, <2>2 DEF Fail
  <2>3. CASE SeedGenesis
    <3>1. CASE \E error \in {"Ok", "Corrupt"} \cup Faults : Fail(error)
      BY FaultsAssumption, <3>1, <2>2 DEF Outcome
    <3>2. CASE CommitImmediate([db EXCEPT !.seeded = TRUE])
      <4>1. db'.chain = db.chain /\ outcome' = "Ok"
        BY <3>2, <2>0 DEF CommitImmediate, Sound, Database
      <4> QED BY <4>1, <2>0
    <3> QED BY <2>3, <3>1, <3>2 DEF SeedGenesis
  <2>4. ASSUME NEW batch \in Batch, NEW durable \in BOOLEAN,
               ApplyBatch(batch, durable)
        PROVE  Kept
    <3>1. CASE \E error \in {"Ok", "ParentMismatch"} \cup Faults : Fail(error)
      BY FaultsAssumption, <3>1, <2>2 DEF Outcome
    <3>2. CASE /\ batch # <<>>
               /\ Accepts(db, batch)
               /\ IF durable THEN CommitImmediate(Extend(db, batch))
                             ELSE CommitNone(Extend(db, batch))
      <4> DEFINE d == Extend(db, batch)
      <4>0. /\ Sound(d)
            /\ Len(d.chain) >= Len(db.chain)
            /\ \A h \in 1..Len(db.chain) : d.chain[h] = db.chain[h]
        BY BatchAssumption, <3>2, <2>0, ExtendSound DEF Accepts
      <4>1. Len(d.chain) \in Nat
        BY <4>0 DEF Sound, Database
      <4>2. db' = d /\ outcome' = "Ok"
        BY <3>2 DEF CommitImmediate, CommitNone
      <4> HIDE DEF d
      <4> QED BY <4>0, <4>1, <4>2, <2>0
    <3> QED BY <2>4, <3>1, <3>2 DEF ApplyBatch
  <2>5. ASSUME NEW target \in 0..Tip(db), RollbackTo(target) PROVE Kept
    <3>1. CASE \E error \in {"Ok"} \cup Faults : Fail(error)
      BY FaultsAssumption, <3>1, <2>2 DEF Outcome
    <3>2. CASE Fail(RollbackOutcome(db, target))
      <4>1. RollbackOutcome(db, target) \in Outcome \ {"Opened", "Refused"}
        BY <2>0 DEF RollbackOutcome, Outcome
      <4> QED BY <3>2, <4>1, <2>2
    <3>3. CASE /\ RollbackOutcome(db, target) = "Ok"
               /\ ~ (Tip(db) <= target)
               /\ CommitImmediate(Truncate(db, target))
      <4> DEFINE d == Truncate(db, target)
      <4>1. /\ Len(d.chain) = target
            /\ \A h \in 1..target : d.chain[h] = db.chain[h]
            /\ target >= db.peak - Window - 1
        BY <3>3, <2>0, TruncateSound
      <4>2. db' = d /\ outcome' = "Ok"
        BY <3>3 DEF CommitImmediate
      <4> HIDE DEF d
      <4> QED BY <4>1, <4>2, <2>0
    <3> QED BY <2>5, <3>1, <3>2, <3>3 DEF RollbackTo
  <2>6. CASE AuxiliaryCommit
    BY <2>6, <2>1 DEF AuxiliaryCommit, CommitImmediate
  <2>7. CASE CrashAndOpen
    <3>1. db' = disk /\ outcome' \in {"Opened", "Refused"}
      BY <2>7 DEF CrashAndOpen
    <3> QED BY <3>1, <2>0 DEF CrashOnlyTruncates
  <2>8. CASE UNCHANGED vars
    BY <2>8
  <2> QED BY <1>1, <2>3, <2>4, <2>5, <2>6, <2>7, <2>8 DEF Next
<1>2. IInv /\ [Next]_vars => [Kept]_vars
  BY <1>1
<1> QED BY <1>2, StoreInvariant, PTL DEF Spec, SettledKept
=============================================================================
