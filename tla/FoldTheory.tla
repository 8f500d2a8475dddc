----------------------------- MODULE FoldTheory -----------------------------
(***************************************************************************)
(* Induction over the folds of the community modules.  FoldLeft and        *)
(* FoldSet are recursive functions over the subsets of what they fold      *)
(* (Folds, MapThenFoldSet): that such a function exists, and that a fold   *)
(* keeps what each application of its operator keeps, is proved here once  *)
(* for an operator Op and an invariant Inv.  A proof about a particular    *)
(* fold instantiates this module with both.  The induction is over the     *)
(* least counterexample; that a nonempty set of naturals has a least       *)
(* element is a hypothesis here, so that no instance brings a library with *)
(* it: LeastNatural of StoreProofs, Least of ChainStoreProofs.             *)
(***************************************************************************)
EXTENDS Integers, Sequences, TLAPS

CONSTANTS
    Op(_,_,_,_),    \* Op(p, q, acc, x): p and q are what the fold's body refers to
    Inv(_,_,_,_,_)  \* Inv(p, q, base, n, acc): after the first n elements

(* What every fold over S is: elem maps S to what Op is given, last names  *)
(* the element of a subset that is folded last.                            *)
Step(p, q, elem, last, base, f, t) ==
    IF t = {} THEN base ELSE Op(p, q, f[t \ {last[t]}], elem[last[t]])

Chooses(S, last) == \A t \in SUBSET S : t # {} => last[t] \in t

(* t has at most k elements: k positions are enough to list them.          *)
AtMost(t, k) == \E s : \A x \in t : \E j \in 1..k : s[j] = x

UpTo(S, k) == {t \in SUBSET S : AtMost(t, k)}

Solves(p, q, elem, last, base, D, f) ==
    f = [t \in D |-> Step(p, q, elem, last, base, f, t)]

LEMMA SmallerSet ==
    ASSUME NEW S, NEW last, Chooses(S, last), NEW t \in SUBSET S, t # {},
           NEW k \in Nat, AtMost(t, k)
    PROVE  /\ t \ {last[t]} \in SUBSET S
           /\ k # 0
           /\ AtMost(t \ {last[t]}, k - 1)
<1>1. PICK s : \A x \in t : \E j \in 1..k : s[j] = x
    BY DEF AtMost
<1>2. last[t] \in t
    BY DEF Chooses
<1>3. PICK i \in 1..k : s[i] = last[t]
    BY <1>1, <1>2
<1> DEFINE r == [j \in 1..(k - 1) |-> IF j < i THEN s[j] ELSE s[j + 1]]
<1>4. ASSUME NEW x \in t \ {last[t]} PROVE \E j \in 1..(k - 1) : r[j] = x
    <2>1. PICK j \in 1..k : s[j] = x
        BY <1>1
    <2>2. j # i
        BY <1>3, <2>1
    <2>3. CASE j < i
        BY <2>1, <2>3
    <2>4. CASE j > i
        <3>1. j - 1 \in 1..(k - 1) /\ ~ (j - 1 < i) /\ (j - 1) + 1 = j
            BY <2>4
        <3> QED BY <2>1, <3>1
    <2> QED BY <2>2, <2>3, <2>4
<1>5. AtMost(t \ {last[t]}, k - 1)
    <2> HIDE DEF r
    <2> QED BY <1>4 DEF AtMost
<1> QED BY <1>3, <1>5

LEMMA MoreRoom ==
    ASSUME NEW t, NEW j \in Nat, NEW k \in Nat, j <= k, AtMost(t, j)
    PROVE  AtMost(t, k)
<1>1. PICK s : \A x \in t : \E i \in 1..j : s[i] = x
    BY DEF AtMost
<1>2. \A x \in t : \E i \in 1..k : s[i] = x
    BY <1>1
<1> QED BY <1>2 DEF AtMost

LEMMA NoRoom ==
    ASSUME NEW t, AtMost(t, 0)
    PROVE  t = {}
BY DEF AtMost

(* The fold's function is defined on the sets of at most k elements, for   *)
(* each k: one more element needs only the sets there were.                *)
LEMMA DefinedUpTo ==
    ASSUME \A B \in SUBSET Nat : B # {} => \E m \in B : \A k \in B : m <= k,
           NEW p, NEW q, NEW elem, NEW last, NEW base, NEW S,
           Chooses(S, last)
    PROVE  \A k \in Nat : \E f : Solves(p, q, elem, last, base, UpTo(S, k), f)
<1> DEFINE Def(k, f) == Solves(p, q, elem, last, base, UpTo(S, k), f)
           Bad == {k \in Nat : ~ \E f : Def(k, f)}
<1>1. SUFFICES Bad = {}
    OBVIOUS
<1>2. SUFFICES ASSUME Bad # {} PROVE FALSE
    OBVIOUS
<1>3. PICK k \in Bad : \A j \in Bad : k <= j
    <2>1. Bad \in SUBSET Nat
        OBVIOUS
    <2> HIDE DEF Bad
    <2> QED BY <1>2, <2>1
<1>4. CASE k = 0
    <2> DEFINE f == [t \in UpTo(S, 0) |-> base]
    <2>1. \A t \in UpTo(S, 0) : t = {}
        BY NoRoom DEF UpTo
    <2>2. Def(0, f)
        BY <2>1 DEF Step, Solves
    <2> QED BY <1>4, <2>2
<1>5. CASE k # 0
    <2>1. k \in Nat /\ k - 1 \in Nat /\ k - 1 \notin Bad
        BY <1>3, <1>5
    <2>2. PICK g : Def(k - 1, g)
        BY <2>1
    <2> DEFINE st(h, t) == Step(p, q, elem, last, base, h, t)
               f == [t \in UpTo(S, k) |-> IF t \in UpTo(S, k - 1) THEN g[t] ELSE st(g, t)]
    <2>3. ASSUME NEW t \in UpTo(S, k) PROVE f[t] = st(f, t)
        <3>1. CASE t = {}
            <4>1. t \in UpTo(S, k - 1)
                BY <3>1 DEF UpTo, AtMost
            <4> QED BY <2>2, <3>1, <4>1 DEF Step, Solves
        <3>2. CASE t # {}
            <4> DEFINE u == t \ {last[t]}
            <4>1. u \in UpTo(S, k - 1) /\ u \in UpTo(S, k)
                <5>1. t \in SUBSET S /\ AtMost(t, k)
                    BY DEF UpTo
                <5>2. u \in SUBSET S /\ AtMost(u, k - 1)
                    BY <2>1, <3>2, <5>1, SmallerSet
                <5>3. AtMost(u, k)
                    BY <2>1, <5>2, MoreRoom
                <5> QED BY <5>2, <5>3 DEF UpTo
            <4>2. f[u] = g[u]
                BY <4>1
            <4>3. f[t] = st(g, t)
                BY <2>2 DEF Solves
            <4> HIDE DEF f
            <4> QED BY <3>2, <4>2, <4>3 DEF Step
        <3> QED BY <3>1, <3>2
    <2>4. Def(k, f)
        <3>1. f = [t \in UpTo(S, k) |-> f[t]]
            OBVIOUS
        <3> HIDE DEF f
        <3> QED BY <2>3, <3>1 DEF Solves
    <2>5. \E h : Def(k, h)
        BY <2>4
    <2> HIDE DEF Def
    <2> QED BY <1>3, <2>5
<1> QED BY <1>4, <1>5

(* Every fold over a finite set has the value its definition gives it.     *)
LEMMA FoldDefined ==
    ASSUME \A B \in SUBSET Nat : B # {} => \E m \in B : \A k \in B : m <= k,
           NEW p, NEW q, NEW elem, NEW last, NEW base, NEW S,
           NEW n \in Nat, AtMost(S, n), Chooses(S, last)
    PROVE  \E f : Solves(p, q, elem, last, base, SUBSET S, f)
<1>1. UpTo(S, n) = SUBSET S
    BY DEF UpTo, AtMost
<1>2. \E f : Solves(p, q, elem, last, base, UpTo(S, n), f)
    BY DefinedUpTo
<1> QED BY <1>1, <1>2

Greatest(t) == CHOOSE x \in t : \A y \in t : x >= y

(* A nonempty set of numbers up to n has a greatest one. *)
LEMMA GreatestIn ==
    ASSUME \A B \in SUBSET Nat : B # {} => \E m \in B : \A k \in B : m <= k,
           NEW n \in Nat, NEW t \in SUBSET (1..n), t # {}
    PROVE  /\ Greatest(t) \in t
           /\ \A x \in t : x <= Greatest(t)
<1> DEFINE B == {n - x : x \in t}
<1>1. B \in SUBSET Nat /\ B # {}
    OBVIOUS
<1>2. PICK m \in B : \A k \in B : m <= k
    <2> HIDE DEF B
    <2> QED BY <1>1
<1>3. PICK x \in t : m = n - x
    BY <1>2
<1>4. \A y \in t : x >= y
    <2> SUFFICES ASSUME NEW y \in t PROVE x >= y
        OBVIOUS
    <2>1. m <= n - y
        BY <1>2
    <2> QED BY <1>3, <2>1
<1>5. \E z \in t : \A y \in t : z >= y
    BY <1>4
<1>6. Greatest(t) \in t /\ \A y \in t : Greatest(t) >= y
    BY <1>5 DEF Greatest
<1> QED BY <1>6

LEMMA Segment ==
    ASSUME \A B \in SUBSET Nat : B # {} => \E m \in B : \A k \in B : m <= k,
           NEW k \in Nat, k # 0
    PROVE  /\ 1..k # {}
           /\ Greatest(1..k) = k
           /\ (1..k) \ {k} = 1..(k - 1)
<1>1. k \in 1..k
    OBVIOUS
<1>2. 1..k # {} /\ 1..k \in SUBSET (1..k)
    BY <1>1
<1>3. Greatest(1..k) \in 1..k /\ k <= Greatest(1..k)
    BY <1>1, <1>2, GreatestIn
<1>4. Greatest(1..k) = k
    BY <1>3
<1> QED BY <1>2, <1>4

(* A fold over a sequence: f maps a set of positions to what they fold to. *)
LeftFold(p, q, base, seq, f) ==
    f = [s \in SUBSET DOMAIN seq |->
            IF s = {} THEN base
            ELSE Op(p, q, f[s \ {Greatest(s)}], seq[Greatest(s)])]

(* Its values step by step: r[i] after the first i elements.               *)
Trace(p, q, base, seq, r) ==
    /\ r[0] = base
    /\ \A i \in 1..Len(seq) : r[i] = Op(p, q, r[i - 1], seq[i])

(* Every fold over a sequence has a value, and a trace that ends in it.    *)
THEOREM LeftTrace ==
    ASSUME \A B \in SUBSET Nat : B # {} => \E m \in B : \A k \in B : m <= k,
           NEW p, NEW q, NEW base, NEW seq, DOMAIN seq = 1..Len(seq), Len(seq) \in Nat
    PROVE  /\ \E f : LeftFold(p, q, base, seq, f)
           /\ \A f : LeftFold(p, q, base, seq, f) =>
                \E r : Trace(p, q, base, seq, r) /\ r[Len(seq)] = f[DOMAIN seq]
<1> DEFINE last == [s \in SUBSET DOMAIN seq |-> Greatest(s)]
<1>1. Chooses(DOMAIN seq, last)
    BY GreatestIn DEF Chooses
<1>2. AtMost(DOMAIN seq, Len(seq))
    <2> DEFINE s == [i \in 1..Len(seq) |-> i]
    <2>1. \A x \in DOMAIN seq : \E i \in 1..Len(seq) : s[i] = x
        OBVIOUS
    <2> HIDE DEF s
    <2> QED BY <2>1 DEF AtMost
<1>3. PICK f : Solves(p, q, seq, last, base, SUBSET DOMAIN seq, f)
    <2> HIDE DEF last
    <2> QED BY <1>1, <1>2, FoldDefined
<1>4. LeftFold(p, q, base, seq, f)
    BY <1>3, Zenon DEF Solves, Step, LeftFold
<1>5. ASSUME NEW g, LeftFold(p, q, base, seq, g)
      PROVE  \E r : Trace(p, q, base, seq, r) /\ r[Len(seq)] = g[DOMAIN seq]
    <2> DEFINE n == Len(seq)
               r == [i \in 0..n |-> g[1..i]]
    <2>1. \A s \in SUBSET (1..n) :
            g[s] = IF s = {} THEN base ELSE Op(p, q, g[s \ {Greatest(s)}], seq[Greatest(s)])
        BY <1>5 DEF LeftFold
    <2>2. r[0] = base
        <3>1. 1..0 = {} /\ {} \in SUBSET (1..n)
            OBVIOUS
        <3>2. g[1..0] = base
            BY <2>1, <3>1
        <3> QED BY <3>2
    <2>3. ASSUME NEW i \in 1..n PROVE r[i] = Op(p, q, r[i - 1], seq[i])
        <3>1. 1..i # {} /\ Greatest(1..i) = i /\ (1..i) \ {i} = 1..(i - 1)
            BY Segment
        <3>2. 1..i \in SUBSET (1..n)
            OBVIOUS
        <3>3. g[1..i] = Op(p, q, g[1..(i - 1)], seq[i])
            BY <2>1, <3>1, <3>2
        <3> QED BY <3>3
    <2>4. r[n] = g[DOMAIN seq]
        OBVIOUS
    <2> HIDE DEF r
    <2> QED BY <2>2, <2>3, <2>4 DEF Trace
<1> QED BY <1>4, <1>5

(* What holds at the start of a trace and over each of its steps holds all *)
(* along it.                                                               *)
THEOREM TraceKeeps ==
    ASSUME \A B \in SUBSET Nat : B # {} => \E m \in B : \A k \in B : m <= k,
           NEW p, NEW q, NEW base, NEW seq, Len(seq) \in Nat,
           NEW r, Trace(p, q, base, seq, r),
           Inv(p, q, base, 0, base),
           \A i \in 1..Len(seq) : \A acc :
                Inv(p, q, base, i - 1, acc) => Inv(p, q, base, i, Op(p, q, acc, seq[i]))
    PROVE  \A i \in 0..Len(seq) : Inv(p, q, base, i, r[i])
<1> DEFINE n == Len(seq)
           Bad == {i \in Nat : i <= n /\ ~ Inv(p, q, base, i, r[i])}
<1>1. SUFFICES ASSUME Bad # {} PROVE FALSE
    OBVIOUS
<1>2. PICK k \in Bad : \A j \in Bad : k <= j
    <2>1. Bad \in SUBSET Nat
        OBVIOUS
    <2> HIDE DEF Bad
    <2> QED BY <1>1, <2>1
<1>3. k # 0
    BY DEF Trace
<1>4. k \in Nat /\ k \in 1..n /\ k - 1 \in Nat /\ k - 1 \notin Bad /\ ~ Inv(p, q, base, k, r[k])
    BY <1>2, <1>3
<1>5. Inv(p, q, base, k - 1, r[k - 1])
    BY <1>4
<1>6. r[k] = Op(p, q, r[k - 1], seq[k])
    BY <1>4 DEF Trace
<1> HIDE DEF Bad
<1> QED BY <1>4, <1>5, <1>6

(* A fold over a sequence keeps an invariant that each of its steps keeps. *)
THEOREM LeftKeeps ==
    ASSUME \A B \in SUBSET Nat : B # {} => \E m \in B : \A k \in B : m <= k,
           NEW p, NEW q, NEW base, NEW seq, DOMAIN seq = 1..Len(seq), Len(seq) \in Nat,
           Inv(p, q, base, 0, base),
           \A i \in 1..Len(seq) : \A acc :
                Inv(p, q, base, i - 1, acc) => Inv(p, q, base, i, Op(p, q, acc, seq[i]))
    PROVE  /\ \E f : LeftFold(p, q, base, seq, f)
           /\ \A f : LeftFold(p, q, base, seq, f) => Inv(p, q, base, Len(seq), f[DOMAIN seq])
<1>1. ASSUME NEW f, LeftFold(p, q, base, seq, f)
      PROVE  Inv(p, q, base, Len(seq), f[DOMAIN seq])
    <2>1. PICK r : Trace(p, q, base, seq, r) /\ r[Len(seq)] = f[DOMAIN seq]
        BY <1>1, LeftTrace
    <2>2. \A i \in 0..Len(seq) : Inv(p, q, base, i, r[i])
        BY <2>1, TraceKeeps
    <2>3. Len(seq) \in 0..Len(seq)
        OBVIOUS
    <2> QED BY <2>1, <2>2, <2>3
<1> QED BY <1>1, LeftTrace

(* The value of such a fold, as FoldLeft defines it.                       *)
Left(p, q, base, seq) == (CHOOSE f : LeftFold(p, q, base, seq, f))[DOMAIN seq]

(* Its value satisfies what its start does and each of its steps keeps.    *)
LEMMA LeftValue ==
    ASSUME \A B \in SUBSET Nat : B # {} => \E m \in B : \A k \in B : m <= k,
           NEW p, NEW q, NEW base, NEW seq, DOMAIN seq = 1..Len(seq), Len(seq) \in Nat,
           Inv(p, q, base, 0, base),
           \A i \in 1..Len(seq) : \A acc :
                Inv(p, q, base, i - 1, acc) => Inv(p, q, base, i, Op(p, q, acc, seq[i]))
    PROVE  Inv(p, q, base, Len(seq), Left(p, q, base, seq))
<1>1. /\ \E f : LeftFold(p, q, base, seq, f)
      /\ \A f : LeftFold(p, q, base, seq, f) => Inv(p, q, base, Len(seq), f[DOMAIN seq])
    BY LeftKeeps
<1>2. LeftFold(p, q, base, seq, CHOOSE f : LeftFold(p, q, base, seq, f))
    BY <1>1, Zenon
<1> QED BY <1>1, <1>2, Zenon DEF Left

(* A fold over a finite set keeps an invariant that each of its steps,     *)
(* taken with any element left, keeps.                                     *)
LEMMA SetRun ==
    ASSUME \A B \in SUBSET Nat : B # {} => \E m \in B : \A k \in B : m <= k,
           NEW p, NEW q, NEW base, NEW S, NEW n \in Nat, AtMost(S, n),
           NEW last, Chooses(S, last), NEW f,
           Inv(p, q, base, 0, base),
           \A x \in S : \A acc : Inv(p, q, base, 0, acc) => Inv(p, q, base, 0, Op(p, q, acc, x)),
           \A s \in SUBSET S :
                f[s] = IF s = {} THEN base ELSE Op(p, q, f[s \ {last[s]}], last[s])
    PROVE  Inv(p, q, base, 0, f[S])
<1> DEFINE Bad == {k \in Nat : \E s \in SUBSET S : AtMost(s, k) /\ ~ Inv(p, q, base, 0, f[s])}
<1>1. Bad = {}
    <2> SUFFICES ASSUME Bad # {} PROVE FALSE
        OBVIOUS
    <2>1. PICK k \in Bad : \A j \in Bad : k <= j
        <3>1. Bad \in SUBSET Nat
            OBVIOUS
        <3> HIDE DEF Bad
        <3> QED BY <3>1
    <2>2. PICK s \in SUBSET S : AtMost(s, k) /\ ~ Inv(p, q, base, 0, f[s])
        BY <2>1
    <2>3. s # {}
        BY <2>2
    <2> DEFINE u == s \ {last[s]}
    <2>4. /\ u \in SUBSET S /\ k \in Nat /\ k - 1 \in Nat
          /\ AtMost(u, k - 1) /\ last[s] \in S
        <3>1. k \in Nat
            BY <2>1
        <3>2. /\ u \in SUBSET S /\ k # 0
              /\ AtMost(u, k - 1)
            BY <2>2, <2>3, <3>1, SmallerSet
        <3>3. last[s] \in S
            BY <2>3 DEF Chooses
        <3> QED BY <3>1, <3>2, <3>3
    <2>5. Inv(p, q, base, 0, f[u])
        <3>1. k - 1 \notin Bad
            BY <2>1, <2>4
        <3> HIDE DEF u
        <3> QED BY <2>4, <3>1
    <2>6. f[s] = Op(p, q, f[u], last[s])
        BY <2>3
    <2> HIDE DEF u
    <2> QED BY <2>2, <2>4, <2>5, <2>6
<1> QED BY <1>1

(* What IsFiniteSet says, for a module that instantiates this one.         *)
Finite(S) == \E seq \in Seq(S) : \A s \in S : \E n \in 1..Len(seq) : seq[n] = s

SetFold(p, q, base, S, f) ==
    f = [s \in SUBSET S |->
            IF s = {} THEN base
            ELSE Op(p, q, f[s \ {CHOOSE x \in s : TRUE}], CHOOSE x \in s : TRUE)]

(* A fold over a finite set has a value, and keeps an invariant that every *)
(* element keeps, in whatever order CHOOSE takes them.                     *)
THEOREM SetKeeps ==
    ASSUME \A B \in SUBSET Nat : B # {} => \E m \in B : \A k \in B : m <= k,
           NEW p, NEW q, NEW base, NEW S, Finite(S), Inv(p, q, base, 0, base),
           \A x \in S : \A acc : Inv(p, q, base, 0, acc) => Inv(p, q, base, 0, Op(p, q, acc, x))
    PROVE  /\ \E f : SetFold(p, q, base, S, f)
           /\ \A f : SetFold(p, q, base, S, f) => Inv(p, q, base, 0, f[S])
<1> DEFINE elem == [x \in S |-> x]
           last == [s \in SUBSET S |-> CHOOSE x \in s : TRUE]
<1>0. PICK n \in Nat : AtMost(S, n)
    <2>1. PICK seq \in Seq(S) : \A s \in S : \E n \in 1..Len(seq) : seq[n] = s
        BY DEF Finite
    <2>2. AtMost(S, Len(seq)) /\ Len(seq) \in Nat
        BY <2>1 DEF AtMost
    <2> QED BY <2>2
<1>1. Chooses(S, last)
    BY DEF Chooses
<1>2. PICK f : Solves(p, q, elem, last, base, SUBSET S, f)
    <2> HIDE DEF last, elem
    <2> QED BY <1>0, <1>1, FoldDefined
<1>3. SetFold(p, q, base, S, f)
    <2>1. \A s \in SUBSET S : s # {} => last[s] = (CHOOSE x \in s : TRUE) /\ elem[last[s]] = last[s]
        BY <1>1 DEF Chooses
    <2> HIDE DEF last, elem
    <2>2. f = [s \in SUBSET S |-> IF s = {} THEN base ELSE Op(p, q, f[s \ {last[s]}], elem[last[s]])]
        BY <1>2, Zenon DEF Solves, Step
    <2>3. \A s \in SUBSET S :
              (IF s = {} THEN base ELSE Op(p, q, f[s \ {last[s]}], elem[last[s]]))
            = (IF s = {} THEN base
                         ELSE Op(p, q, f[s \ {CHOOSE x \in s : TRUE}], CHOOSE x \in s : TRUE))
        BY <2>1
    <2> QED BY <2>2, <2>3 DEF SetFold
<1>4. ASSUME NEW g, SetFold(p, q, base, S, g) PROVE Inv(p, q, base, 0, g[S])
    <2>1. \A s \in SUBSET S :
            g[s] = IF s = {} THEN base ELSE Op(p, q, g[s \ {last[s]}], last[s])
        BY <1>4 DEF SetFold
    <2> HIDE DEF last
    <2> QED BY <1>0, <1>1, <2>1, SetRun
<1> QED BY <1>3, <1>4

(* The value of a fold over a set, as FoldSet defines it.                  *)
OverSet(p, q, base, S) == (CHOOSE f : SetFold(p, q, base, S, f))[S]

(* Its value satisfies what its start does and every element keeps.        *)
LEMMA SetValue ==
    ASSUME \A B \in SUBSET Nat : B # {} => \E m \in B : \A k \in B : m <= k,
           NEW p, NEW q, NEW base, NEW S, Finite(S), Inv(p, q, base, 0, base),
           \A x \in S : \A acc : Inv(p, q, base, 0, acc) => Inv(p, q, base, 0, Op(p, q, acc, x))
    PROVE  Inv(p, q, base, 0, OverSet(p, q, base, S))
<1>1. /\ \E f : SetFold(p, q, base, S, f)
      /\ \A f : SetFold(p, q, base, S, f) => Inv(p, q, base, 0, f[S])
    BY SetKeeps
<1>2. SetFold(p, q, base, S, CHOOSE f : SetFold(p, q, base, S, f))
    BY <1>1, Zenon
<1> QED BY <1>1, <1>2, Zenon DEF OverSet
=============================================================================
