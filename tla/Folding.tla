------------------------------- MODULE Folding -------------------------------
(***************************************************************************)
(* What a fold over a sequence computes, for any step: the folds of the    *)
(* models are the loops of the code, and each of them instantiates this    *)
(* module with its step.  Induction is the least element of a set of       *)
(* numbers (WFMin), so no theorem takes a predicate as a parameter.        *)
(***************************************************************************)
EXTENDS Integers, Sequences, SequencesExt, SequenceTheorems,
        WellFoundedInduction, TLAPS

CONSTANT Op(_, _) \* one round of the loop: what is done so far, and the next element

Folded(base, seq) == FoldLeft(Op, base, seq)

-----------------------------------------------------------------------------
(* The order of the natural numbers, as the relation WFMin is stated for.  *)
Below == {p \in Nat \X Nat : p[1] < p[2]}

(* It is well founded, as the library says of an operator.                 *)
LEMMA BelowIsWellFounded == IsWellFoundedOn(Below, Nat)
PROOF
  BY NatLessThanWellFounded DEF OpToRel, Below

(* Every set of natural numbers that is not empty has a least element. *)
LEMMA LeastElement ==
  ASSUME NEW T \in SUBSET Nat, T # {}
  PROVE  \E x \in T : \A y \in T : x <= y
PROOF
  <1>1. PICK x \in T : \A y \in T : <<y, x>> \notin Below
    BY BelowIsWellFounded, WFMin
  <1>2. ASSUME NEW y \in T
        PROVE  x <= y
    <2>1. x \in Nat /\ y \in Nat
      OBVIOUS
    <2>2. y < x => <<y, x>> \in Below
      BY <2>1 DEF Below
    <2>3. QED
      BY <1>1, <2>1, <2>2
  <1>3. QED
    BY <1>2

(* Induction up to n: a set that contains 0, and with each number the next. *)
LEMMA InductionTo ==
  ASSUME NEW n \in Nat, NEW S, 0 \in S,
         \A k \in 1 .. n : k - 1 \in S => k \in S
  PROVE  \A k \in 0 .. n : k \in S
PROOF
  <1> DEFINE T == {k \in 0 .. n : k \notin S}
  <1>1. SUFFICES ASSUME T # {} PROVE FALSE
    OBVIOUS
  <1>2. PICK x \in T : \A y \in T : x <= y
    <2>1. T \in SUBSET Nat
      OBVIOUS
    <2> HIDE DEF T
    <2>2. QED
      BY <1>1, <2>1, LeastElement
  <1>3. x \in 1 .. n /\ x - 1 \in 0 .. n
    BY <1>2
  <1>4. x - 1 \notin T
    BY <1>2, <1>3
  <1>5. QED
    BY <1>2, <1>3, <1>4

(* A set of the first numbers that is not empty has a greatest element. *)
LEMMA Greatest ==
  ASSUME NEW n \in Nat, NEW s \in SUBSET (1 .. n), s # {}
  PROVE  Max(s) \in s /\ \A y \in s : y <= Max(s)
PROOF
  <1> DEFINE T == {n - x : x \in s}
  <1>1. PICK t \in T : \A y \in T : t <= y
    <2>1. \A x \in s : n - x \in Nat
      OBVIOUS
    <2>2. T \in SUBSET Nat /\ T # {}
      BY <2>1
    <2> HIDE DEF T
    <2>3. QED
      BY <2>2, LeastElement
  <1>2. PICK x \in s : t = n - x
    BY <1>1
  <1>3. \A y \in s : x >= y
    <2>1. ASSUME NEW y \in s PROVE x >= y
      <3>1. n - y \in T /\ y \in Int /\ x \in Int
        OBVIOUS
      <3>2. n - x <= n - y
        BY <1>1, <1>2, <3>1
      <3>3. QED
        BY <3>1, <3>2
    <2>2. QED
      BY <2>1
  <1>4. QED
    BY <1>2, <1>3 DEF Max

-----------------------------------------------------------------------------
(* The function FoldLeft iterates is defined, for every set of indices up  *)
(* to k: from the one for a number below.                                  *)
Iterates(g, k, base, seq) ==
    g = [s \in SUBSET (1 .. k) |->
            IF s = {} THEN base ELSE Op(g[s \ {Max(s)}], seq[Max(s)])]

(* A trace of an iteration can be made one step longer.                    *)
LEMMA IterationExtends ==
  ASSUME NEW base, NEW seq, NEW k \in Nat, NEW g, Iterates(g, k, base, seq)
  PROVE  \E h : Iterates(h, k + 1, base, seq)
PROOF
  <1> DEFINE h == [s \in SUBSET (1 .. k + 1) |->
                      IF s = {} THEN base ELSE Op(g[s \ {Max(s)}], seq[Max(s)])]
  <1>1. ASSUME NEW s \in SUBSET (1 .. k + 1), s # {}
        PROVE  s \ {Max(s)} \in SUBSET (1 .. k)
    <2>1. Max(s) \in s /\ \A y \in s : y <= Max(s)
      <3>1. k + 1 \in Nat
        OBVIOUS
      <3>2. QED
        BY <1>1, <3>1, Greatest
    <2>2. ASSUME NEW y \in s, y # Max(s)
          PROVE  y \in 1 .. k
      <3>1. y \in 1 .. k + 1 /\ Max(s) \in 1 .. k + 1 /\ y <= Max(s)
        BY <2>1
      <3>2. QED
        BY <2>2, <3>1
    <2>3. QED
      BY <2>2
  <1>2. \A s \in SUBSET (1 .. k) : h[s] = g[s]
    <2>1. \A s \in SUBSET (1 .. k) : s \in SUBSET (1 .. k + 1)
      OBVIOUS
    <2>2. ASSUME NEW s \in SUBSET (1 .. k)
          PROVE  h[s] = g[s]
      <3>1. h[s] = IF s = {} THEN base ELSE Op(g[s \ {Max(s)}], seq[Max(s)])
        BY <2>1
      <3>2. g[s] = IF s = {} THEN base ELSE Op(g[s \ {Max(s)}], seq[Max(s)])
        BY DEF Iterates
      <3>3. QED
        BY <3>1, <3>2
    <2>3. QED
      BY <2>2
  <1>3. ASSUME NEW s \in SUBSET (1 .. k + 1)
        PROVE  h[s] = IF s = {} THEN base ELSE Op(h[s \ {Max(s)}], seq[Max(s)])
    BY <1>1, <1>2
  <1>4. h = [s \in SUBSET (1 .. k + 1) |->
                      IF s = {} THEN base ELSE Op(h[s \ {Max(s)}], seq[Max(s)])]
    BY <1>3
  <1>5. QED
    BY <1>4 DEF Iterates

(* So there is one of every length.                                        *)
LEMMA IterationExists ==
  ASSUME NEW base, NEW seq, NEW n \in Nat
  PROVE  \E g : Iterates(g, n, base, seq)
PROOF
  <1> DEFINE S == {k \in 0 .. n : \E g : Iterates(g, k, base, seq)}
  <1>1. 0 \in S
    <2> DEFINE g == [s \in SUBSET (1 .. 0) |-> base]
    <2>1. \A s \in SUBSET (1 .. 0) : s = {}
      OBVIOUS
    <2>2. Iterates(g, 0, base, seq)
      BY <2>1 DEF Iterates
    <2>3. QED
      BY <2>2
  <1>2. ASSUME NEW k \in 1 .. n, k - 1 \in S
        PROVE  k \in S
    <2>1. PICK g : Iterates(g, k - 1, base, seq)
      BY <1>2
    <2>2. \E h : Iterates(h, (k - 1) + 1, base, seq)
      BY <2>1, IterationExtends
    <2>3. QED
      BY <2>2
  <1>3. n \in S
    <2> HIDE DEF S
    <2>1. QED
      BY <1>1, <1>2, InductionTo
  <1>4. QED
    BY <1>3

(* A fold goes through the sequence from left to right: what it has after  *)
(* i elements is the step of what it had before and the element i.         *)
IsTrace(f, base, seq, n) == /\ f[0] = base
                            /\ \A i \in 1 .. n : f[i] = Op(f[i - 1], seq[i])
                            /\ Folded(base, seq) = f[n]

(* A fold passes through one accumulator for each element, from the base   *)
(* to what it returns.                                                     *)
LEMMA FoldTrace ==
  ASSUME NEW base, NEW seq, NEW n \in Nat, DOMAIN seq = 1 .. n
  PROVE  \E f : IsTrace(f, base, seq, n)
PROOF
  <1> DEFINE iter == CHOOSE g : g = [s \in SUBSET DOMAIN seq |->
                         IF s = {} THEN base ELSE Op(g[s \ {Max(s)}], seq[Max(s)])]
             f == [i \in 0 .. n |-> iter[1 .. i]]
  <1>1. Folded(base, seq) = iter[DOMAIN seq]
    BY DEF Folded, FoldLeft, MapThenFoldSet
  <1>2. \E g : g = [s \in SUBSET DOMAIN seq |->
                         IF s = {} THEN base ELSE Op(g[s \ {Max(s)}], seq[Max(s)])]
    <2>1. PICK g : Iterates(g, n, base, seq)
      BY IterationExists
    <2>2. QED
      BY <2>1 DEF Iterates
  <1>3. iter = [s \in SUBSET DOMAIN seq |->
                         IF s = {} THEN base ELSE Op(iter[s \ {Max(s)}], seq[Max(s)])]
    BY <1>2
  <1> HIDE DEF iter
  <1>4. f[0] = base
    <2>1. 1 .. 0 = {} /\ {} \in SUBSET DOMAIN seq
      OBVIOUS
    <2>2. QED
      BY <1>3, <2>1
  <1>5. ASSUME NEW i \in 1 .. n
        PROVE  f[i] = Op(f[i - 1], seq[i])
    <2>1. 1 .. i \in SUBSET DOMAIN seq /\ 1 .. i # {}
      OBVIOUS
    <2>2. Max(1 .. i) = i
      <3>1. i \in Nat /\ 1 .. i \in SUBSET (1 .. i) /\ i \in 1 .. i
        OBVIOUS
      <3>2. Max(1 .. i) \in 1 .. i /\ \A y \in 1 .. i : y <= Max(1 .. i)
        BY Greatest, <2>1, <3>1
      <3>3. QED
        BY <3>1, <3>2
    <2>3. (1 .. i) \ {i} = 1 .. (i - 1)
      OBVIOUS
    <2>4. iter[1 .. i] = Op(iter[1 .. (i - 1)], seq[i])
      BY <1>3, <2>1, <2>2, <2>3
    <2>5. QED
      BY <2>4
  <1>6. Folded(base, seq) = f[n]
    BY <1>1
  <1> HIDE DEF f
  <1>7. IsTrace(f, base, seq, n)
    BY <1>4, <1>5, <1>6 DEF IsTrace
  <1>8. QED
    BY <1>7

(* A fold over one element more is one step more.                          *)
LEMMA FoldMore ==
  ASSUME NEW base, NEW T, NEW seq \in Seq(T), NEW x \in T
  PROVE  Folded(base, Append(seq, x)) = Op(Folded(base, seq), x)
PROOF
  <1> DEFINE n == Len(seq)
             longer == Append(seq, x)
  <1>1. /\ n \in Nat /\ DOMAIN seq = 1 .. n /\ DOMAIN longer = 1 .. n + 1
        /\ longer[n + 1] = x /\ \A i \in 1 .. n : longer[i] = seq[i]
    BY AppendProperties
  <1> HIDE DEF n, longer
  <1>2. PICK f : IsTrace(f, base, seq, n)
    BY <1>1, FoldTrace
  <1>3. PICK g : IsTrace(g, base, longer, n + 1)
    <2>1. n + 1 \in Nat /\ DOMAIN longer = 1 .. n + 1
      BY <1>1
    <2>2. QED
      BY <2>1, FoldTrace
  <1> DEFINE S == {k \in 0 .. n : f[k] = g[k]}
  <1>4. 0 \in S
    BY <1>1, <1>2, <1>3 DEF IsTrace
  <1>5. \A k \in 1 .. n : k - 1 \in S => k \in S
    <2>1. ASSUME NEW k \in 1 .. n, f[k - 1] = g[k - 1]
          PROVE  f[k] = g[k]
      <3>1. f[k] = Op(f[k - 1], seq[k])
        BY <1>2 DEF IsTrace
      <3>2. k \in 1 .. n + 1 /\ longer[k] = seq[k]
        BY <1>1
      <3>3. g[k] = Op(g[k - 1], longer[k])
        BY <1>3, <3>2 DEF IsTrace
      <3>4. QED
        BY <2>1, <3>1, <3>2, <3>3
    <2>2. QED
      BY <2>1
  <1>6. f[n] = g[n]
    <2>1. n \in S
      <3> HIDE DEF S
      <3>1. QED
        BY <1>1, <1>4, <1>5, InductionTo
    <2>2. QED
      BY <2>1
  <1>7. n + 1 \in 1 .. n + 1 /\ (n + 1) - 1 = n
    BY <1>1
  <1>8. g[n + 1] = Op(g[n], x)
    BY <1>1, <1>3, <1>7 DEF IsTrace
  <1>9. QED
    BY <1>2, <1>3, <1>6, <1>8 DEF IsTrace, longer

(* What holds of the base and is kept by each step holds of the fold; G[i] *)
(* is the set of what there may be after i elements.                       *)
LEMMA FoldInvariant ==
  ASSUME NEW base, NEW seq, NEW n \in Nat, DOMAIN seq = 1 .. n, NEW G,
         base \in G[0],
         \A i \in 1 .. n : \A acc \in G[i - 1] : Op(acc, seq[i]) \in G[i]
  PROVE  Folded(base, seq) \in G[n]
PROOF
  <1>1. PICK f : /\ f[0] = base
                 /\ \A i \in 1 .. n : f[i] = Op(f[i - 1], seq[i])
                 /\ Folded(base, seq) = f[n]
    <2>1. PICK f : IsTrace(f, base, seq, n)
      BY FoldTrace, Zenon
    <2>2. QED
      BY <2>1 DEF IsTrace
  <1> DEFINE S == {k \in 0 .. n : f[k] \in G[k]}
  <1>2. \A k \in 1 .. n : k - 1 \in S => k \in S
    BY <1>1
  <1>3. 0 \in S
    BY <1>1
  <1>4. n \in S
    <2> HIDE DEF S
    <2>1. QED
      BY <1>2, <1>3, InductionTo
  <1>5. QED
    BY <1>1, <1>4

-----------------------------------------------------------------------------
(* The function that starts with base and goes on for ever.                *)
Iterated(base) ==
    LET at[d \in Nat] == IF d = 0 THEN base ELSE Op(at[d - 1], d) IN at

(* Two of its beginnings are the same as far as both go.                   *)
Begins(f, n, base) == f[0] = base /\ \A i \in 1 .. n : f[i] = Op(f[i - 1], i)

(* Two beginnings of a recursion end alike.                                *)
LEMMA BeginningsAgree ==
  ASSUME NEW base, NEW f, NEW g, NEW n \in Nat, Begins(f, n, base), Begins(g, n, base)
  PROVE  f[n] = g[n]
PROOF
  <1> DEFINE S == {k \in 0 .. n : f[k] = g[k]}
  <1>1. 0 \in S
    BY DEF Begins
  <1>2. \A k \in 1 .. n : k - 1 \in S => k \in S
    BY DEF Begins
  <1>3. n \in S
    <2> HIDE DEF S
    <2>1. QED
      BY <1>1, <1>2, InductionTo
  <1>4. QED
    BY <1>3

(* What is iterated is what one gets step by step.                         *)
LEMMA IterationTrace ==
  ASSUME NEW base
  PROVE  /\ Iterated(base)[0] = base
         /\ \A d \in Nat : Iterated(base)[d + 1] = Op(Iterated(base)[d], d + 1)
PROOF
  <1> DEFINE Beginning(n) == CHOOSE f : Begins(f, n, base)
             h == [d \in Nat |-> Beginning(d)[d]]
             Repeats(g) == g = [d \in Nat |-> IF d = 0 THEN base ELSE Op(g[d - 1], d)]
             it == CHOOSE g : Repeats(g)
  <1>1. ASSUME NEW n \in Nat
        PROVE  Begins(Beginning(n), n, base)
    <2> DEFINE seq == [i \in 1 .. n |-> i]
    <2>1. PICK f : IsTrace(f, base, seq, n)
      <3>1. DOMAIN seq = 1 .. n
        OBVIOUS
      <3> HIDE DEF seq
      <3>2. QED
        BY <3>1, FoldTrace
    <2>2. Begins(f, n, base)
      BY <2>1 DEF IsTrace, Begins
    <2>3. QED
      BY <2>2
  <1> HIDE DEF Beginning
  <1>2. h[0] = base
    BY <1>1 DEF Begins
  <1>3. ASSUME NEW d \in Nat
        PROVE  h[d + 1] = Op(h[d], d + 1)
    <2>1. Begins(Beginning(d + 1), d + 1, base) /\ Begins(Beginning(d), d, base)
      BY <1>1
    <2>2. Begins(Beginning(d + 1), d, base)
      BY <2>1 DEF Begins
    <2>3. Beginning(d + 1)[d] = Beginning(d)[d]
      BY <2>1, <2>2, BeginningsAgree
    <2>4. Beginning(d + 1)[d + 1] = Op(Beginning(d + 1)[(d + 1) - 1], d + 1)
      BY <2>1 DEF Begins
    <2>5. (d + 1) - 1 = d /\ d + 1 \in Nat
      OBVIOUS
    <2>6. QED
      BY <2>3, <2>4, <2>5
  <1>4. Repeats(h)
    <2>1. ASSUME NEW d \in Nat
          PROVE  h[d] = IF d = 0 THEN base ELSE Op(h[d - 1], d)
      <3>1. CASE d = 0
        BY <1>2, <3>1
      <3>2. CASE d # 0
        <4>1. d - 1 \in Nat /\ (d - 1) + 1 = d
          BY <3>2
        <4> HIDE DEF h
        <4>2. QED
          BY <1>3, <3>2, <4>1
      <3>3. QED
        BY <3>1, <3>2
    <2>2. QED
      BY <2>1
  <1> HIDE DEF h
  <1>5. Repeats(it)
    <2> HIDE DEF Repeats
    <2>1. QED
      BY <1>4
  <1>6. Iterated(base) = it
    BY DEF Iterated
  <1> HIDE DEF it
  <1>7. it[0] = base
    BY <1>5
  <1>8. ASSUME NEW d \in Nat
        PROVE  it[d + 1] = Op(it[d], d + 1)
    <2>1. d + 1 \in Nat /\ d + 1 # 0 /\ (d + 1) - 1 = d
      OBVIOUS
    <2>2. QED
      BY <1>5, <2>1
  <1>9. QED
    BY <1>6, <1>7, <1>8

-----------------------------------------------------------------------------
(* Flattening goes through the parts from left to right, when the step is  *)
(* to join one more part on.                                               *)
LEMMA FlattenTrace ==
  ASSUME \A s, t : Op(s, t) = s \o t,
         NEW T, NEW n \in Nat, NEW parts \in [1 .. n -> Seq(T)]
  PROVE  \E P \in [0 .. n -> Seq(T)] : /\ P[0] = <<>>
                                       /\ \A i \in 1 .. n : P[i] = P[i - 1] \o parts[i]
                                       /\ FlattenSeq(parts) = P[n]
PROOF
  <1>0. \A s, t : Op(s, t) = s \o t
    OBVIOUS
  <1>1. parts \in Seq(Seq(T)) /\ Len(parts) = n /\ DOMAIN parts = 1 .. n
    OBVIOUS
  <1> DEFINE empty == <<>>
  <1>2. /\ empty \in Seq(T)
        /\ \A t \in Seq(T) : Op(empty, t) = t
        /\ \A s, t \in Seq(T) : Op(s, t) \in Seq(T)
    <2>1. empty \in Seq(T)
      OBVIOUS
    <2>2. ASSUME NEW t \in Seq(T)
          PROVE  Op(empty, t) = t
      <3>1. Op(empty, t) = empty \o t
        BY <1>0
      <3>2. <<>> \o t = t
        BY ConcatEmptySeq
      <3>3. QED
        BY <3>1, <3>2
    <2>3. ASSUME NEW s \in Seq(T), NEW t \in Seq(T)
          PROVE  Op(s, t) \in Seq(T)
      <3>1. Op(s, t) = s \o t
        BY <1>0
      <3>2. s \o t \in Seq(T)
        OBVIOUS
      <3>3. QED
        BY <3>1, <3>2
    <2>4. QED
      BY <2>1, <2>2, <2>3
  <1> HIDE DEF empty
  <1>3. PICK f : /\ f[0] = empty
                 /\ \A i \in 1 .. n : f[i] = Op(f[i - 1], parts[i])
                 /\ Folded(empty, parts) = f[n]
    <2>1. PICK f : IsTrace(f, empty, parts, n)
      BY <1>1, FoldTrace, Zenon
    <2>2. QED
      BY <2>1 DEF IsTrace
  <1> DEFINE S == {k \in 0 .. n : f[k] \in Seq(T)}
  <1>4. \A k \in 0 .. n : k \in S
    <2>1. 0 \in S
      BY <1>2, <1>3
    <2>2. ASSUME NEW k \in 1 .. n, k - 1 \in S
          PROVE  k \in S
      <3>1. f[k - 1] \in Seq(T) /\ parts[k] \in Seq(T)
        BY <2>2
      <3>2. f[k] = Op(f[k - 1], parts[k])
        BY <1>3
      <3> HIDE DEF S
      <3>3. f[k] \in Seq(T)
        BY <1>2, <3>1, <3>2
      <3>4. QED
        BY <3>3 DEF S
    <2> HIDE DEF S
    <2>3. QED
      BY <2>1, <2>2, InductionTo
  <1> DEFINE P == [i \in 0 .. n |-> f[i]]
             Flattens(g) == g = [i \in 1 .. n |-> IF i = 1 THEN parts[i] ELSE Op(g[i - 1], parts[i])]
             h == [i \in 1 .. n |-> f[i]]
             flatten == CHOOSE g : Flattens(g)
  <1>5. P \in [0 .. n -> Seq(T)] /\ P[0] = empty
    BY <1>3, <1>4
  <1>6. \A i \in 1 .. n : P[i] = Op(P[i - 1], parts[i])
    <2>1. \A i \in 1 .. n : i \in 0 .. n /\ i - 1 \in 0 .. n
      OBVIOUS
    <2>2. \A i \in 1 .. n : P[i] = f[i] /\ P[i - 1] = f[i - 1]
      BY <2>1
    <2> HIDE DEF P
    <2>3. QED
      BY <1>3, <2>2
  <1>7. Flattens(h)
    <2>1. ASSUME NEW i \in 1 .. n
          PROVE  h[i] = IF i = 1 THEN parts[i] ELSE Op(h[i - 1], parts[i])
      <3>1. CASE i = 1
        <4>1. 1 \in 1 .. n /\ 1 - 1 = 0 /\ parts[1] \in Seq(T)
          BY <3>1
        <4>2. f[1] = Op(f[0], parts[1]) /\ f[0] = empty
          BY <1>3, <4>1
        <4>3. f[1] = parts[1]
          BY <1>2, <4>1, <4>2
        <4>4. QED
          BY <3>1, <4>3
      <3>2. CASE i # 1
        <4>1. i - 1 \in 1 .. n /\ f[i] = Op(f[i - 1], parts[i])
          BY <1>3, <3>2
        <4>2. QED
          BY <3>2, <4>1
      <3>3. QED
        BY <3>1, <3>2
    <2>2. QED
      BY <2>1
  <1>8. Flattens(flatten)
    <2> HIDE DEF Flattens
    <2>1. QED
      BY <1>7
  <1> HIDE DEF flatten
  <1>9. \A i \in 1 .. n : flatten[i] = f[i]
    <2> DEFINE A == {k \in 0 .. n : k = 0 \/ flatten[k] = f[k]}
    <2>1. 0 \in A
      OBVIOUS
    <2>2. \A k \in 1 .. n : k - 1 \in A => k \in A
      <3>1. ASSUME NEW k \in 1 .. n, k - 1 \in A PROVE k \in A
        <4>1. h[k] = IF k = 1 THEN parts[k] ELSE Op(h[k - 1], parts[k])
          BY <1>7
        <4>2. flatten[k] = IF k = 1 THEN parts[k] ELSE Op(flatten[k - 1], parts[k])
          BY <1>8
        <4>3. k # 1 => k - 1 \in 1 .. n /\ flatten[k - 1] = f[k - 1]
          BY <3>1
        <4>4. flatten[k] = f[k]
          BY <4>1, <4>2, <4>3
        <4>5. QED
          BY <4>4
      <3>2. QED
        BY <3>1
    <2>3. \A k \in 0 .. n : k \in A
      <3> HIDE DEF A
      <3>1. QED
        BY <2>1, <2>2, InductionTo
    <2>4. QED
      BY <2>3
  <1>10. FlattenSeq(parts) = P[n]
    <2>1. CASE n = 0
      <3>1. parts = <<>>
        BY <1>1, <2>1
      <3>2. FlattenSeq(parts) = parts
        BY <1>1, <2>1 DEF FlattenSeq
      <3>3. QED
        BY <1>5, <2>1, <3>1, <3>2 DEF empty
    <2>2. CASE n # 0
      <3>1. FlattenSeq(parts) = flatten[n]
        BY <1>1, <2>2 DEF FlattenSeq, flatten
      <3>2. QED
        BY <1>9, <2>2, <3>1
    <2>3. QED
      BY <2>1, <2>2
  <1> HIDE DEF P
  <1>11. P[0] = <<>> /\ \A i \in 1 .. n : P[i] = P[i - 1] \o parts[i]
    BY <1>5, <1>6 DEF empty
  <1>12. QED
    BY <1>5, <1>10, <1>11, Zenon

(* So it holds what its parts hold.                                        *)
LEMMA FlattenRange ==
  ASSUME \A s, t : Op(s, t) = s \o t,
         NEW T, NEW n \in Nat, NEW parts \in [1 .. n -> Seq(T)]
  PROVE  /\ FlattenSeq(parts) \in Seq(T)
         /\ Range(FlattenSeq(parts)) = UNION {Range(parts[i]) : i \in 1 .. n}
PROOF
  <1>2. PICK P \in [0 .. n -> Seq(T)] : /\ P[0] = <<>>
                                        /\ \A i \in 1 .. n : P[i] = P[i - 1] \o parts[i]
                                        /\ FlattenSeq(parts) = P[n]
    BY FlattenTrace
  <1> DEFINE Upto(k) == UNION {Range(parts[i]) : i \in 1 .. k}
             S == {k \in 0 .. n : Range(P[k]) = Upto(k)}
  <1>3. 0 \in S
    <2>1. Range(P[0]) = {} /\ Upto(0) = {}
      BY <1>2 DEF Range
    <2>2. QED
      BY <2>1
  <1>4. \A k \in 1 .. n : k - 1 \in S => k \in S
    <2>1. ASSUME NEW k \in 1 .. n, Range(P[k - 1]) = Upto(k - 1)
          PROVE  Range(P[k]) = Upto(k)
      <3>1. P[k] = P[k - 1] \o parts[k] /\ P[k - 1] \in Seq(T) /\ parts[k] \in Seq(T)
        <4>1. k - 1 \in 0 .. n /\ k \in 1 .. n
          OBVIOUS
        <4>2. P[k - 1] \in Seq(T) /\ parts[k] \in Seq(T)
          BY <4>1
        <4>3. QED
          BY <1>2, <4>2
      <3>2. Range(P[k]) = Range(P[k - 1]) \cup Range(parts[k])
        BY <3>1, RangeConcatenation
      <3>3. Upto(k) = Upto(k - 1) \cup Range(parts[k])
        <4>1. 1 .. k = (1 .. k - 1) \cup {k}
          OBVIOUS
        <4>2. QED
          BY <4>1
      <3>4. QED
        BY <2>1, <3>2, <3>3
    <2> HIDE DEF Upto
    <2>2. QED
      BY <2>1
  <1>5. \A k \in 0 .. n : k \in S
    <2> HIDE DEF S
    <2>1. QED
      BY <1>3, <1>4, InductionTo
  <1>6. n \in S /\ P[n] \in Seq(T)
    BY <1>5
  <1>7. QED
    BY <1>2, <1>6

=============================================================================
