--------------------------- MODULE ToolGate_proofs ---------------------------
(***************************************************************************)
(* Proofs about ToolGate: a request passes exactly when all of it is       *)
(* admissible, whatever its depth and width.  The code visits one node at  *)
(* a time from a stack and stops at the first fault; Admissible speaks of  *)
(* all nodes at once, depth by depth.  What joins them is a ledger: with   *)
(* any weight given to the nodes, what has been counted and what the nodes *)
(* still on the stack weigh with all below them come to the same sum after *)
(* each visit.  With weights that count nodes, characters and faults, the  *)
(* request has its shape exactly when what is pending keeps within what is *)
(* left of the limits.  Inspection has no limits; for it a value is        *)
(* tainted when a string of it has a finding or a value below it is        *)
(* tainted, and a turn of the loop keeps whether anything on the stack is. *)
(* The inductive invariant is GateInv.                                     *)
(***************************************************************************)
EXTENDS ToolGate, SequenceTheorems, TLAPS

Cat(s, t) == s \o t

(* Sums are folds of Add, and Folding's induction serves for all of this   *)
(* module.                                                                 *)
Adding == INSTANCE Folding WITH Op <- Add
Catenation == INSTANCE Folding WITH Op <- Cat

-----------------------------------------------------------------------------
(* What is in a sequence over a set is in the set.                         *)
LEMMA RangeWithin ==
  ASSUME NEW X, NEW s \in Seq(X)
  PROVE  Range(s) \subseteq X
PROOF
  BY DEF Range

(* Induction over sequences: a set with the empty one, and with each the   *)
(* longer ones.                                                            *)
LEMMA LongerAndLonger ==
  ASSUME NEW X, NEW S, <<>> \in S,
         \A t \in Seq(X), x \in X : t \in S => Append(t, x) \in S
  PROVE  \A s \in Seq(X) : s \in S
PROOF
  <1> SUFFICES ASSUME NEW s \in Seq(X) PROVE s \in S
    OBVIOUS
  <1> DEFINE n == Len(s)
             upto(k) == SubSeq(s, 1, k)
             T == {k \in 0 .. n : upto(k) \in S}
  <1>1. n \in Nat /\ upto(n) = s /\ upto(0) = <<>>
    OBVIOUS
  <1>2. \A k \in 1 .. n : /\ upto(k) = Append(upto(k - 1), s[k])
                          /\ upto(k - 1) \in Seq(X) /\ s[k] \in X
    OBVIOUS
  <1>3. \A k \in 1 .. n : k - 1 \in T => k \in T
    <2> HIDE DEF upto
    <2>1. ASSUME NEW k \in 1 .. n, upto(k - 1) \in S
          PROVE  upto(k) \in S
      <3>1. upto(k - 1) \in Seq(X) /\ s[k] \in X
        BY <1>2
      <3>2. Append(upto(k - 1), s[k]) \in S
        BY <2>1, <3>1
      <3>3. QED
        BY <1>2, <3>2
    <2>2. QED
      BY <2>1
  <1>4. \A k \in 0 .. n : k \in T
    <2>1. 0 \in T
      <3>1. upto(0) \in S
        BY <1>1, Zenon
      <3> HIDE DEF upto
      <3>2. QED
        BY <1>1, <3>1
    <2> HIDE DEF T
    <2>2. QED
      BY <1>1, <1>3, <2>1, Adding!InductionTo
  <1>5. upto(n) \in S
    BY <1>1, <1>4
  <1>6. QED
    BY <1>1, <1>5

(* A sum goes through the numbers from left to right.                      *)
LEMMA SumTrace ==
  ASSUME NEW n \in Nat, NEW a \in [1 .. n -> Nat]
  PROVE  \E f \in [0 .. n -> Nat] : /\ f[0] = 0
                                    /\ \A i \in 1 .. n : f[i] = f[i - 1] + a[i]
                                    /\ SumOf(a) = f[n]
PROOF
  <1>1. SumOf(a) = Adding!Folded(0, a)
    BY DEF SumOf, FoldLeft, MapThenFoldSet, Adding!Folded, Adding!FoldLeft,
           Adding!MapThenFoldSet, Adding!Max, Max
  <1>2. PICK g : Adding!IsTrace(g, 0, a, n)
    <2>1. DOMAIN a = 1 .. n
      OBVIOUS
    <2>2. QED
      BY <2>1, Adding!FoldTrace
  <1>3. /\ g[0] = 0 /\ Adding!Folded(0, a) = g[n]
        /\ \A i \in 1 .. n : g[i] = g[i - 1] + a[i]
    BY <1>2 DEF Adding!IsTrace, Add
  <1> DEFINE S == {k \in 0 .. n : g[k] \in Nat}
             f == [k \in 0 .. n |-> g[k]]
  <1>4. \A k \in 0 .. n : g[k] \in Nat
    <2>1. 0 \in S
      BY <1>3
    <2>2. \A k \in 1 .. n : k - 1 \in S => k \in S
      BY <1>3
    <2>3. \A k \in 0 .. n : k \in S
      <3> HIDE DEF S
      <3>1. QED
        BY <2>1, <2>2, Adding!InductionTo
    <2>4. QED
      BY <2>3
  <1>5. f \in [0 .. n -> Nat] /\ f[0] = 0 /\ f[n] = g[n]
        /\ \A i \in 1 .. n : f[i] = f[i - 1] + a[i]
    BY <1>3, <1>4
  <1> HIDE DEF f
  <1>6. QED
    BY <1>1, <1>3, <1>5

(* Sums over the same places add up, and are 0 only if all numbers are.    *)
LEMMA SumOfSums ==
  ASSUME NEW n \in Nat, NEW a \in [1 .. n -> Nat], NEW b \in [1 .. n -> Nat],
         NEW c \in [1 .. n -> Nat], \A i \in 1 .. n : c[i] = a[i] + b[i]
  PROVE  SumOf(c) = SumOf(a) + SumOf(b)
PROOF
  <1>1. PICK f \in [0 .. n -> Nat] : /\ f[0] = 0 /\ SumOf(a) = f[n]
                                     /\ \A i \in 1 .. n : f[i] = f[i - 1] + a[i]
    BY SumTrace
  <1>2. PICK g \in [0 .. n -> Nat] : /\ g[0] = 0 /\ SumOf(b) = g[n]
                                     /\ \A i \in 1 .. n : g[i] = g[i - 1] + b[i]
    BY SumTrace
  <1>3. PICK h \in [0 .. n -> Nat] : /\ h[0] = 0 /\ SumOf(c) = h[n]
                                     /\ \A i \in 1 .. n : h[i] = h[i - 1] + c[i]
    BY SumTrace
  <1> DEFINE S == {k \in 0 .. n : h[k] = f[k] + g[k]}
  <1>4. 0 \in S
    BY <1>1, <1>2, <1>3
  <1>5. \A k \in 1 .. n : k - 1 \in S => k \in S
    <2>1. ASSUME NEW k \in 1 .. n, h[k - 1] = f[k - 1] + g[k - 1]
          PROVE  h[k] = f[k] + g[k]
      <3>1. k - 1 \in 0 .. n
        OBVIOUS
      <3>2. f[k - 1] \in Nat /\ g[k - 1] \in Nat /\ a[k] \in Nat /\ b[k] \in Nat
        BY <3>1
      <3>3. h[k] = h[k - 1] + c[k] /\ f[k] = f[k - 1] + a[k] /\ g[k] = g[k - 1] + b[k]
        BY <1>1, <1>2, <1>3
      <3>4. QED
        BY <2>1, <3>2, <3>3
    <2>2. QED
      BY <2>1
  <1>6. \A k \in 0 .. n : k \in S
    <2> HIDE DEF S
    <2>1. QED
      BY <1>4, <1>5, Adding!InductionTo
  <1>7. QED
    BY <1>1, <1>2, <1>3, <1>6

(* A sum is a number no smaller than any summand, and 0 if all of them     *)
(* are.                                                                    *)
LEMMA SumIsLarge ==
  ASSUME NEW n \in Nat, NEW a \in [1 .. n -> Nat]
  PROVE  /\ SumOf(a) \in Nat
         /\ \A i \in 1 .. n : a[i] <= SumOf(a)
         /\ (\A i \in 1 .. n : a[i] = 0) => SumOf(a) = 0
PROOF
  <1>1. PICK f \in [0 .. n -> Nat] : /\ f[0] = 0 /\ SumOf(a) = f[n]
                                     /\ \A i \in 1 .. n : f[i] = f[i - 1] + a[i]
    BY SumTrace
  <1> DEFINE Covers(k) == \A i \in 1 .. k : a[i] <= f[k]
             S == {k \in 0 .. n : Covers(k)}
             Z == {k \in 0 .. n : (\A i \in 1 .. n : a[i] = 0) => f[k] = 0}
  <1>2. \A k \in 0 .. n : k \in S
    <2>1. 0 \in S
      BY <1>1
    <2>2. \A k \in 1 .. n : k - 1 \in S => k \in S
      <3>1. ASSUME NEW k \in 1 .. n, Covers(k - 1)
            PROVE  Covers(k)
        <4>1. ASSUME NEW i \in 1 .. k
              PROVE  a[i] <= f[k]
          <5>1. f[k - 1] \in Nat /\ a[k] \in Nat /\ a[i] \in Nat /\ f[k] = f[k - 1] + a[k]
            BY <1>1
          <5>2. i # k => i \in 1 .. k - 1
            OBVIOUS
          <5>3. QED
            BY <3>1, <5>1, <5>2
        <4>2. QED
          BY <4>1
      <3> HIDE DEF Covers
      <3>2. QED
        BY <3>1
    <2> HIDE DEF S
    <2>3. QED
      BY <2>1, <2>2, Adding!InductionTo
  <1>3. \A k \in 0 .. n : k \in Z
    <2>1. 0 \in Z
      BY <1>1
    <2>2. \A k \in 1 .. n : k - 1 \in Z => k \in Z
      BY <1>1
    <2> HIDE DEF Z
    <2>3. QED
      BY <2>1, <2>2, Adding!InductionTo
  <1>4. QED
    BY <1>1, <1>2, <1>3

(* One number, and one number more.                                        *)
LEMMA SumMore ==
  ASSUME NEW n \in Nat, NEW a \in [1 .. n + 1 -> Nat]
  PROVE  SumOf(a) = SumOf([i \in 1 .. n |-> a[i]]) + a[n + 1]
PROOF
  <1> DEFINE fewer == [i \in 1 .. n |-> a[i]]
  <1>1. PICK f \in [0 .. n + 1 -> Nat] : /\ f[0] = 0 /\ SumOf(a) = f[n + 1]
                                         /\ \A i \in 1 .. n + 1 : f[i] = f[i - 1] + a[i]
    <2>1. n + 1 \in Nat
      OBVIOUS
    <2>2. QED
      BY <2>1, SumTrace
  <1>2. fewer \in [1 .. n -> Nat] /\ \A i \in 1 .. n : fewer[i] = a[i]
    OBVIOUS
  <1> HIDE DEF fewer
  <1>3. PICK g \in [0 .. n -> Nat] : /\ g[0] = 0 /\ SumOf(fewer) = g[n]
                                     /\ \A i \in 1 .. n : g[i] = g[i - 1] + fewer[i]
    BY <1>2, SumTrace
  <1> DEFINE S == {k \in 0 .. n : f[k] = g[k]}
  <1>4. \A k \in 0 .. n : k \in S
    <2>1. 0 \in S
      BY <1>1, <1>3
    <2>2. \A k \in 1 .. n : k - 1 \in S => k \in S
      BY <1>1, <1>2, <1>3
    <2> HIDE DEF S
    <2>3. QED
      BY <2>1, <2>2, Adding!InductionTo
  <1>5. f[n + 1] = f[n] + a[n + 1]
    <2>1. n + 1 \in 1 .. n + 1 /\ (n + 1) - 1 = n
      OBVIOUS
    <2>2. QED
      BY <1>1, <2>1
  <1>6. QED
    BY <1>1, <1>3, <1>4, <1>5 DEF fewer


-----------------------------------------------------------------------------
(* Weights: a function w gives each element a number, and a sequence of    *)
(* them weighs what its elements weigh together.                           *)
Weigh(w, s) == SumOf([i \in DOMAIN s |-> w[s[i]]])

(* A weight is a number no smaller than that of any element, and 0 if all  *)
(* of those are.                                                           *)
LEMMA WeighFacts ==
  ASSUME NEW X, NEW w \in [X -> Nat], NEW s \in Seq(X)
  PROVE  /\ Weigh(w, s) \in Nat
         /\ \A x \in Range(s) : w[x] <= Weigh(w, s)
         /\ (\A x \in Range(s) : w[x] = 0) => Weigh(w, s) = 0
PROOF
  <1> DEFINE n == Len(s)
             a == [i \in 1 .. n |-> w[s[i]]]
  <1>1. n \in Nat /\ DOMAIN s = 1 .. n /\ \A i \in 1 .. n : s[i] \in X
    OBVIOUS
  <1> HIDE DEF n
  <1>2. a \in [1 .. n -> Nat] /\ \A i \in 1 .. n : a[i] = w[s[i]]
    BY <1>1
  <1>3. Weigh(w, s) = SumOf(a)
    BY <1>1 DEF Weigh
  <1> HIDE DEF a
  <1>4. /\ SumOf(a) \in Nat
        /\ \A i \in 1 .. n : a[i] <= SumOf(a)
        /\ (\A i \in 1 .. n : a[i] = 0) => SumOf(a) = 0
    BY <1>1, <1>2, SumIsLarge
  <1>5. Range(s) = {s[i] : i \in 1 .. n}
    BY <1>1 DEF Range
  <1>6. QED
    BY <1>2, <1>3, <1>4, <1>5

(* Nothing weighs nothing.                                                 *)
LEMMA WeighNone ==
  ASSUME NEW w
  PROVE  Weigh(w, <<>>) = 0
PROOF
  <1>1. [i \in DOMAIN <<>> |-> w[<<>>[i]]] \in [1 .. 0 -> Nat]
    OBVIOUS
  <1> DEFINE a == [i \in DOMAIN <<>> |-> w[<<>>[i]]]
  <1> HIDE DEF a
  <1>2. a \in [1 .. 0 -> Nat] /\ 0 \in Nat
    BY <1>1 DEF a
  <1>3. \A i \in 1 .. 0 : a[i] = 0
    OBVIOUS
  <1>4. SumOf(a) = 0
    BY <1>2, <1>3, SumIsLarge, Zenon
  <1>5. QED
    BY <1>4 DEF a, Weigh

(* One more element adds its weight.                                       *)
LEMMA WeighMore ==
  ASSUME NEW X, NEW w \in [X -> Nat], NEW s \in Seq(X), NEW x \in X
  PROVE  Weigh(w, Append(s, x)) = Weigh(w, s) + w[x]
PROOF
  <1> DEFINE n == Len(s)
             a == [i \in 1 .. n |-> w[s[i]]]
             t == Append(s, x)
             b == [i \in 1 .. n + 1 |-> w[t[i]]]
  <1>1. /\ n \in Nat /\ DOMAIN s = 1 .. n /\ DOMAIN t = 1 .. n + 1
        /\ t[n + 1] = x /\ \A i \in 1 .. n : t[i] = s[i] /\ s[i] \in X
    OBVIOUS
  <1> HIDE DEF n, t
  <1>2. b \in [1 .. n + 1 -> Nat] /\ b[n + 1] = w[x] /\ \A i \in 1 .. n : b[i] = w[s[i]]
    <2>1. \A i \in 1 .. n + 1 : i \in 1 .. n \/ i = n + 1
      BY <1>1
    <2>2. \A i \in 1 .. n + 1 : t[i] \in X
      BY <1>1, <2>1
    <2>3. n + 1 \in 1 .. n + 1 /\ \A i \in 1 .. n : i \in 1 .. n + 1
      BY <1>1
    <2>4. QED
      BY <1>1, <2>2, <2>3
  <1>3. Weigh(w, t) = SumOf(b) /\ Weigh(w, s) = SumOf(a)
    BY <1>1 DEF Weigh
  <1> HIDE DEF b
  <1>4. [i \in 1 .. n |-> b[i]] = a
    BY <1>2
  <1>5. SumOf(b) = SumOf([i \in 1 .. n |-> b[i]]) + b[n + 1]
    BY <1>1, <1>2, SumMore
  <1> HIDE DEF a
  <1>6. QED
    BY <1>2, <1>3, <1>4, <1>5 DEF t

(* Two sequences in a row weigh what they weigh together.                  *)
LEMMA WeighJoin ==
  ASSUME NEW X, NEW w \in [X -> Nat], NEW s \in Seq(X), NEW t \in Seq(X)
  PROVE  Weigh(w, s \o t) = Weigh(w, s) + Weigh(w, t)
PROOF
  <1> DEFINE Joins(u) == Weigh(w, s \o u) = Weigh(w, s) + Weigh(w, u)
             S == {u \in Seq(X) : Joins(u)}
  <1>1. Joins(<<>>)
    <2>1. Weigh(w, s) \in Nat /\ Weigh(w, <<>>) = 0
      BY WeighFacts, WeighNone
    <2>2. s \o <<>> = s
      OBVIOUS
    <2>3. Weigh(w, s \o <<>>) = Weigh(w, s)
      BY <2>2, Zenon
    <2>4. QED
      BY <2>1, <2>3
  <1>2. ASSUME NEW u \in Seq(X), NEW x \in X, Joins(u)
        PROVE  Joins(Append(u, x))
    <2>1. s \o u \in Seq(X) /\ s \o Append(u, x) = Append(s \o u, x)
      OBVIOUS
    <2>2. /\ Weigh(w, Append(u, x)) = Weigh(w, u) + w[x]
          /\ Weigh(w, Append(s \o u, x)) = Weigh(w, s \o u) + w[x]
      BY <2>1, WeighMore
    <2>3. Weigh(w, u) \in Nat /\ Weigh(w, s) \in Nat /\ w[x] \in Nat
      BY WeighFacts
    <2>4. Weigh(w, s \o Append(u, x)) = Weigh(w, s \o u) + w[x]
      BY <2>1, <2>2, Zenon
    <2>5. QED
      BY <1>2, <2>2, <2>3, <2>4
  <1> HIDE DEF Joins
  <1>3. <<>> \in S /\ \A u \in Seq(X), x \in X : u \in S => Append(u, x) \in S
    BY <1>1, <1>2
  <1>4. \A u \in Seq(X) : u \in S
    <2> HIDE DEF S
    <2>1. QED
      BY <1>3, LongerAndLonger
  <1>5. Joins(t)
    BY <1>4
  <1>6. QED
    BY <1>5 DEF Joins

-----------------------------------------------------------------------------
(* Flattening goes through the parts from left to right. *)
LEMMA FlattenTrace ==
  ASSUME NEW T, NEW n \in Nat, NEW parts \in [1 .. n -> Seq(T)]
  PROVE  \E P \in [0 .. n -> Seq(T)] : /\ P[0] = <<>>
                                       /\ \A i \in 1 .. n : P[i] = P[i - 1] \o parts[i]
                                       /\ FlattenSeq(parts) = P[n]
PROOF
  <1>1. \A s, t : Cat(s, t) = s \o t
    BY DEF Cat
  <1>2. FlattenSeq(parts) = Catenation!FlattenSeq(parts)
    BY DEF FlattenSeq, Catenation!FlattenSeq
  <1>3. \E P \in [0 .. n -> Seq(T)] : /\ P[0] = <<>>
                                      /\ \A i \in 1 .. n : P[i] = P[i - 1] \o parts[i]
                                      /\ Catenation!FlattenSeq(parts) = P[n]
    BY <1>1, Catenation!FlattenTrace, Zenon
  <1>4. QED
    BY <1>2, <1>3, Zenon

(* What is in a flattened sequence, and what it weighs.                    *)
LEMMA FlattenOf ==
  ASSUME NEW T, NEW parts \in Seq(Seq(T))
  PROVE  /\ FlattenSeq(parts) \in Seq(T)
         /\ Range(FlattenSeq(parts)) = UNION {Range(parts[i]) : i \in DOMAIN parts}
PROOF
  <1> DEFINE n == Len(parts)
  <1>1. n \in Nat /\ DOMAIN parts = 1 .. n /\ parts \in [1 .. n -> Seq(T)]
    OBVIOUS
  <1> HIDE DEF n
  <1>2. PICK P \in [0 .. n -> Seq(T)] : /\ P[0] = <<>>
                                        /\ \A i \in 1 .. n : P[i] = P[i - 1] \o parts[i]
                                        /\ FlattenSeq(parts) = P[n]
    BY <1>1, FlattenTrace
  <1> DEFINE Upto(k) == UNION {Range(parts[i]) : i \in 1 .. k}
             S == {k \in 0 .. n : Range(P[k]) = Upto(k)}
  <1>3. 0 \in S
    <2>1. Range(P[0]) = {} /\ Upto(0) = {}
      BY <1>2 DEF Range
    <2>2. QED
      BY <1>1, <2>1
  <1>4. \A k \in 1 .. n : k - 1 \in S => k \in S
    <2>1. ASSUME NEW k \in 1 .. n, Range(P[k - 1]) = Upto(k - 1)
          PROVE  Range(P[k]) = Upto(k)
      <3>1. P[k] = P[k - 1] \o parts[k] /\ P[k - 1] \in Seq(T) /\ parts[k] \in Seq(T)
        <4>1. k - 1 \in 0 .. n /\ k \in 1 .. n
          BY <1>1
        <4>2. P[k - 1] \in Seq(T) /\ parts[k] \in Seq(T)
          BY <1>1, <4>1
        <4>3. QED
          BY <1>2, <4>2
      <3>2. Range(P[k]) = Range(P[k - 1]) \cup Range(parts[k])
        BY <3>1, RangeConcatenation
      <3>3. Upto(k) = Upto(k - 1) \cup Range(parts[k])
        <4>1. 1 .. k = (1 .. k - 1) \cup {k}
          BY <1>1
        <4>2. QED
          BY <4>1
      <3>4. QED
        BY <2>1, <3>2, <3>3
    <2> HIDE DEF Upto
    <2>2. QED
      BY <2>1
  <1>5. \A k \in 0 .. n : k \in S
    <2> HIDE DEF S
    <2>1. QED
      BY <1>1, <1>3, <1>4, Adding!InductionTo
  <1>6. n \in S /\ P[n] \in Seq(T)
    BY <1>1, <1>5
  <1>7. QED
    BY <1>1, <1>2, <1>6

(* Nothing flattened is nothing.                                           *)
LEMMA FlattenNone == FlattenSeq(<<>>) = <<>>
PROOF
  BY DEF FlattenSeq

(* One more part is joined on at the end.                                  *)
LEMMA FlattenMore ==
  ASSUME NEW T, NEW parts \in Seq(Seq(T)), NEW part \in Seq(T)
  PROVE  FlattenSeq(Append(parts, part)) = FlattenSeq(parts) \o part
PROOF
  <1> DEFINE n == Len(parts)
             more == Append(parts, part)
  <1>1. /\ n \in Nat /\ parts \in [1 .. n -> Seq(T)] /\ more \in [1 .. n + 1 -> Seq(T)]
        /\ more[n + 1] = part /\ \A i \in 1 .. n : more[i] = parts[i]
    <2> DEFINE Q == Seq(T)
    <2>1. parts \in Seq(Q) /\ part \in Q
      OBVIOUS
    <2> HIDE DEF Q
    <2>2. /\ n \in Nat /\ DOMAIN parts = 1 .. n /\ \A i \in 1 .. n : parts[i] \in Q
          /\ parts \in [1 .. n -> Q]
      BY <2>1
    <2>3. /\ DOMAIN more = 1 .. n + 1 /\ more[n + 1] = part
          /\ \A i \in 1 .. n : more[i] = parts[i]
      BY <2>1
    <2>4. more \in Seq(Q) /\ Len(more) = n + 1
      BY <2>1
    <2> HIDE DEF n, more
    <2>5. more \in [1 .. n + 1 -> Q]
      BY <2>4
    <2>6. QED
      BY <2>2, <2>3, <2>5 DEF Q
  <1> HIDE DEF n, more
  <1>2. PICK P \in [0 .. n + 1 -> Seq(T)] :
              /\ P[0] = <<>>
              /\ \A i \in 1 .. n + 1 : P[i] = P[i - 1] \o more[i]
              /\ FlattenSeq(more) = P[n + 1]
    <2>1. n + 1 \in Nat
      BY <1>1
    <2>2. QED
      BY <1>1, <2>1, FlattenTrace
  <1>3. PICK Q \in [0 .. n -> Seq(T)] : /\ Q[0] = <<>>
                                        /\ \A i \in 1 .. n : Q[i] = Q[i - 1] \o parts[i]
                                        /\ FlattenSeq(parts) = Q[n]
    BY <1>1, FlattenTrace
  <1> DEFINE S == {k \in 0 .. n : P[k] = Q[k]}
  <1>4. 0 \in S
    BY <1>1, <1>2, <1>3
  <1>5. \A k \in 1 .. n : k - 1 \in S => k \in S
    <2>1. ASSUME NEW k \in 1 .. n, P[k - 1] = Q[k - 1]
          PROVE  P[k] = Q[k]
      <3>1. k \in 1 .. n + 1
        BY <1>1
      <3>2. P[k] = P[k - 1] \o more[k] /\ Q[k] = Q[k - 1] \o parts[k] /\ more[k] = parts[k]
        BY <1>1, <1>2, <1>3, <3>1
      <3>3. QED
        BY <2>1, <3>2, Zenon
    <2>2. QED
      BY <2>1
  <1>6. \A k \in 0 .. n : k \in S
    <2> HIDE DEF S
    <2>1. QED
      BY <1>1, <1>4, <1>5, Adding!InductionTo
  <1>7. P[n] = Q[n]
    BY <1>1, <1>6
  <1>8. P[n + 1] = P[n] \o part
    <2>1. (n + 1) - 1 = n /\ n + 1 \in 1 .. n + 1
      BY <1>1
    <2>2. P[n + 1] = P[(n + 1) - 1] \o more[n + 1]
      BY <1>2, <2>1
    <2>3. QED
      BY <1>1, <2>1, <2>2, Zenon
  <1>9. FlattenSeq(more) = FlattenSeq(parts) \o part
    BY <1>2, <1>3, <1>7, <1>8, Zenon
  <1>10. QED
    BY <1>9, Zenon DEF more

-----------------------------------------------------------------------------
(* A function of the elements of a sequence, all along it, and the         *)
(* sequence of all that a function to sequences has for them: ch is what   *)
(* the nodes of a tree have below them.                                    *)
Along(g, s) == [i \in DOMAIN s |-> g[s[i]]]

Under(ch, s) == FlattenSeq(Along(ch, s))

AllUnder(ch, s) == UNION {Range(ch[x]) : x \in Range(s)}

(* Along a sequence there is one image for each element, at its place.     *)
LEMMA AlongFacts ==
  ASSUME NEW X, NEW Y, NEW g \in [X -> Y], NEW s \in Seq(X)
  PROVE  /\ Along(g, s) \in Seq(Y) /\ Len(Along(g, s)) = Len(s)
         /\ DOMAIN Along(g, s) = DOMAIN s /\ \A i \in DOMAIN s : Along(g, s)[i] = g[s[i]]
         /\ Range(Along(g, s)) = {g[x] : x \in Range(s)}
PROOF
  BY DEF Along, Range

(* One more element has its image at the end.                              *)
LEMMA AlongMore ==
  ASSUME NEW X, NEW Y, NEW g \in [X -> Y], NEW s \in Seq(X), NEW x \in X
  PROVE  Along(g, Append(s, x)) = Append(Along(g, s), g[x])
PROOF
  <1> DEFINE t == Append(s, x)
             a == Along(g, s)
             b == Append(a, g[x])
             n == Len(s)
  <1>1. a \in Seq(Y) /\ Len(a) = n /\ \A i \in DOMAIN s : a[i] = g[s[i]]
    BY DEF Along
  <1>2. n \in Nat /\ DOMAIN s = 1 .. n /\ DOMAIN t = 1 .. n + 1 /\ t[n + 1] = x
        /\ \A i \in 1 .. n : t[i] = s[i]
    OBVIOUS
  <1> HIDE DEF a, t
  <1>3. b \in Seq(Y) /\ Len(b) = n + 1 /\ b[n + 1] = g[x] /\ \A i \in 1 .. n : b[i] = a[i]
    BY <1>1
  <1> HIDE DEF b, n
  <1>4. b = [i \in 1 .. n + 1 |-> g[t[i]]]
    <2>1. \A i \in 1 .. n + 1 : b[i] = g[t[i]]
      <3>1. \A i \in 1 .. n + 1 : i \in 1 .. n \/ i = n + 1
        BY <1>2
      <3>2. \A i \in 1 .. n : b[i] = g[t[i]]
        BY <1>1, <1>2, <1>3
      <3>3. QED
        BY <1>2, <1>3, <3>1, <3>2
    <2>2. b = [i \in 1 .. Len(b) |-> b[i]]
      BY <1>3
    <2>3. QED
      BY <1>3, <2>1, <2>2
  <1>5. QED
    BY <1>2, <1>4, Zenon DEF Along, t, b, a

(* To append to two sequences in a row is to append to the second.         *)
AppendLaw(T) ==
    \A s, t \in Seq(T), x \in T : Append(s \o t, x) = s \o Append(t, x)

(* That is so over every set.                                              *)
LEMMA AppendLast ==
  ASSUME NEW T
  PROVE  AppendLaw(T)
PROOF
  BY DEF AppendLaw

(* What Along does with sequences in a row and with one element, and the   *)
(* length and the elements of what it gives.                               *)
AlongLaws(X, Y, g) ==
    /\ \A s \in Seq(X) : Along(g, s) \in Seq(Y)
    /\ \A s \in Seq(X), x \in X : Along(g, Append(s, x)) = Append(Along(g, s), g[x])
    /\ \A s, t \in Seq(X) : Along(g, s \o t) = Along(g, s) \o Along(g, t)
    /\ \A s \in Seq(X) : Len(Along(g, s)) = Len(s)
    /\ \A s \in Seq(X) : DOMAIN Along(g, s) = DOMAIN s
    /\ \A s \in Seq(X) : \A i \in DOMAIN s : Along(g, s)[i] = g[s[i]]

(* It does so for every function.                                          *)
LEMMA AlongJoins ==
  ASSUME NEW X, NEW Y, NEW g \in [X -> Y]
  PROVE  AlongLaws(X, Y, g)
PROOF
  <1>1. ASSUME NEW s \in Seq(X)
        PROVE  Along(g, s) \in Seq(Y)
    BY AlongFacts
  <1>2. ASSUME NEW s \in Seq(X), NEW x \in X
        PROVE  Along(g, Append(s, x)) = Append(Along(g, s), g[x])
    BY AlongMore
  <1>3. ASSUME NEW s \in Seq(X), NEW t \in Seq(X)
        PROVE  Along(g, s \o t) = Along(g, s) \o Along(g, t)
    <2> DEFINE Joins(u) == Along(g, s \o u) = Along(g, s) \o Along(g, u)
               J == {u \in Seq(X) : Joins(u)}
    <2>1. Joins(<<>>)
      <3>1. s \o <<>> = s /\ Along(g, <<>>) = <<>>
        BY DEF Along
      <3>2. Along(g, s) \o <<>> = Along(g, s)
        BY <1>1
      <3>3. QED
        BY <3>1, <3>2, Zenon
    <2>2. ASSUME NEW u \in Seq(X), NEW x \in X, Joins(u)
          PROVE  Joins(Append(u, x))
      <3> DEFINE a == Along(g, s)
                 b == Along(g, u)
                 y == g[x]
      <3>1. s \o u \in Seq(X) /\ s \o Append(u, x) = Append(s \o u, x)
        OBVIOUS
      <3>2. Along(g, Append(s \o u, x)) = Append(Along(g, s \o u), y)
        BY <1>2, <3>1
      <3>3. Along(g, Append(u, x)) = Append(b, y)
        BY <1>2
      <3>4. a \in Seq(Y) /\ b \in Seq(Y) /\ y \in Y
        BY <1>1
      <3>5. Along(g, s \o u) = a \o b
        BY <2>2
      <3> HIDE DEF a, b, y, J, Joins
      <3>6. Append(a \o b, y) = a \o Append(b, y)
        <4>1. AppendLaw(Y)
          BY AppendLast
        <4>2. QED
          BY <3>4, <4>1, Zenon DEF AppendLaw
      <3>7. Along(g, s \o Append(u, x)) = a \o Along(g, Append(u, x))
        BY <3>1, <3>2, <3>3, <3>5, <3>6, Zenon
      <3>8. QED
        BY <3>7, Zenon DEF a, Joins
    <2> HIDE DEF Joins
    <2>3. <<>> \in J /\ \A u \in Seq(X), x \in X : u \in J => Append(u, x) \in J
      BY <2>1, <2>2
    <2>4. \A u \in Seq(X) : u \in J
      <3> HIDE DEF J
      <3>1. QED
        BY <2>3, LongerAndLonger
    <2>5. Joins(t)
      BY <2>4
    <2>6. QED
      BY <2>5 DEF Joins
  <1>4. ASSUME NEW s \in Seq(X)
        PROVE  /\ Len(Along(g, s)) = Len(s)
               /\ DOMAIN Along(g, s) = DOMAIN s
               /\ \A i \in DOMAIN s : Along(g, s)[i] = g[s[i]]
    BY DEF Along
  <1>5. QED
    BY <1>1, <1>2, <1>3, <1>4, Zenon DEF AlongLaws

(* There is nothing under nothing.                                         *)
LEMMA UnderNone ==
  ASSUME NEW ch
  PROVE  Under(ch, <<>>) = <<>>
PROOF
  <1>1. [i \in DOMAIN <<>> |-> ch[<<>>[i]]] = <<>>
    OBVIOUS
  <1>2. QED
    BY <1>1, FlattenNone DEF Under, Along

(* Under a sequence there is what its elements have, and nothing else.     *)
LEMMA UnderFacts ==
  ASSUME NEW X, NEW Y, NEW ch \in [X -> Seq(Y)], NEW s \in Seq(X)
  PROVE  /\ Under(ch, s) \in Seq(Y)
         /\ Range(Under(ch, s)) = AllUnder(ch, s)
PROOF
  <1> DEFINE parts == Along(ch, s)
  <1>1. parts \in Seq(Seq(Y)) /\ DOMAIN parts = DOMAIN s
        /\ \A i \in DOMAIN s : parts[i] = ch[s[i]]
    <2> DEFINE Q == Seq(Y)
    <2> HIDE DEF Q
    <2>1. ch \in [X -> Q]
      BY DEF Q
    <2>2. Along(ch, s) \in Seq(Q) /\ DOMAIN Along(ch, s) = DOMAIN s
          /\ \A i \in DOMAIN s : Along(ch, s)[i] = ch[s[i]]
      BY <2>1 DEF Along
    <2>3. QED
      BY <2>2, Zenon DEF Q
  <1> HIDE DEF parts
  <1>2. FlattenSeq(parts) \in Seq(Y)
        /\ Range(FlattenSeq(parts)) = UNION {Range(parts[i]) : i \in DOMAIN parts}
    BY <1>1, FlattenOf
  <1>3. UNION {Range(parts[i]) : i \in DOMAIN parts} = UNION {Range(ch[s[i]]) : i \in DOMAIN s}
    BY <1>1
  <1>4. UNION {Range(ch[s[i]]) : i \in DOMAIN s} = AllUnder(ch, s)
    <2>1. Range(s) = {s[i] : i \in DOMAIN s}
      BY DEF Range
    <2>2. QED
      BY <2>1, Zenon DEF AllUnder
  <1>5. QED
    BY <1>2, <1>3, <1>4, Zenon DEF Under, parts

(* One more element has what is under it at the end.                       *)
LEMMA UnderMore ==
  ASSUME NEW X, NEW Y, NEW ch \in [X -> Seq(Y)], NEW s \in Seq(X), NEW x \in X
  PROVE  Under(ch, Append(s, x)) = Under(ch, s) \o ch[x]
PROOF
  <1>1. Along(ch, Append(s, x)) = Append(Along(ch, s), ch[x])
    BY AlongMore
  <1>2. Along(ch, s) \in Seq(Seq(Y)) /\ ch[x] \in Seq(Y)
    BY AlongFacts
  <1>3. FlattenSeq(Append(Along(ch, s), ch[x])) = FlattenSeq(Along(ch, s)) \o ch[x]
    BY <1>2, FlattenMore
  <1>4. QED
    BY <1>1, <1>3, Zenon DEF Under

(* Under one element there is what it has.                                 *)
LEMMA UnderOne ==
  ASSUME NEW X, NEW Y, NEW ch \in [X -> Seq(Y)], NEW x \in X
  PROVE  Under(ch, <<x>>) = ch[x]
PROOF
  <1>1. <<x>> = Append(<<>>, x) /\ <<>> \in Seq(X) /\ ch[x] \in Seq(Y)
    OBVIOUS
  <1>2. Under(ch, Append(<<>>, x)) = Under(ch, <<>>) \o ch[x]
    BY <1>1, UnderMore
  <1>3. <<>> \o ch[x] = ch[x]
    BY <1>1
  <1>4. QED
    BY <1>1, <1>2, <1>3, UnderNone, Zenon

(* Under two sequences in a row there is what is under each, in a row.     *)
LEMMA UnderJoins ==
  ASSUME NEW X, NEW Y, NEW ch \in [X -> Seq(Y)], NEW s \in Seq(X), NEW t \in Seq(X)
  PROVE  Under(ch, s \o t) = Under(ch, s) \o Under(ch, t)
PROOF
  <1> DEFINE Joins(u) == Under(ch, s \o u) = Under(ch, s) \o Under(ch, u)
             S == {u \in Seq(X) : Joins(u)}
  <1>1. Joins(<<>>)
    <2>1. Under(ch, s) \in Seq(Y)
      BY UnderFacts
    <2>2. s \o <<>> = s /\ Under(ch, s) \o <<>> = Under(ch, s)
      BY <2>1
    <2>3. QED
      BY <2>2, UnderNone, Zenon
  <1>2. ASSUME NEW u \in Seq(X), NEW x \in X, Joins(u)
        PROVE  Joins(Append(u, x))
    <2> DEFINE a == Under(ch, s)
               b == Under(ch, u)
               c == ch[x]
    <2>1. s \o u \in Seq(X) /\ s \o Append(u, x) = Append(s \o u, x)
      OBVIOUS
    <2>2. Under(ch, Append(s \o u, x)) = Under(ch, s \o u) \o c
      BY <2>1, UnderMore
    <2>3. Under(ch, Append(u, x)) = b \o c
      BY UnderMore
    <2>4. a \in Seq(Y) /\ b \in Seq(Y) /\ c \in Seq(Y)
      BY UnderFacts
    <2>5. Under(ch, s \o u) = a \o b
      BY <1>2
    <2> HIDE DEF a, b, c
    <2>6. (a \o b) \o c = a \o (b \o c)
      BY <2>4
    <2>7. Under(ch, s \o Append(u, x)) = a \o Under(ch, Append(u, x))
      BY <2>1, <2>2, <2>3, <2>5, <2>6, Zenon
    <2>8. QED
      BY <2>7, Zenon DEF a
  <1> HIDE DEF Joins
  <1>3. <<>> \in S /\ \A u \in Seq(X), x \in X : u \in S => Append(u, x) \in S
    BY <1>1, <1>2
  <1>4. \A u \in Seq(X) : u \in S
    <2> HIDE DEF S
    <2>1. QED
      BY <1>3, LongerAndLonger
  <1>5. Joins(t)
    BY <1>4
  <1>6. QED
    BY <1>5 DEF Joins

(* These facts together, for one function to sequences.                    *)
UnderLaws(X, Y, ch) ==
    /\ \A s \in Seq(X) : Under(ch, s) \in Seq(Y)
    /\ \A s \in Seq(X) : Range(Under(ch, s)) = AllUnder(ch, s)
    /\ \A s, t \in Seq(X) : Under(ch, s \o t) = Under(ch, s) \o Under(ch, t)
    /\ \A x \in X : Under(ch, <<x>>) = ch[x]

(* They hold for every such function.                                      *)
LEMMA UnderRules ==
  ASSUME NEW X, NEW Y, NEW ch \in [X -> Seq(Y)]
  PROVE  UnderLaws(X, Y, ch)
PROOF
  <1>1. ASSUME NEW s \in Seq(X)
        PROVE  /\ Under(ch, s) \in Seq(Y)
               /\ Range(Under(ch, s)) = AllUnder(ch, s)
    BY UnderFacts
  <1>2. ASSUME NEW s \in Seq(X), NEW t \in Seq(X)
        PROVE  Under(ch, s \o t) = Under(ch, s) \o Under(ch, t)
    BY UnderJoins
  <1>3. ASSUME NEW x \in X
        PROVE  Under(ch, <<x>>) = ch[x]
    BY UnderOne
  <1>4. QED
    BY <1>1, <1>2, <1>3, Zenon DEF UnderLaws

(* What is below weighs what each element has below it.                    *)
LEMMA UnderWeighs ==
  ASSUME NEW X, NEW ch \in [X -> Seq(X)], NEW w \in [X -> Nat], NEW u \in [X -> Nat],
         \A x \in X : u[x] = Weigh(w, ch[x])
  PROVE  \A s \in Seq(X) : Weigh(w, Under(ch, s)) = Weigh(u, s)
PROOF
  <1> DEFINE Same(s) == Weigh(w, Under(ch, s)) = Weigh(u, s)
             S == {s \in Seq(X) : Same(s)}
  <1>1. Same(<<>>)
    BY UnderNone, WeighNone, Zenon
  <1>2. ASSUME NEW s \in Seq(X), NEW x \in X, Same(s)
        PROVE  Same(Append(s, x))
    <2>1. Under(ch, s) \in Seq(X) /\ ch[x] \in Seq(X)
      BY UnderFacts
    <2>2. Under(ch, Append(s, x)) = Under(ch, s) \o ch[x]
      BY UnderMore
    <2>3. Weigh(w, Under(ch, s) \o ch[x]) = Weigh(w, Under(ch, s)) + Weigh(w, ch[x])
      BY <2>1, WeighJoin
    <2>4. Weigh(u, Append(s, x)) = Weigh(u, s) + u[x]
      BY WeighMore
    <2>5. Weigh(w, Under(ch, Append(s, x))) = Weigh(w, Under(ch, s)) + Weigh(w, ch[x])
      BY <2>2, <2>3, Zenon
    <2>6. QED
      BY <1>2, <2>4, <2>5
  <1> HIDE DEF Same
  <1>3. <<>> \in S /\ \A s \in Seq(X), x \in X : s \in S => Append(s, x) \in S
    BY <1>1, <1>2
  <1>4. \A s \in Seq(X) : s \in S
    <2> HIDE DEF S
    <2>1. QED
      BY <1>3, LongerAndLonger
  <1>5. QED
    BY <1>4 DEF Same

(* Weights that add up for the elements add up for a sequence of them.     *)
LEMMA WeighTogether ==
  ASSUME NEW X, NEW u \in [X -> Nat], NEW v \in [X -> Nat], NEW w \in [X -> Nat],
         NEW s \in Seq(X), \A x \in Range(s) : w[x] = u[x] + v[x]
  PROVE  Weigh(w, s) = Weigh(u, s) + Weigh(v, s)
PROOF
  <1> DEFINE n == Len(s)
             a == [i \in 1 .. n |-> u[s[i]]]
             b == [i \in 1 .. n |-> v[s[i]]]
             c == [i \in 1 .. n |-> w[s[i]]]
  <1>1. n \in Nat /\ DOMAIN s = 1 .. n /\ \A i \in 1 .. n : s[i] \in X /\ s[i] \in Range(s)
    BY DEF Range
  <1> HIDE DEF n
  <1>2. a \in [1 .. n -> Nat] /\ b \in [1 .. n -> Nat] /\ c \in [1 .. n -> Nat]
    BY <1>1
  <1>3. \A i \in 1 .. n : c[i] = a[i] + b[i]
    BY <1>1
  <1>4. Weigh(u, s) = SumOf(a) /\ Weigh(v, s) = SumOf(b) /\ Weigh(w, s) = SumOf(c)
    BY <1>1 DEF Weigh
  <1> HIDE DEF a, b, c
  <1>5. SumOf(c) = SumOf(a) + SumOf(b)
    BY <1>1, <1>2, <1>3, SumOfSums
  <1>6. QED
    BY <1>4, <1>5

(* Weights that agree on the elements of a sequence agree on it.           *)
LEMMA WeighAlike ==
  ASSUME NEW X, NEW u \in [X -> Nat], NEW w \in [X -> Nat], NEW s \in Seq(X),
         \A x \in Range(s) : w[x] = u[x]
  PROVE  Weigh(w, s) = Weigh(u, s)
PROOF
  <1>1. \A i \in DOMAIN s : s[i] \in Range(s)
    BY DEF Range
  <1>2. [i \in DOMAIN s |-> w[s[i]]] = [i \in DOMAIN s |-> u[s[i]]]
    BY <1>1
  <1>3. QED
    BY <1>2, Zenon DEF Weigh

(* Going down first and looking at the elements then is the same as the    *)
(* other way round, for trees that look alike.                             *)
LooksAlike(X, ch, dh, g) == \A x \in X : dh[g[x]] = Along(g, ch[x])

SameBelow(X, ch, dh, g) == \A s \in Seq(X) : Under(dh, Along(g, s)) = Along(g, Under(ch, s))

(* One step down keeps the likeness of two trees.                          *)
LEMMA UnderAlike ==
  ASSUME NEW X, NEW Y, NEW ch \in [X -> Seq(X)], NEW dh \in [Y -> Seq(Y)],
         NEW g \in [X -> Y], LooksAlike(X, ch, dh, g)
  PROVE  SameBelow(X, ch, dh, g)
PROOF
  <1> DEFINE Same(s) == Under(dh, Along(g, s)) = Along(g, Under(ch, s))
             S == {s \in Seq(X) : Same(s)}
  <1>1. AlongLaws(X, Y, g)
    BY AlongJoins, Zenon
  <1>2. Same(<<>>)
    <2>1. Along(g, <<>>) = <<>>
      BY DEF Along
    <2>2. QED
      BY <2>1, UnderNone, Zenon
  <1>3. ASSUME NEW s \in Seq(X), NEW x \in X, Same(s)
        PROVE  Same(Append(s, x))
    <2>1. Under(ch, s) \in Seq(X) /\ ch[x] \in Seq(X) /\ g[x] \in Y
      BY UnderFacts
    <2>2. Along(g, s) \in Seq(Y) /\ Along(g, Append(s, x)) = Append(Along(g, s), g[x])
      BY <1>1, Zenon DEF AlongLaws
    <2>3. Under(dh, Append(Along(g, s), g[x])) = Under(dh, Along(g, s)) \o dh[g[x]]
      BY <2>1, <2>2, UnderMore
    <2>4. Under(ch, Append(s, x)) = Under(ch, s) \o ch[x]
      BY UnderMore
    <2>5. Along(g, Under(ch, s) \o ch[x]) = Along(g, Under(ch, s)) \o Along(g, ch[x])
      BY <1>1, <2>1, Zenon DEF AlongLaws
    <2>6. Under(dh, Along(g, s)) = Along(g, Under(ch, s)) /\ dh[g[x]] = Along(g, ch[x])
      BY <1>3 DEF LooksAlike
    <2>7. QED
      BY <2>2, <2>3, <2>4, <2>5, <2>6, Zenon
  <1> HIDE DEF Same
  <1>4. <<>> \in S /\ \A s \in Seq(X), x \in X : s \in S => Append(s, x) \in S
    BY <1>2, <1>3
  <1>5. \A s \in Seq(X) : s \in S
    <2> HIDE DEF S
    <2>1. QED
      BY <1>4, LongerAndLonger
  <1>6. QED
    BY <1>5 DEF Same, SameBelow

-----------------------------------------------------------------------------
(* Going down a tree: f[d] is what is at depth d below f[0].               *)
Descends(X, ch, f) == \A d \in Nat : f[d] \in Seq(X) /\ f[d + 1] = Under(ch, f[d])

(* All of it down to some depth, which DownTo puts in one sequence.        *)
DownLaws(X, f) ==
    /\ DownTo(f, 0) = f[0]
    /\ \A d \in Nat : /\ DownTo(f, d) \in Seq(X)
                      /\ DownTo(f, d + 1) = DownTo(f, d) \o f[d + 1]
                      /\ Range(DownTo(f, d)) = UNION {Range(f[i]) : i \in 0 .. d}

(* They hold for every sequence of levels: the next level is joined on at  *)
(* the end.                                                                *)
LEMMA DownToMore ==
  ASSUME NEW X, NEW f, \A d \in Nat : f[d] \in Seq(X)
  PROVE  DownLaws(X, f)
PROOF
  <1> DEFINE parts(n) == [i \in 1 .. n |-> f[i - 1]]
  <1>1. ASSUME NEW n \in Nat
        PROVE  /\ parts(n) \in Seq(Seq(X)) /\ DOMAIN parts(n) = 1 .. n
               /\ parts(n + 1) = Append(parts(n), f[n])
    <2> DEFINE Q == Seq(X)
               more == parts(n + 1)
    <2>1. \A d \in Nat : f[d] \in Q
      OBVIOUS
    <2> HIDE DEF Q
    <2>2. \A i \in 1 .. n + 1 : i - 1 \in Nat
      OBVIOUS
    <2>3. parts(n) \in Seq(Q) /\ Len(parts(n)) = n /\ DOMAIN parts(n) = 1 .. n
      BY <2>1
    <2>4. more \in Seq(Q) /\ Len(more) = n + 1 /\ more[n + 1] = f[n]
          /\ \A i \in 1 .. n : more[i] = parts(n)[i]
      <3>1. n + 1 \in Nat /\ (n + 1) - 1 = n /\ n + 1 \in 1 .. n + 1
        OBVIOUS
      <3>2. \A i \in 1 .. n : i \in 1 .. n + 1
        OBVIOUS
      <3>3. QED
        BY <2>1, <2>2, <3>1, <3>2
    <2>5. more = Append(parts(n), f[n])
      <3> DEFINE p == parts(n)
                 x == f[n]
      <3> HIDE DEF more, p, x
      <3>1. p \in Seq(Q) /\ Len(p) = n /\ x \in Q /\ more \in Seq(Q) /\ Len(more) = n + 1
            /\ more[n + 1] = x /\ \A i \in 1 .. n : more[i] = p[i]
        BY <2>1, <2>3, <2>4 DEF p, x
      <3>2. more = Append(p, x)
        BY <3>1
      <3>3. QED
        BY <3>2 DEF p, x
    <2>6. QED
      BY <2>3, <2>5 DEF Q
  <1>2. ASSUME NEW d \in Nat
        PROVE  DownTo(f, d) = FlattenSeq(parts(d + 1))
    BY DEF DownTo
  <1>3. DownTo(f, 0) = f[0]
    <2>1. parts(1) = <<f[0]>>
      OBVIOUS
    <2>2. FlattenSeq(Append(<<>>, f[0])) = FlattenSeq(<<>>) \o f[0]
      <3>1. f[0] \in Seq(X) /\ <<>> \in Seq(Seq(X))
        OBVIOUS
      <3>2. QED
        BY <3>1, FlattenMore
    <2>3. Append(<<>>, f[0]) = <<f[0]>> /\ <<>> \o f[0] = f[0]
      OBVIOUS
    <2> HIDE DEF parts
    <2>4. DownTo(f, 0) = FlattenSeq(parts(1))
      <3>1. 0 \in Nat /\ 0 + 1 = 1
        OBVIOUS
      <3>2. QED
        BY <1>2, <3>1
    <2>5. QED
      BY <2>1, <2>2, <2>3, <2>4, FlattenNone, Zenon
  <1>4. ASSUME NEW d \in Nat
        PROVE  DownTo(f, d) \in Seq(X) /\ DownTo(f, d + 1) = DownTo(f, d) \o f[d + 1]
    <2>1. parts(d + 1) \in Seq(Seq(X)) /\ parts((d + 1) + 1) = Append(parts(d + 1), f[d + 1])
      BY <1>1
    <2>2. f[d + 1] \in Seq(X) /\ d + 1 \in Nat
      OBVIOUS
    <2> HIDE DEF parts
    <2>3. DownTo(f, d) = FlattenSeq(parts(d + 1))
          /\ DownTo(f, d + 1) = FlattenSeq(parts((d + 1) + 1))
      BY <1>2, <2>2
    <2>4. FlattenSeq(parts(d + 1)) \in Seq(X)
          /\ FlattenSeq(Append(parts(d + 1), f[d + 1])) = FlattenSeq(parts(d + 1)) \o f[d + 1]
      BY <2>1, <2>2, FlattenMore, FlattenOf
    <2>5. QED
      BY <2>1, <2>3, <2>4, Zenon
  <1>5. ASSUME NEW d \in Nat
        PROVE  Range(DownTo(f, d)) = UNION {Range(f[i]) : i \in 0 .. d}
    <2>1. parts(d + 1) \in Seq(Seq(X)) /\ DOMAIN parts(d + 1) = 1 .. d + 1
      BY <1>1
    <2>2. Range(FlattenSeq(parts(d + 1))) = UNION {Range(parts(d + 1)[i]) : i \in 1 .. d + 1}
      <3> HIDE DEF parts
      <3>1. QED
        BY <2>1, FlattenOf
    <2>3. {Range(parts(d + 1)[i]) : i \in 1 .. d + 1} = {Range(f[i]) : i \in 0 .. d}
      <3>1. \A i \in 1 .. d + 1 : parts(d + 1)[i] = f[i - 1] /\ i - 1 \in 0 .. d
        OBVIOUS
      <3>2. \A i \in 0 .. d : i + 1 \in 1 .. d + 1 /\ (i + 1) - 1 = i
        OBVIOUS
      <3> HIDE DEF parts
      <3>3. QED
        BY <3>1, <3>2
    <2>4. QED
      BY <1>2, <2>2, <2>3, Zenon
  <1>6. QED
    BY <1>3, <1>4, <1>5, Zenon DEF DownLaws

-----------------------------------------------------------------------------
(* What a node and all below it weigh, of what is no deeper than H: dep is *)
(* how deep a node is.                                                     *)
IsDepth(X, ch, dep) == \A x \in X : \A y \in Range(ch[x]) : dep[y] = dep[x] + 1

AtDepth(dep, s, e) == \A x \in Range(s) : dep[x] = e

IsRest(rho, X, ch, w, dep, H) ==
    \A x \in X : rho[x] = IF dep[x] > H THEN 0 ELSE w[x] + Weigh(rho, ch[x])

(* There is such a weight: it is built from depth H upwards, where nothing *)
(* counts below.                                                           *)
LEMMA RestExists ==
  ASSUME NEW X, NEW ch \in [X -> Seq(X)], NEW w \in [X -> Nat],
         NEW dep \in [X -> Nat], IsDepth(X, ch, dep), NEW H \in Nat
  PROVE  \E rho \in [X -> Nat] : IsRest(rho, X, ch, w, dep, H)
PROOF
  <1> DEFINE Here(rho, x) == IF dep[x] > H THEN 0 ELSE w[x] + Weigh(rho, ch[x])
             Right(rho, k) == \A x \in X : dep[x] >= (H + 1) - k => rho[x] = Here(rho, x)
             S == {k \in 0 .. H + 1 : \E rho \in [X -> Nat] : Right(rho, k)}
  <1>1. 0 \in S
    <2> DEFINE zero == [x \in X |-> 0]
    <2>1. zero \in [X -> Nat] /\ Right(zero, 0)
      OBVIOUS
    <2> HIDE DEF zero, Right
    <2>2. QED
      BY <2>1
  <1>2. ASSUME NEW k \in 1 .. H + 1, NEW rho \in [X -> Nat], Right(rho, k - 1)
        PROVE  \E more \in [X -> Nat] : Right(more, k)
    <2> DEFINE more == [x \in X |-> IF dep[x] = (H + 1) - k THEN w[x] + Weigh(rho, ch[x])
                                    ELSE rho[x]]
    <2>1. \A x \in X : Weigh(rho, ch[x]) \in Nat
      BY WeighFacts
    <2>2. more \in [X -> Nat]
      BY <2>1
    <2>3. ASSUME NEW x \in X, dep[x] >= (H + 1) - k
          PROVE  Weigh(more, ch[x]) = Weigh(rho, ch[x])
      <3>1. ASSUME NEW y \in Range(ch[x])
            PROVE  more[y] = rho[y]
        <4>1. y \in X
          BY DEF Range
        <4>2. dep[y] = dep[x] + 1
          BY DEF IsDepth
        <4>3. dep[y] # (H + 1) - k /\ dep[x] \in Nat
          BY <2>3, <4>2
        <4>4. QED
          BY <4>1, <4>3
      <3> HIDE DEF more
      <3>2. ch[x] \in Seq(X)
        OBVIOUS
      <3>3. QED
        BY <2>2, <3>1, <3>2, WeighAlike
    <2>4. ASSUME NEW x \in X, dep[x] >= (H + 1) - k
          PROVE  more[x] = Here(more, x)
      <3>1. Weigh(more, ch[x]) = Weigh(rho, ch[x])
        BY <2>3, <2>4
      <3>2. dep[x] \in Nat
        OBVIOUS
      <3>3. CASE dep[x] = (H + 1) - k
        <4>1. more[x] = w[x] + Weigh(rho, ch[x]) /\ ~(dep[x] > H)
          BY <3>3
        <4> HIDE DEF more
        <4>2. QED
          BY <3>1, <4>1
      <3>4. CASE dep[x] # (H + 1) - k
        <4>1. more[x] = rho[x] /\ dep[x] >= (H + 1) - (k - 1)
          <5>1. more[x] = rho[x]
            BY <3>4
          <5>2. dep[x] >= (H + 1) - k /\ k \in Nat
            BY <2>4
          <5> DEFINE dx == dep[x]
          <5>3. dx \in Nat /\ dx >= (H + 1) - k /\ dx # (H + 1) - k
            BY <3>2, <3>4, <5>2
          <5> HIDE DEF dx
          <5>4. dx >= (H + 1) - (k - 1)
            BY <5>2, <5>3
          <5> HIDE DEF more
          <5>5. QED
            BY <5>1, <5>4 DEF dx
        <4>2. rho[x] = Here(rho, x)
          BY <1>2, <4>1
        <4> HIDE DEF more
        <4>3. QED
          BY <3>1, <4>1, <4>2
      <3>5. QED
        BY <3>3, <3>4
    <2> HIDE DEF more, Here
    <2>5. QED
      BY <2>2, <2>4
  <1>3. \A k \in 0 .. H + 1 : k \in S
    <2> HIDE DEF Right
    <2>1. \A k \in 1 .. H + 1 : k - 1 \in S => k \in S
      BY <1>2
    <2>2. H + 1 \in Nat
      OBVIOUS
    <2> HIDE DEF S
    <2>3. QED
      BY <1>1, <2>1, <2>2, Adding!InductionTo
  <1>4. PICK rho \in [X -> Nat] : Right(rho, H + 1)
    <2>1. H + 1 \in 0 .. H + 1
      OBVIOUS
    <2> HIDE DEF Right
    <2>2. QED
      BY <1>3, <2>1
  <1>5. IsRest(rho, X, ch, w, dep, H)
    <2>1. \A x \in X : dep[x] >= (H + 1) - (H + 1)
      OBVIOUS
    <2>2. \A x \in X : rho[x] = Here(rho, x)
      BY <1>4, <2>1
    <2>3. QED
      BY <2>2 DEF IsRest
  <1>6. QED
    BY <1>5

(* Level by level it is the same.                                          *)
LEMMA DepthsGrow ==
  ASSUME NEW X, NEW ch \in [X -> Seq(X)], NEW dep \in [X -> Nat], IsDepth(X, ch, dep),
         NEW f, Descends(X, ch, f), NEW e \in Nat, AtDepth(dep, f[0], e)
  PROVE  \A d \in Nat : AtDepth(dep, f[d], e + d)
PROOF
  <1> DEFINE Deep(d) == AtDepth(dep, f[d], e + d)
  <1>1. Deep(0)
    <2>1. e + 0 = e
      OBVIOUS
    <2>2. QED
      BY <2>1, Zenon
  <1>2. ASSUME NEW d \in Nat, Deep(d)
        PROVE  Deep(d + 1)
    <2> DEFINE s == f[d]
               t == f[d + 1]
    <2>1. s \in Seq(X) /\ t = Under(ch, s) /\ AtDepth(dep, s, e + d)
      BY <1>2 DEF Descends
    <2> HIDE DEF s, t
    <2>2. Range(s) \subseteq X /\ Range(Under(ch, s)) = AllUnder(ch, s)
      <3>1. UnderLaws(X, X, ch) /\ Range(s) \subseteq X
        BY <2>1, UnderRules, RangeWithin
      <3>2. QED
        BY <2>1, <3>1, Zenon DEF UnderLaws
    <2>3. ASSUME NEW x \in Range(s), NEW y \in Range(ch[x])
          PROVE  dep[y] = e + (d + 1)
      <3>1. x \in X /\ dep[x] = e + d /\ dep[y] = dep[x] + 1
        BY <2>1, <2>2 DEF IsDepth, AtDepth
      <3>2. QED
        BY <3>1
    <2>4. AtDepth(dep, t, e + (d + 1))
      BY <2>1, <2>2, <2>3, Zenon DEF AtDepth, AllUnder
    <2>5. QED
      BY <2>4 DEF t
  <1>3. ASSUME NEW n \in Nat
        PROVE  Deep(n)
    <2> DEFINE S == {d \in 0 .. n : Deep(d)}
    <2>1. 0 \in S
      BY <1>1
    <2>2. \A d \in 1 .. n : d - 1 \in S => d \in S
      <3> HIDE DEF Deep
      <3>1. \A d \in 1 .. n : d - 1 \in Nat /\ (d - 1) + 1 = d
        OBVIOUS
      <3>2. QED
        BY <1>2, <3>1
    <2>3. \A d \in 0 .. n : d \in S
      <3> HIDE DEF S
      <3>1. QED
        BY <2>1, <2>2, Adding!InductionTo
    <2> HIDE DEF Deep
    <2>4. QED
      BY <2>3
  <1>4. QED
    BY <1>3

(* All there is from some depth on down to H, level by level, weighs what  *)
(* the rests of the first level weigh.                                     *)
RestLaw(rho, X, ch, w, dep, H) ==
    \A f : Descends(X, ch, f) =>
       \A e \in 0 .. H : AtDepth(dep, f[0], e) => Weigh(w, DownTo(f, H - e)) = Weigh(rho, f[0])

(* Counting a tree level by level comes to the same as adding up, at the   *)
(* top, each node's own weight and that of all below it.                   *)
LEMMA RestWeighs ==
  ASSUME NEW X, NEW ch \in [X -> Seq(X)], NEW w \in [X -> Nat],
         NEW dep \in [X -> Nat], IsDepth(X, ch, dep), NEW H \in Nat,
         NEW rho \in [X -> Nat], IsRest(rho, X, ch, w, dep, H)
  PROVE  RestLaw(rho, X, ch, w, dep, H)
PROOF
  <1> SUFFICES ASSUME NEW f, Descends(X, ch, f), NEW e \in 0 .. H, AtDepth(dep, f[0], e)
               PROVE  Weigh(w, DownTo(f, H - e)) = Weigh(rho, f[0])
    BY DEF RestLaw
  <1>1. \A d \in Nat : f[d] \in Seq(X) /\ f[d + 1] = Under(ch, f[d])
    BY DEF Descends
  <1>2. \A d \in Nat : AtDepth(dep, f[d], e + d)
    <2>1. e \in Nat
      OBVIOUS
    <2>2. QED
      BY <2>1, DepthsGrow, Zenon
  <1>3. ASSUME NEW d \in Nat, d <= H - e
        PROVE  /\ Weigh(rho, f[d]) = Weigh(w, f[d]) + Weigh(rho, f[d + 1])
               /\ Weigh(w, f[d]) \in Nat /\ Weigh(rho, f[d]) \in Nat /\ Weigh(rho, f[d + 1]) \in Nat
    <2> DEFINE u == [x \in X |-> Weigh(rho, ch[x])]
    <2>1. \A x \in X : Weigh(rho, ch[x]) \in Nat
      BY WeighFacts
    <2>2. u \in [X -> Nat] /\ \A x \in X : u[x] = Weigh(rho, ch[x])
      BY <2>1
    <2> HIDE DEF u
    <2>3. Weigh(rho, Under(ch, f[d])) = Weigh(u, f[d])
      BY <1>1, <2>2, UnderWeighs
    <2>4. ASSUME NEW x \in Range(f[d])
          PROVE  rho[x] = w[x] + u[x]
      <3>1. x \in X /\ dep[x] = e + d
        <4>1. f[d] \in Seq(X) /\ dep[x] = e + d
          BY <1>1, <1>2 DEF AtDepth
        <4>2. QED
          BY <4>1, RangeWithin
      <3>2. ~(dep[x] > H)
        BY <1>3, <3>1
      <3>3. QED
        BY <2>2, <3>1, <3>2 DEF IsRest
    <2>5. Weigh(rho, f[d]) = Weigh(w, f[d]) + Weigh(u, f[d])
      <3>1. f[d] \in Seq(X)
        BY <1>1
      <3>2. QED
        BY <2>2, <2>4, <3>1, WeighTogether
    <2>6. Weigh(w, f[d]) \in Nat /\ Weigh(rho, f[d]) \in Nat /\ Weigh(rho, f[d + 1]) \in Nat
      <3>1. f[d] \in Seq(X) /\ f[d + 1] \in Seq(X)
        <4>1. d + 1 \in Nat
          OBVIOUS
        <4>2. QED
          BY <1>1, <4>1, Zenon
      <3>2. QED
        BY <3>1, WeighFacts
    <2>7. Weigh(rho, f[d + 1]) = Weigh(u, f[d])
      BY <1>1, <2>3, Zenon
    <2>8. QED
      BY <2>5, <2>6, <2>7
  <1> DEFINE h == H - e
             So(d) == Weigh(w, DownTo(f, d)) + Weigh(rho, f[d + 1]) = Weigh(rho, f[0])
             S == {d \in 0 .. h : So(d)}
  <1>4. h \in Nat
    OBVIOUS
  <1>5. /\ DownTo(f, 0) = f[0]
        /\ \A d \in Nat : /\ DownTo(f, d) \in Seq(X)
                          /\ DownTo(f, d + 1) = DownTo(f, d) \o f[d + 1]
    <2>1. DownLaws(X, f)
      BY <1>1, DownToMore
    <2>2. QED
      BY <2>1, Zenon DEF DownLaws
  <1>6. So(0)
    <2>1. Weigh(rho, f[0]) = Weigh(w, f[0]) + Weigh(rho, f[0 + 1])
      BY <1>3, <1>4
    <2>2. QED
      BY <1>5, <2>1
  <1>7. ASSUME NEW d \in 1 .. h, So(d - 1)
        PROVE  So(d)
    <2>1. d - 1 \in Nat /\ (d - 1) + 1 = d /\ d \in Nat /\ d <= H - e
      BY <1>4
    <2>2. Weigh(rho, f[d]) = Weigh(w, f[d]) + Weigh(rho, f[d + 1])
          /\ Weigh(w, f[d]) \in Nat /\ Weigh(rho, f[d]) \in Nat /\ Weigh(rho, f[d + 1]) \in Nat
      BY <1>3, <2>1
    <2>3. DownTo(f, d - 1) \in Seq(X) /\ DownTo(f, d) = DownTo(f, d - 1) \o f[d] /\ f[d] \in Seq(X)
      <3>1. DownTo(f, (d - 1) + 1) = DownTo(f, d - 1) \o f[(d - 1) + 1]
        BY <1>5, <2>1
      <3>2. QED
        BY <1>1, <1>5, <2>1, <3>1, Zenon
    <2>4. Weigh(w, DownTo(f, d - 1) \o f[d]) = Weigh(w, DownTo(f, d - 1)) + Weigh(w, f[d])
      BY <2>3, WeighJoin
    <2>5. Weigh(w, DownTo(f, d)) = Weigh(w, DownTo(f, d - 1)) + Weigh(w, f[d])
      BY <2>3, <2>4, Zenon
    <2>6. Weigh(w, DownTo(f, d - 1)) \in Nat
      BY <2>3, WeighFacts
    <2>7. Weigh(w, DownTo(f, d - 1)) + Weigh(rho, f[d]) = Weigh(rho, f[0])
      BY <1>7, <2>1
    <2>8. QED
      BY <2>2, <2>5, <2>6, <2>7
  <1>8. So(h)
    <2> HIDE DEF So, h
    <2>1. 0 \in S /\ \A d \in 1 .. h : d - 1 \in S => d \in S
      BY <1>4, <1>6, <1>7
    <2>2. \A d \in 0 .. h : d \in S
      <3> HIDE DEF S
      <3>1. QED
        BY <1>4, <2>1, Adding!InductionTo
    <2>3. QED
      BY <1>4, <2>2
  <1>9. Weigh(rho, f[h + 1]) = 0
    <2>1. ASSUME NEW x \in Range(f[h + 1])
          PROVE  rho[x] = 0
      <3>1. h + 1 \in Nat /\ e + (h + 1) > H
        BY <1>4
      <3>2. x \in X /\ dep[x] = e + (h + 1)
        <4>1. f[h + 1] \in Seq(X) /\ \A y \in Range(f[h + 1]) : dep[y] = e + (h + 1)
          BY <1>1, <1>2, <3>1 DEF AtDepth
        <4>2. QED
          BY <4>1, RangeWithin
      <3>3. QED
        BY <3>1, <3>2 DEF IsRest
    <2>2. f[h + 1] \in Seq(X)
      BY <1>1, <1>4
    <2>3. QED
      BY <2>1, <2>2, WeighFacts
  <1>10. Weigh(w, DownTo(f, h)) \in Nat
    BY <1>4, <1>5, WeighFacts
  <1>11. QED
    BY <1>8, <1>9, <1>10

-----------------------------------------------------------------------------
(* Trees that look alike do so at every depth.                             *)
Alike(g, f, h) == \A d \in Nat : h[d] = Along(g, f[d])

(* Trees that look alike at the top and from each node to the next look    *)
(* alike at every depth.                                                   *)
LEMMA LevelsAlike ==
  ASSUME NEW X, NEW Y, NEW ch \in [X -> Seq(X)], NEW dh \in [Y -> Seq(Y)],
         NEW g \in [X -> Y], LooksAlike(X, ch, dh, g),
         NEW f, Descends(X, ch, f), NEW h, Descends(Y, dh, h), h[0] = Along(g, f[0])
  PROVE  Alike(g, f, h)
PROOF
  <1> DEFINE So(d) == h[d] = Along(g, f[d])
  <1>1. SameBelow(X, ch, dh, g)
    BY UnderAlike
  <1>2. ASSUME NEW d \in Nat, So(d)
        PROVE  So(d + 1)
    <2>1. f[d] \in Seq(X) /\ f[d + 1] = Under(ch, f[d]) /\ h[d + 1] = Under(dh, h[d])
      BY DEF Descends
    <2>2. Under(dh, Along(g, f[d])) = Along(g, Under(ch, f[d]))
      BY <1>1, <2>1, Zenon DEF SameBelow
    <2>3. QED
      BY <1>2, <2>1, <2>2, Zenon
  <1>3. ASSUME NEW n \in Nat
        PROVE  So(n)
    <2> DEFINE S == {d \in 0 .. n : So(d)}
    <2>1. 0 \in S
      OBVIOUS
    <2>2. \A d \in 1 .. n : d - 1 \in S => d \in S
      <3> HIDE DEF So
      <3>1. \A d \in 1 .. n : d - 1 \in Nat /\ (d - 1) + 1 = d
        OBVIOUS
      <3>2. QED
        BY <1>2, <3>1
    <2>3. \A d \in 0 .. n : d \in S
      <3> HIDE DEF S
      <3>1. QED
        BY <2>1, <2>2, Adding!InductionTo
    <2> HIDE DEF So
    <2>4. QED
      BY <2>3
  <1>4. QED
    BY <1>3 DEF Alike

-----------------------------------------------------------------------------
(* A part of a tree is a part at every depth: what is below s is part of   *)
(* what is below t.                                                        *)
IsPart(X, s, t) == \E a, b \in Seq(X) : t = (a \o s) \o b

(* What is below a part is a part of what is below the whole.              *)
LEMMA PartBelow ==
  ASSUME NEW X, NEW ch \in [X -> Seq(X)], NEW s \in Seq(X), NEW t \in Seq(X), IsPart(X, s, t)
  PROVE  IsPart(X, Under(ch, s), Under(ch, t))
PROOF
  <1>1. PICK a \in Seq(X), b \in Seq(X) : t = (a \o s) \o b
    BY DEF IsPart
  <1>2. UnderLaws(X, X, ch)
    BY UnderRules
  <1>3. a \o s \in Seq(X)
    OBVIOUS
  <1>4. /\ Under(ch, (a \o s) \o b) = Under(ch, a \o s) \o Under(ch, b)
        /\ Under(ch, a \o s) = Under(ch, a) \o Under(ch, s)
        /\ Under(ch, a) \in Seq(X) /\ Under(ch, b) \in Seq(X)
    BY <1>2, <1>3, Zenon DEF UnderLaws
  <1>5. Under(ch, t) = (Under(ch, a) \o Under(ch, s)) \o Under(ch, b)
    BY <1>1, <1>4, Zenon
  <1>6. QED
    BY <1>4, <1>5, Zenon DEF IsPart

(* A part weighs no more than the whole, and has none but its elements.    *)
LEMMA PartWeighs ==
  ASSUME NEW X, NEW s \in Seq(X), NEW t \in Seq(X), IsPart(X, s, t)
  PROVE  /\ \A w \in [X -> Nat] : Weigh(w, s) <= Weigh(w, t)
         /\ t = <<>> => s = <<>>
         /\ Range(s) \subseteq Range(t)
PROOF
  <1>1. PICK a \in Seq(X), b \in Seq(X) : t = (a \o s) \o b
    BY DEF IsPart
  <1>2. a \o s \in Seq(X)
    OBVIOUS
  <1>3. ASSUME NEW w \in [X -> Nat]
        PROVE  Weigh(w, s) <= Weigh(w, t)
    <2>1. Weigh(w, a \o s) = Weigh(w, a) + Weigh(w, s)
      BY WeighJoin
    <2>2. Weigh(w, (a \o s) \o b) = Weigh(w, a \o s) + Weigh(w, b)
      BY <1>2, WeighJoin
    <2>3. Weigh(w, a) \in Nat /\ Weigh(w, s) \in Nat /\ Weigh(w, b) \in Nat
      BY WeighFacts
    <2>4. Weigh(w, t) = Weigh(w, a \o s) + Weigh(w, b)
      BY <1>1, <2>2, Zenon
    <2>5. QED
      BY <2>1, <2>3, <2>4
  <1>4. Range(t) = (Range(a) \cup Range(s)) \cup Range(b)
    <2>1. Range((a \o s) \o b) = Range(a \o s) \cup Range(b)
      BY <1>2, RangeConcatenation
    <2>2. Range(a \o s) = Range(a) \cup Range(s)
      BY RangeConcatenation
    <2>3. QED
      BY <1>1, <2>1, <2>2, Zenon
  <1>5. t = <<>> => s = <<>>
    <2>1. Len(t) = (Len(a) + Len(s)) + Len(b) /\ Len(a) \in Nat /\ Len(b) \in Nat /\ Len(s) \in Nat
      BY <1>1, <1>2
    <2>2. Len(s) = 0 => s = <<>>
      OBVIOUS
    <2>3. QED
      BY <2>1, <2>2
  <1>6. QED
    BY <1>3, <1>4, <1>5

(* A part of level e has parts of the levels further down below it.        *)
LEMMA PartsBelow ==
  ASSUME NEW X, NEW ch \in [X -> Seq(X)], NEW f, NEW h, Descends(X, ch, f), Descends(X, ch, h),
         NEW e \in Nat, IsPart(X, h[0], f[e])
  PROVE  \A d \in Nat : IsPart(X, h[d], f[e + d])
PROOF
  <1> DEFINE Part(d) == IsPart(X, h[d], f[e + d])
  <1>1. Part(0)
    <2>1. e + 0 = e
      OBVIOUS
    <2>2. QED
      BY <2>1, Zenon
  <1>2. ASSUME NEW d \in Nat, Part(d)
        PROVE  Part(d + 1)
    <2>1. e + d \in Nat /\ (e + d) + 1 = e + (d + 1)
      OBVIOUS
    <2>2. /\ f[e + d] \in Seq(X) /\ h[d] \in Seq(X)
          /\ f[(e + d) + 1] = Under(ch, f[e + d]) /\ h[d + 1] = Under(ch, h[d])
      BY <2>1, Zenon DEF Descends
    <2> DEFINE s == h[d]
               t == f[e + d]
    <2>3. IsPart(X, s, t) /\ s \in Seq(X) /\ t \in Seq(X)
      BY <1>2, <2>2
    <2> HIDE DEF s, t
    <2>4. IsPart(X, Under(ch, s), Under(ch, t))
      BY <2>3, PartBelow
    <2>5. QED
      BY <2>1, <2>2, <2>4, Zenon DEF s, t
  <1>3. ASSUME NEW n \in Nat
        PROVE  Part(n)
    <2> DEFINE S == {d \in 0 .. n : Part(d)}
    <2>1. 0 \in S
      <3> HIDE DEF Part
      <3>1. QED
        BY <1>1
    <2>2. \A d \in 1 .. n : d - 1 \in S => d \in S
      <3> HIDE DEF Part
      <3>1. \A d \in 1 .. n : d - 1 \in Nat /\ (d - 1) + 1 = d
        OBVIOUS
      <3>2. QED
        BY <1>2, <3>1
    <2>3. \A d \in 0 .. n : d \in S
      <3> HIDE DEF S
      <3>1. QED
        BY <2>1, <2>2, Adding!InductionTo
    <2> HIDE DEF Part
    <2>4. QED
      BY <2>3
  <1>4. QED
    BY <1>3

(* So a part of a tree weighs no more, down to any depth.                  *)
LEMMA PartIsLighter ==
  ASSUME NEW X, NEW ch \in [X -> Seq(X)], NEW f, NEW h, Descends(X, ch, f), Descends(X, ch, h),
         NEW e \in Nat, IsPart(X, h[0], f[e]), NEW w \in [X -> Nat]
  PROVE  \A d \in Nat : Weigh(w, DownTo(h, d)) <= Weigh(w, DownTo(f, e + d))
PROOF
  <1>1. \A d \in Nat : IsPart(X, h[d], f[e + d])
    BY PartsBelow
  <1>2. DownLaws(X, f) /\ DownLaws(X, h) /\ \A d \in Nat : f[d] \in Seq(X) /\ h[d] \in Seq(X)
    <2>1. \A d \in Nat : f[d] \in Seq(X) /\ h[d] \in Seq(X)
      BY DEF Descends
    <2>2. QED
      BY <2>1, DownToMore
  <1>3. ASSUME NEW d \in Nat
        PROVE  /\ DownTo(f, d) \in Seq(X) /\ DownTo(h, d) \in Seq(X)
               /\ DownTo(f, d + 1) = DownTo(f, d) \o f[d + 1]
               /\ DownTo(h, d + 1) = DownTo(h, d) \o h[d + 1]
    BY <1>2, Zenon DEF DownLaws
  <1>4. ASSUME NEW d \in Nat
        PROVE  /\ Weigh(w, h[d]) <= Weigh(w, f[e + d])
               /\ Weigh(w, h[d]) \in Nat /\ Weigh(w, f[e + d]) \in Nat
    <2> DEFINE s == h[d]
               t == f[e + d]
    <2>1. s \in Seq(X) /\ t \in Seq(X) /\ IsPart(X, s, t)
      <3>1. e + d \in Nat
        OBVIOUS
      <3>2. s \in Seq(X) /\ t \in Seq(X)
        BY <1>2, <3>1, Zenon
      <3>3. QED
        BY <1>1, <3>2, Zenon
    <2> HIDE DEF s, t
    <2>2. Weigh(w, s) <= Weigh(w, t) /\ Weigh(w, s) \in Nat /\ Weigh(w, t) \in Nat
      BY <2>1, PartWeighs, WeighFacts
    <2>3. QED
      BY <2>2 DEF s, t
  <1> DEFINE Lighter(d) == Weigh(w, DownTo(h, d)) <= Weigh(w, DownTo(f, e + d))
  <1>5. ASSUME NEW d \in Nat
        PROVE  Weigh(w, f[d]) <= Weigh(w, DownTo(f, d)) /\ Weigh(w, DownTo(f, d)) \in Nat
    <2>1. CASE d = 0
      <3>1. DownTo(f, d) = f[d] /\ f[d] \in Seq(X)
        BY <1>2, <2>1, Zenon DEF DownLaws
      <3>2. Weigh(w, f[d]) \in Nat
        BY <3>1, WeighFacts
      <3>3. QED
        BY <3>1, <3>2
    <2>2. CASE d # 0
      <3>1. d - 1 \in Nat /\ (d - 1) + 1 = d
        BY <2>2
      <3>2. DownTo(f, d) = DownTo(f, d - 1) \o f[d] /\ DownTo(f, d - 1) \in Seq(X)
            /\ f[d] \in Seq(X)
        BY <1>2, <1>3, <3>1
      <3>3. Weigh(w, DownTo(f, d - 1) \o f[d]) = Weigh(w, DownTo(f, d - 1)) + Weigh(w, f[d])
        BY <3>2, WeighJoin
      <3>4. Weigh(w, DownTo(f, d - 1)) \in Nat /\ Weigh(w, f[d]) \in Nat
        BY <3>2, WeighFacts
      <3>5. Weigh(w, DownTo(f, d)) = Weigh(w, DownTo(f, d - 1)) + Weigh(w, f[d])
        BY <3>2, <3>3, Zenon
      <3>6. QED
        BY <3>4, <3>5
    <2>3. QED
      BY <2>1, <2>2
  <1>6. Lighter(0)
    <2>1. DownTo(h, 0) = h[0]
      BY <1>2, Zenon DEF DownLaws
    <2>2. Weigh(w, h[0]) <= Weigh(w, f[e]) /\ Weigh(w, h[0]) \in Nat /\ Weigh(w, f[e]) \in Nat
      <3>1. e + 0 = e /\ 0 \in Nat
        OBVIOUS
      <3>2. QED
        BY <1>4, <3>1
    <2>3. Weigh(w, f[e]) <= Weigh(w, DownTo(f, e)) /\ Weigh(w, DownTo(f, e)) \in Nat
      BY <1>5
    <2>4. e + 0 = e
      OBVIOUS
    <2>5. QED
      BY <2>1, <2>2, <2>3, <2>4
  <1>7. ASSUME NEW d \in Nat, Lighter(d)
        PROVE  Lighter(d + 1)
    <2>1. d + 1 \in Nat /\ e + d \in Nat /\ (e + d) + 1 = e + (d + 1)
      OBVIOUS
    <2>2. /\ DownTo(h, d) \in Seq(X) /\ h[d + 1] \in Seq(X)
          /\ DownTo(f, e + d) \in Seq(X) /\ f[e + (d + 1)] \in Seq(X)
          /\ DownTo(h, d + 1) = DownTo(h, d) \o h[d + 1]
          /\ DownTo(f, e + (d + 1)) = DownTo(f, e + d) \o f[e + (d + 1)]
      <3>1. /\ DownTo(h, d) \in Seq(X) /\ h[d + 1] \in Seq(X)
            /\ DownTo(h, d + 1) = DownTo(h, d) \o h[d + 1]
        BY <1>2, <1>3, <2>1, Zenon
      <3>2. /\ DownTo(f, e + d) \in Seq(X) /\ f[(e + d) + 1] \in Seq(X)
            /\ DownTo(f, (e + d) + 1) = DownTo(f, e + d) \o f[(e + d) + 1]
        <4>1. (e + d) + 1 \in Nat
          OBVIOUS
        <4>2. QED
          BY <1>2, <1>3, <2>1, <4>1, Zenon
      <3>3. QED
        BY <2>1, <3>1, <3>2, Zenon
    <2>3. /\ Weigh(w, DownTo(h, d) \o h[d + 1]) = Weigh(w, DownTo(h, d)) + Weigh(w, h[d + 1])
          /\ Weigh(w, DownTo(f, e + d) \o f[e + (d + 1)])
                = Weigh(w, DownTo(f, e + d)) + Weigh(w, f[e + (d + 1)])
      BY <2>2, WeighJoin
    <2>4. /\ Weigh(w, DownTo(h, d + 1)) = Weigh(w, DownTo(h, d)) + Weigh(w, h[d + 1])
          /\ Weigh(w, DownTo(f, e + (d + 1)))
                = Weigh(w, DownTo(f, e + d)) + Weigh(w, f[e + (d + 1)])
      BY <2>2, <2>3, Zenon
    <2>5. /\ Weigh(w, h[d + 1]) <= Weigh(w, f[e + (d + 1)])
          /\ Weigh(w, h[d + 1]) \in Nat /\ Weigh(w, f[e + (d + 1)]) \in Nat
      BY <1>4, <2>1
    <2>6. Weigh(w, DownTo(h, d)) \in Nat /\ Weigh(w, DownTo(f, e + d)) \in Nat
      BY <2>2, WeighFacts
    <2>7. QED
      BY <1>7, <2>4, <2>5, <2>6
  <1> HIDE DEF Lighter
  <1>8. ASSUME NEW n \in Nat
        PROVE  Lighter(n)
    <2> DEFINE S == {d \in 0 .. n : Lighter(d)}
    <2>1. \A d \in 1 .. n : d - 1 \in Nat /\ (d - 1) + 1 = d
      OBVIOUS
    <2>2. 0 \in S /\ \A d \in 1 .. n : d - 1 \in S => d \in S
      BY <1>6, <1>7, <2>1
    <2>3. \A d \in 0 .. n : d \in S
      <3> HIDE DEF S
      <3>1. QED
        BY <2>2, Adding!InductionTo
    <2>4. QED
      BY <2>3
  <1>9. QED
    BY <1>8 DEF Lighter

-----------------------------------------------------------------------------
(* The nodes with one of F at them or below them.                          *)
ClosedUp(X, ch, F, B) ==
    F \subseteq B /\ \A x \in X : (\E y \in Range(ch[x]) : y \in B) => x \in B

Tainted(X, ch, F) == {x \in X : \A B \in SUBSET X : ClosedUp(X, ch, F, B) => x \in B}

(* A node is tainted when it is in F or something right below it is        *)
(* tainted: the least set with F that is closed upwards is a fixed point.  *)
LEMMA TaintedFrom ==
  ASSUME NEW X, NEW ch \in [X -> Seq(X)], NEW F \in SUBSET X, NEW x \in X
  PROVE  x \in Tainted(X, ch, F) <=> x \in F \/ \E y \in Range(ch[x]) : y \in Tainted(X, ch, F)
PROOF
  <1> DEFINE T == Tainted(X, ch, F)
  <1>1. \A z \in X : z \in T <=> \A B \in SUBSET X : ClosedUp(X, ch, F, B) => z \in B
    BY DEF Tainted
  <1>2. T \subseteq X
    BY DEF Tainted
  <1> HIDE DEF T
  <1>3. \A z \in X : Range(ch[z]) \subseteq X
    BY RangeWithin
  <1>4. ClosedUp(X, ch, F, T)
    <2>1. F \subseteq T
      BY <1>1 DEF ClosedUp
    <2>2. ASSUME NEW z \in X, NEW y \in Range(ch[z]), y \in T
          PROVE  z \in T
      <3>1. \A B \in SUBSET X : ClosedUp(X, ch, F, B) => y \in B
        BY <1>1, <1>3, <2>2
      <3>2. \A B \in SUBSET X : ClosedUp(X, ch, F, B) => z \in B
        BY <3>1 DEF ClosedUp
      <3>3. QED
        BY <1>1, <3>2
    <2>3. QED
      BY <2>1, <2>2 DEF ClosedUp
  <1>5. x \in F \/ (\E y \in Range(ch[x]) : y \in T) => x \in T
    BY <1>4 DEF ClosedUp
  <1>6. ASSUME x \in T, x \notin F, \A y \in Range(ch[x]) : y \notin T
        PROVE  FALSE
    <2> DEFINE B == T \ {x}
    <2>1. ClosedUp(X, ch, F, B)
      <3>1. F \subseteq B
        BY <1>4, <1>6 DEF ClosedUp
      <3>2. \A z \in X : (\E y \in Range(ch[z]) : y \in B) => z \in B
        BY <1>4, <1>6 DEF ClosedUp
      <3>3. QED
        BY <3>1, <3>2 DEF ClosedUp
    <2>2. B \in SUBSET X /\ x \notin B
      BY <1>2
    <2>3. QED
      BY <1>1, <1>6, <2>1, <2>2
  <1>7. QED
    BY <1>5, <1>6 DEF T

(* There is one of F at some depth exactly when a node at the top is       *)
(* tainted.                                                                *)
LEMMA TaintedLevels ==
  ASSUME NEW X, NEW ch \in [X -> Seq(X)], NEW F \in SUBSET X, NEW f, Descends(X, ch, f)
  PROVE  (\E d \in Nat : \E x \in Range(f[d]) : x \in F)
            <=> \E x \in Range(f[0]) : x \in Tainted(X, ch, F)
PROOF
  <1> DEFINE T == Tainted(X, ch, F)
             Some(d) == \E x \in Range(f[d]) : x \in T
  <1>1. ASSUME NEW d \in Nat
        PROVE  /\ Range(f[d]) \subseteq X
               /\ \A y : y \in Range(f[d + 1]) <=> \E x \in Range(f[d]) : y \in Range(ch[x])
    <2> DEFINE s == f[d]
    <2>1. s \in Seq(X) /\ f[d + 1] = Under(ch, s)
      BY DEF Descends
    <2> HIDE DEF s
    <2>2. UnderLaws(X, X, ch) /\ Range(s) \subseteq X
      BY <2>1, UnderRules, RangeWithin
    <2>3. Range(Under(ch, s)) = AllUnder(ch, s)
      BY <2>1, <2>2, Zenon DEF UnderLaws
    <2>4. \A y : y \in Range(f[d + 1]) <=> \E x \in Range(s) : y \in Range(ch[x])
      <3>1. \A y : y \in AllUnder(ch, s) <=> \E x \in Range(s) : y \in Range(ch[x])
        BY DEF AllUnder
      <3>2. Range(f[d + 1]) = AllUnder(ch, s)
        BY <2>1, <2>3, Zenon
      <3>3. QED
        BY <3>1, <3>2, Zenon
    <2>5. QED
      BY <2>2, <2>4, Zenon DEF s
  <1>2. \A x \in X : x \in T <=> x \in F \/ \E y \in Range(ch[x]) : y \in T
    BY TaintedFrom
  <1>3. T \subseteq X /\ F \subseteq T
    <2>1. T \subseteq X
      BY DEF Tainted
    <2>2. QED
      BY <1>2, <2>1
  <1> HIDE DEF T
  <1>4. ASSUME NEW d \in Nat, Some(d + 1)
        PROVE  Some(d)
    <2>1. PICK x \in Range(f[d]) : \E y \in Range(ch[x]) : y \in T
      BY <1>1, <1>4, Zenon
    <2>2. x \in T
      BY <1>1, <1>2, <2>1
    <2>3. QED
      BY <2>1, <2>2
  <1>5. ASSUME NEW n \in Nat, Some(n)
        PROVE  Some(0)
    <2> DEFINE S == {d \in 0 .. n : Some(d) => Some(0)}
    <2>1. 0 \in S
      OBVIOUS
    <2>2. \A d \in 1 .. n : d - 1 \in S => d \in S
      <3> HIDE DEF Some
      <3>1. \A d \in 1 .. n : d - 1 \in Nat /\ (d - 1) + 1 = d
        OBVIOUS
      <3>2. QED
        BY <1>4, <3>1
    <2>3. \A d \in 0 .. n : d \in S
      <3> HIDE DEF S
      <3>1. QED
        BY <2>1, <2>2, Adding!InductionTo
    <2> HIDE DEF Some
    <2>4. QED
      BY <1>5, <2>3
  <1>6. ASSUME NEW d \in Nat, NEW x \in Range(f[d]), x \in F
        PROVE  Some(0)
    <2>1. Some(d)
      BY <1>3, <1>6
    <2>2. QED
      BY <1>5, <2>1
  <1>7. ASSUME \A d \in Nat : \A x \in Range(f[d]) : x \notin F
        PROVE  ~Some(0)
    <2> DEFINE N == UNION {Range(f[d]) : d \in Nat}
               B == X \ N
    <2>1. ClosedUp(X, ch, F, B)
      <3>1. F \subseteq B
        BY <1>7
      <3>2. ASSUME NEW x \in X, NEW y \in Range(ch[x]), y \in B
            PROVE  x \in B
        <4>1. ASSUME NEW d \in Nat, x \in Range(f[d])
              PROVE  FALSE
          <5>1. y \in Range(f[d + 1]) /\ d + 1 \in Nat
            <6>1. d + 1 \in Nat
              OBVIOUS
            <6>2. QED
              BY <1>1, <4>1, <6>1, Zenon
          <5>2. y \in N
            BY <5>1
          <5>3. QED
            BY <3>2, <5>2
        <4>2. QED
          BY <4>1
      <3>3. QED
        BY <3>1, <3>2 DEF ClosedUp
    <2>2. B \in SUBSET X
      OBVIOUS
    <2>3. T \subseteq B
      <3> HIDE DEF B
      <3>1. QED
        BY <2>1, <2>2 DEF T, Tainted
    <2>4. Range(f[0]) \subseteq N
      OBVIOUS
    <2>5. QED
      BY <2>3, <2>4
  <1>8. QED
    BY <1>6, <1>7 DEF T

-----------------------------------------------------------------------------
(* One level of a tree from the one before it, as Levels has it.           *)
NextValues(values, d) == FlattenSeq([i \in DOMAIN values |-> Children(values[i])])
NextNodes(nodes, d) == FlattenSeq([i \in DOMAIN nodes |-> Below(nodes[i])])

ValueLevels == INSTANCE Folding WITH Op <- NextValues
NodeLevels == INSTANCE Folding WITH Op <- NextNodes

-----------------------------------------------------------------------------
(* The values of requests, and the strings that keys are inspected as.     *)
AllValues == JSONValues \cup {StringValue(string) : string \in Seq(Characters)}

ChildrenOf == [v \in AllValues |-> Children(v)]

(* What the walk and the inspection read of a value has the type it needs. *)
LEMMA ValueFacts ==
  ASSUME NEW v \in AllValues
  PROVE  /\ Children(v) \in Seq(AllValues)
         /\ Keys(v) \in Seq(Seq(Characters))
         /\ v.type = "string" => v.value \in Seq(Characters)
         /\ Chars(v) \in Nat
PROOF
  <1>1. IsValue(v)
    <2>1. CASE v \in JSONValues
      BY <2>1, RequestAssumption
    <2>2. ASSUME NEW string \in Seq(Characters), v = StringValue(string)
          PROVE  IsValue(v)
      BY <2>2 DEF IsValue, StringValue
    <2>3. QED
      BY <2>1, <2>2 DEF AllValues
  <1> DEFINE Fine == /\ Children(v) \in Seq(AllValues)
                     /\ Keys(v) \in Seq(Seq(Characters))
                     /\ v.type = "string" => v.value \in Seq(Characters)
  <1>2. ASSUME v.type = "array"
        PROVE  Fine
    <2>1. v.items \in Seq(JSONValues)
      BY <1>1, <1>2 DEF IsValue
    <2>2. v.items \in Seq(AllValues)
      BY <2>1 DEF AllValues
    <2>3. Children(v) = v.items /\ Keys(v) = <<>>
      BY <1>2 DEF Children, Keys
    <2>4. QED
      BY <1>2, <2>2, <2>3
  <1>3. ASSUME v.type = "object"
        PROVE  Fine
    <2>1. v.members \in Seq(Seq(Characters) \X JSONValues)
      BY <1>1, <1>3 DEF IsValue
    <2>2. Children(v) = [i \in DOMAIN v.members |-> v.members[i][2]]
          /\ Keys(v) = [i \in DOMAIN v.members |-> v.members[i][1]]
      BY <1>3 DEF Children, Keys
    <2> DEFINE m == v.members
               C == Seq(Characters)
    <2> HIDE DEF m, C
    <2>3. m \in Seq(C \X JSONValues)
      BY <2>1 DEF m, C
    <2>4. [i \in DOMAIN m |-> m[i][2]] \in Seq(JSONValues) /\ [i \in DOMAIN m |-> m[i][1]] \in Seq(C)
      <3>1. DOMAIN m = 1 .. Len(m) /\ Len(m) \in Nat
            /\ \A i \in 1 .. Len(m) : m[i] \in C \X JSONValues
        BY <2>3
      <3>2. \A i \in 1 .. Len(m) : m[i][1] \in C /\ m[i][2] \in JSONValues
        BY <3>1
      <3> DEFINE n == Len(m)
      <3> HIDE DEF n
      <3>3. [i \in 1 .. n |-> m[i][2]] \in Seq(JSONValues) /\ [i \in 1 .. n |-> m[i][1]] \in Seq(C)
        BY <3>1, <3>2 DEF n
      <3>4. QED
        BY <3>1, <3>3 DEF n
    <2>5. [i \in DOMAIN m |-> m[i][2]] \in Seq(AllValues)
      BY <2>4 DEF AllValues
    <2>6. QED
      BY <1>3, <2>2, <2>4, <2>5 DEF m, C
  <1>4. ASSUME v.type # "array", v.type # "object"
        PROVE  Fine
    <2>1. Children(v) = <<>> /\ Keys(v) = <<>>
      BY <1>4 DEF Children, Keys
    <2>2. v.type = "string" => v.value \in Seq(Characters)
      BY <1>1, <1>4 DEF IsValue
    <2>3. QED
      BY <2>1, <2>2
  <1>5. Fine
    BY <1>2, <1>3, <1>4
  <1>6. Chars(v) \in Nat
    <2>1. CASE v.type = "string"
      <3>1. Chars(v) = Len(v.value)
        BY <2>1 DEF Chars
      <3>2. QED
        BY <1>5, <2>1, <3>1
    <2>2. ASSUME v.type # "string"
          PROVE  Chars(v) \in Nat
      <3> DEFINE k == Keys(v)
                 C == Seq(Characters)
                 n == Len(k)
                 a == [i \in 1 .. n |-> Len(k[i])]
      <3>1. k \in Seq(C) /\ \A c \in C : Len(c) \in Nat
        BY <1>5
      <3>2. Chars(v) = SumOf([i \in DOMAIN k |-> Len(k[i])])
        BY <2>2 DEF Chars
      <3> HIDE DEF k, C
      <3>3. n \in Nat /\ DOMAIN k = 1 .. n /\ a \in [1 .. n -> Nat]
        BY <3>1
      <3> HIDE DEF a
      <3>4. SumOf(a) \in Nat
        BY <3>3, SumIsLarge
      <3>5. QED
        BY <3>2, <3>3, <3>4 DEF a
    <2>3. QED
      BY <2>1, <2>2
  <1>7. QED
    BY <1>5, <1>6

(* The levels of a tree of values, as functions.                           *)
LEMMA ValuesDescend ==
  ASSUME NEW values \in Seq(AllValues)
  PROVE  /\ ChildrenOf \in [AllValues -> Seq(AllValues)]
         /\ Levels(values, Children)[0] = values
         /\ Descends(AllValues, ChildrenOf, Levels(values, Children))
PROOF
  <1> DEFINE f == Levels(values, Children)
  <1>1. ChildrenOf \in [AllValues -> Seq(AllValues)]
    BY ValueFacts DEF ChildrenOf
  <1>2. f = ValueLevels!Iterated(values)
    BY DEF Levels, ValueLevels!Iterated, NextValues
  <1>3. f[0] = values /\ \A d \in Nat : f[d + 1] = NextValues(f[d], d + 1)
    BY <1>2, ValueLevels!IterationTrace
  <1> HIDE DEF f
  <1>4. ASSUME NEW d \in Nat, f[d] \in Seq(AllValues)
        PROVE  f[d + 1] = Under(ChildrenOf, f[d]) /\ f[d + 1] \in Seq(AllValues)
    <2> DEFINE s == f[d]
    <2>1. s \in Seq(AllValues) /\ f[d + 1] = NextValues(s, d + 1)
      BY <1>3, <1>4
    <2> HIDE DEF s
    <2>2. [i \in DOMAIN s |-> Children(s[i])] = Along(ChildrenOf, s)
      <3>1. \A i \in DOMAIN s : s[i] \in AllValues
        BY <2>1
      <3>2. QED
        BY <3>1 DEF Along, ChildrenOf
    <2>3. NextValues(s, d + 1) = Under(ChildrenOf, s)
      BY <2>2, Zenon DEF NextValues, Under
    <2>4. Under(ChildrenOf, s) \in Seq(AllValues)
      <3>1. UnderLaws(AllValues, AllValues, ChildrenOf)
        BY <1>1, UnderRules
      <3>2. QED
        BY <2>1, <3>1, Zenon DEF UnderLaws
    <2>5. QED
      BY <2>1, <2>3, <2>4, Zenon DEF s
  <1>5. ASSUME NEW n \in Nat
        PROVE  f[n] \in Seq(AllValues)
    <2> DEFINE S == {d \in 0 .. n : f[d] \in Seq(AllValues)}
    <2>1. 0 \in S
      BY <1>3
    <2>2. \A d \in 1 .. n : d - 1 \in S => d \in S
      <3>1. \A d \in 1 .. n : d - 1 \in Nat /\ (d - 1) + 1 = d
        OBVIOUS
      <3>2. QED
        BY <1>4, <3>1
    <2>3. \A d \in 0 .. n : d \in S
      <3> HIDE DEF S
      <3>1. QED
        BY <2>1, <2>2, Adding!InductionTo
    <2>4. QED
      BY <2>3
  <1>6. Descends(AllValues, ChildrenOf, f)
    BY <1>4, <1>5 DEF Descends
  <1>7. QED
    BY <1>1, <1>3, <1>6 DEF f

-----------------------------------------------------------------------------
(* The nodes of a request, with what each has below it.                    *)
LevelsOf(asked) == Levels(Roots(asked), Below)

Nodes(asked) == UNION {Range(LevelsOf(asked)[d]) : d \in Nat}

BelowOf(asked) == [n \in Nodes(asked) |-> Below(n)]
DepthOf(asked) == [n \in Nodes(asked) |-> n.depth]
ValueOf(asked) == [n \in Nodes(asked) |-> n.value]

(* A node at some depth, and a sequence of them.                           *)
IsNode(n, d) == n.depth = d /\ n.value \in JSONValues

AreNodes(s, d) == s \in Seq(Range(s)) /\ \A n \in Range(s) : IsNode(n, d)

(* A sequence is one over the elements it has.                             *)
LEMMA NodesOver ==
  ASSUME NEW n \in Nat, NEW s, DOMAIN s = 1 .. n, s = [i \in 1 .. n |-> s[i]]
  PROVE  s \in Seq(Range(s))
PROOF
  <1>1. \A i \in 1 .. n : s[i] \in Range(s)
    BY DEF Range
  <1> DEFINE R == Range(s)
  <1> HIDE DEF R
  <1>2. [i \in 1 .. n |-> s[i]] \in Seq(R)
    BY <1>1 DEF R
  <1>3. QED
    BY <1>2 DEF R

(* The parts of a node.                                                    *)
LEMMA NodeIs ==
  ASSUME NEW value, NEW schema, NEW depth
  PROVE  /\ Node(value, schema, depth).value = value
         /\ Node(value, schema, depth).schema = schema
         /\ Node(value, schema, depth).depth = depth
PROOF
  BY DEF Node

(* The nodes that the walk of a request starts with.                       *)
LEMMA RootsFacts ==
  ASSUME NEW asked \in Requests
  PROVE  AreNodes(Roots(asked), 0) /\ Values(asked) \in Seq(JSONValues)
PROOF
  <1> DEFINE r == Roots(asked)
  <1>1. IsRequest(asked)
    BY RequestAssumption
  <1>2. \E n \in Nat : /\ DOMAIN r = 1 .. n /\ r = [i \in 1 .. n |-> r[i]]
                       /\ \A i \in 1 .. n : IsNode(r[i], 0)
    <2>1. CASE asked.kind = "call"
      <3> DEFINE a == asked.arguments
      <3>1. a \in Seq(JSONValues)
        BY <1>1, <2>1 DEF IsRequest
      <3>2. r = [i \in DOMAIN a |-> Node(a[i], asked.gate.tools[asked.name], 0)]
        BY <2>1 DEF Roots
      <3> HIDE DEF a, r
      <3>3. Len(a) \in Nat /\ DOMAIN a = 1 .. Len(a) /\ \A i \in 1 .. Len(a) : a[i] \in JSONValues
        BY <3>1
      <3>4. \A i \in 1 .. Len(a) : r[i] = Node(a[i], asked.gate.tools[asked.name], 0)
        BY <3>2, <3>3
      <3>5. DOMAIN r = 1 .. Len(a) /\ r = [i \in 1 .. Len(a) |-> r[i]]
        BY <3>2, <3>3
      <3>6. \A i \in 1 .. Len(a) : IsNode(r[i], 0)
        <4>1. \A i \in 1 .. Len(a) : r[i].depth = 0 /\ r[i].value = a[i]
          BY <3>4, NodeIs
        <4>2. QED
          BY <3>3, <4>1 DEF IsNode
      <3>7. QED
        BY <3>3, <3>5, <3>6
    <2>2. CASE asked.kind # "call"
      <3> DEFINE a == Contents(asked)
                 c == asked.results
      <3>1. c \in Seq(Range(c)) /\ \A x \in Range(c) : x.content \in JSONValues
        BY <1>1, <2>2 DEF IsRequest
      <3>2. r = [i \in DOMAIN c |-> Node(a[i], <<>>, 0)]
        BY <2>2 DEF Roots
      <3>3. a = [i \in DOMAIN c |-> c[i].content]
        BY DEF Contents
      <3> HIDE DEF a, r, c
      <3>4. Len(c) \in Nat /\ DOMAIN c = 1 .. Len(c) /\ \A i \in 1 .. Len(c) : c[i] \in Range(c)
        BY <3>1
      <3>5. \A i \in 1 .. Len(c) : a[i] \in JSONValues
        BY <3>1, <3>3, <3>4
      <3>6. \A i \in 1 .. Len(c) : r[i] = Node(a[i], <<>>, 0)
        BY <3>2, <3>4
      <3>7. DOMAIN r = 1 .. Len(c) /\ r = [i \in 1 .. Len(c) |-> r[i]]
        BY <3>2, <3>4
      <3>8. \A i \in 1 .. Len(c) : IsNode(r[i], 0)
        <4>1. \A i \in 1 .. Len(c) : r[i].depth = 0 /\ r[i].value = a[i]
          BY <3>6, NodeIs
        <4>2. QED
          BY <3>5, <4>1 DEF IsNode
      <3>9. QED
        BY <3>4, <3>7, <3>8
    <2>3. QED
      BY <2>1, <2>2
  <1> HIDE DEF r
  <1>3. PICK n \in Nat : /\ DOMAIN r = 1 .. n /\ r = [i \in 1 .. n |-> r[i]]
                         /\ \A i \in 1 .. n : IsNode(r[i], 0)
    BY <1>2
  <1>4. AreNodes(r, 0)
    <2>1. r \in Seq(Range(r))
      BY <1>3, NodesOver
    <2>2. Range(r) = {r[i] : i \in 1 .. n}
      BY <1>3 DEF Range
    <2>3. QED
      BY <1>3, <2>1, <2>2 DEF AreNodes
  <1>5. Values(asked) \in Seq(JSONValues)
    <2>1. Values(asked) = [i \in 1 .. n |-> r[i].value]
      BY <1>3 DEF Values, r
    <2>2. \A i \in 1 .. n : r[i].value \in JSONValues
      BY <1>3 DEF IsNode
    <2>3. [i \in 1 .. n |-> r[i].value] \in Seq(JSONValues)
      BY <2>2
    <2>4. QED
      BY <2>1, <2>3
  <1>6. QED
    BY <1>4, <1>5 DEF r

(* One level below another.                                                *)
LEMMA BelowFacts ==
  ASSUME NEW n, NEW d \in Nat, IsNode(n, d)
  PROVE  /\ AreNodes(Below(n), d + 1)
         /\ Children(n.value) = [i \in DOMAIN Below(n) |-> Below(n)[i].value]
PROOF
  <1> DEFINE c == Children(n.value)
             b == Below(n)
  <1>1. c \in Seq(JSONValues)
    <2>1. n.value \in JSONValues /\ IsValue(n.value)
      BY RequestAssumption DEF IsNode
    <2> DEFINE v == n.value
    <2> HIDE DEF v
    <2>2. CASE v.type = "array"
      BY <2>1, <2>2 DEF v, IsValue, Children
    <2>3. CASE v.type = "object"
      <3> DEFINE m == v.members
                 C == Seq(Characters)
      <3>1. m \in Seq(C \X JSONValues) /\ Children(v) = [i \in DOMAIN m |-> m[i][2]]
        BY <2>1, <2>3 DEF v, IsValue, Children
      <3> HIDE DEF m, C
      <3>2. Len(m) \in Nat /\ DOMAIN m = 1 .. Len(m)
            /\ \A i \in 1 .. Len(m) : m[i] \in C \X JSONValues
        BY <3>1
      <3>3. \A i \in 1 .. Len(m) : m[i][2] \in JSONValues
        BY <3>2
      <3> DEFINE k == Len(m)
      <3> HIDE DEF k
      <3>4. [i \in 1 .. k |-> m[i][2]] \in Seq(JSONValues)
        BY <3>2, <3>3 DEF k
      <3>5. QED
        BY <3>1, <3>2, <3>4 DEF k, v
    <2>4. CASE v.type # "array" /\ v.type # "object"
      BY <2>4 DEF v, Children
    <2>5. QED
      BY <2>2, <2>3, <2>4
  <1>2. PICK of : b = [i \in DOMAIN c |-> Node(c[i], of[i], n.depth + 1)]
    <2> DEFINE value == n.value
               schema == n.schema
               of(i) == IF schema = <<>> \/ ~MatchesType(value, schema[1].type) THEN <<>>
                        ELSE IF value.type = "array" THEN <<schema[1].items>>
                        ELSE IF Keys(value)[i] \in DOMAIN Properties(schema[1])
                        THEN <<Properties(schema[1])[Keys(value)[i]]>> ELSE <<>>
               g == [i \in DOMAIN c |-> of(i)]
    <2>1. b = [i \in DOMAIN c |-> Node(c[i], of(i), n.depth + 1)]
      BY DEF Below
    <2> HIDE DEF of, b, c
    <2>2. [i \in DOMAIN c |-> Node(c[i], of(i), n.depth + 1)]
             = [i \in DOMAIN c |-> Node(c[i], g[i], n.depth + 1)]
      OBVIOUS
    <2>3. QED
      BY <2>1, <2>2, Zenon
  <1> HIDE DEF b, c
  <1>3. /\ Len(c) \in Nat /\ DOMAIN c = 1 .. Len(c) /\ DOMAIN b = 1 .. Len(c)
        /\ b = [i \in 1 .. Len(c) |-> b[i]]
        /\ \A i \in 1 .. Len(c) : c[i] \in JSONValues /\ b[i] = Node(c[i], of[i], n.depth + 1)
    BY <1>1, <1>2
  <1>4. \A i \in 1 .. Len(c) : b[i].value = c[i] /\ IsNode(b[i], d + 1)
    BY <1>3 DEF IsNode, Node
  <1>5. AreNodes(b, d + 1)
    <2>1. b \in Seq(Range(b))
      BY <1>3, NodesOver
    <2>2. Range(b) = {b[i] : i \in 1 .. Len(c)}
      BY <1>3 DEF Range
    <2>3. QED
      BY <1>4, <2>1, <2>2 DEF AreNodes
  <1>6. c = [i \in DOMAIN b |-> b[i].value]
    <2>1. c = [i \in 1 .. Len(c) |-> c[i]]
      BY <1>1
    <2>2. QED
      BY <1>3, <1>4, <2>1
  <1>7. QED
    BY <1>5, <1>6 DEF b, c

(* All levels below some roots.                                            *)
LEMMA LevelFacts ==
  ASSUME NEW roots, NEW e \in Nat, AreNodes(roots, e)
  PROVE  /\ Levels(roots, Below)[0] = roots
         /\ \A d \in Nat : /\ AreNodes(Levels(roots, Below)[d], e + d)
                           /\ Levels(roots, Below)[d + 1] = NextNodes(Levels(roots, Below)[d], d + 1)
                           /\ \A n \in Range(Levels(roots, Below)[d]) :
                                 Range(Below(n)) \subseteq Range(Levels(roots, Below)[d + 1])
PROOF
  <1> DEFINE f == Levels(roots, Below)
  <1>1. f = NodeLevels!Iterated(roots)
    BY DEF Levels, NodeLevels!Iterated, NextNodes
  <1>2. f[0] = roots /\ \A d \in Nat : f[d + 1] = NextNodes(f[d], d + 1)
    BY <1>1, NodeLevels!IterationTrace
  <1> HIDE DEF f
  <1>3. ASSUME NEW d \in Nat, AreNodes(f[d], e + d)
        PROVE  /\ AreNodes(f[d + 1], e + (d + 1))
               /\ \A n \in Range(f[d]) : Range(Below(n)) \subseteq Range(f[d + 1])
    <2> DEFINE s == f[d]
               parts == [i \in DOMAIN s |-> Below(s[i])]
               T == UNION {Range(Below(n)) : n \in Range(s)}
               m == e + d
    <2>1. m \in Nat /\ s \in Seq(Range(s)) /\ \A n \in Range(s) : IsNode(n, m)
      BY <1>3 DEF AreNodes
    <2>2. f[d + 1] = FlattenSeq(parts)
      BY <1>2 DEF NextNodes
    <2> HIDE DEF s, m, T
    <2>3. \A n \in Range(s) : AreNodes(Below(n), m + 1)
      BY <2>1, BelowFacts
    <2>4. \A n \in Range(s) : Below(n) \in Seq(T)
      <3>1. ASSUME NEW n \in Range(s)
            PROVE  Below(n) \in Seq(T)
        <4> DEFINE b == Below(n)
                   R == Range(b)
        <4>1. R \subseteq T /\ b \in Seq(R)
          BY <2>3 DEF T, AreNodes
        <4> HIDE DEF b, R
        <4>2. b \in Seq(T)
          BY <4>1
        <4>3. QED
          BY <4>2 DEF b
      <3>2. QED
        BY <3>1
    <2>5. parts \in Seq(Seq(T)) /\ DOMAIN parts = 1 .. Len(s) /\ Len(s) \in Nat
          /\ \A i \in 1 .. Len(s) : s[i] \in Range(s) /\ parts[i] = Below(s[i])
      <3> DEFINE Q == Seq(T)
                 R == Range(s)
                 n == Len(s)
      <3>1. n \in Nat /\ DOMAIN s = 1 .. n /\ \A i \in 1 .. n : s[i] \in R
        <4> HIDE DEF R
        <4>1. s \in Seq(R)
          BY <2>1 DEF R
        <4>2. QED
          BY <4>1
      <3> HIDE DEF Q, R, n
      <3>2. \A i \in 1 .. n : Below(s[i]) \in Q
        BY <2>4, <3>1 DEF Q, R
      <3>3. [i \in 1 .. n |-> Below(s[i])] \in Seq(Q)
        BY <3>1, <3>2
      <3>4. parts = [i \in 1 .. n |-> Below(s[i])]
        BY <3>1
      <3>5. parts \in Seq(Q)
        BY <3>3, <3>4, Zenon
      <3>6. QED
        BY <3>1, <3>4, <3>5 DEF Q, R, n
    <2> HIDE DEF parts
    <2>6. FlattenSeq(parts) \in Seq(T)
          /\ Range(FlattenSeq(parts)) = UNION {Range(parts[i]) : i \in DOMAIN parts}
      BY <2>5, FlattenOf
    <2>7. UNION {Range(parts[i]) : i \in DOMAIN parts} = T
      <3>1. \A n \in Range(s) : \E i \in 1 .. Len(s) : n = s[i]
        <4>1. DOMAIN s = 1 .. Len(s)
          <5> DEFINE R == Range(s)
          <5> HIDE DEF R
          <5>1. s \in Seq(R)
            BY <2>1 DEF R
          <5>2. QED
            BY <5>1
        <4>2. QED
          BY <4>1 DEF Range
      <3>2. {Range(parts[i]) : i \in 1 .. Len(s)} = {Range(Below(n)) : n \in Range(s)}
        BY <2>5, <3>1
      <3>3. QED
        BY <2>5, <3>2 DEF T
    <2>8. \A n \in Range(s) : Range(Below(n)) \subseteq T
      BY DEF T
    <2>9. \A x \in T : IsNode(x, m + 1)
      <3>1. \A n \in Range(s) : \A x \in Range(Below(n)) : IsNode(x, m + 1)
        BY <2>3 DEF AreNodes
      <3>2. QED
        BY <3>1 DEF T
    <2> DEFINE next == FlattenSeq(parts)
    <2> HIDE DEF next
    <2>10. next \in Seq(T) /\ Range(next) = T
      BY <2>6, <2>7 DEF next
    <2>11. AreNodes(next, m + 1)
      BY <2>9, <2>10 DEF AreNodes
    <2>12. m + 1 = e + (d + 1)
      BY DEF m
    <2>13. QED
      BY <2>2, <2>8, <2>10, <2>11, <2>12, Zenon DEF next, s
  <1>4. ASSUME NEW k \in Nat
        PROVE  AreNodes(f[k], e + k)
    <2> DEFINE S == {d \in 0 .. k : AreNodes(f[d], e + d)}
    <2>1. 0 \in S
      BY <1>2
    <2>2. \A d \in 1 .. k : d - 1 \in S => d \in S
      <3>1. \A d \in 1 .. k : d - 1 \in Nat /\ (d - 1) + 1 = d
        OBVIOUS
      <3>2. QED
        BY <1>3, <3>1
    <2>3. \A d \in 0 .. k : d \in S
      <3> HIDE DEF S
      <3>1. QED
        BY <2>1, <2>2, Adding!InductionTo
    <2>4. QED
      BY <2>3
  <1>5. QED
    BY <1>2, <1>3, <1>4 DEF f

(* The nodes of a request are a tree in which each knows its depth, with   *)
(* the shape of the tree of their values.                                  *)
LEMMA NodeFacts ==
  ASSUME NEW asked \in Requests
  PROVE  /\ BelowOf(asked) \in [Nodes(asked) -> Seq(Nodes(asked))]
         /\ DepthOf(asked) \in [Nodes(asked) -> Nat]
         /\ ValueOf(asked) \in [Nodes(asked) -> AllValues]
         /\ IsDepth(Nodes(asked), BelowOf(asked), DepthOf(asked))
         /\ LooksAlike(Nodes(asked), BelowOf(asked), ChildrenOf, ValueOf(asked))
         /\ Roots(asked) \in Seq(Nodes(asked))
         /\ \A n \in Range(Roots(asked)) : n.depth = 0
PROOF
  <1> DEFINE f == LevelsOf(asked)
             X == Nodes(asked)
             r == Roots(asked)
  <1>1. /\ f[0] = r
        /\ \A d \in Nat : /\ AreNodes(f[d], d)
                          /\ \A n \in Range(f[d]) : Range(Below(n)) \subseteq Range(f[d + 1])
    <2>1. AreNodes(r, 0)
      BY RootsFacts
    <2> HIDE DEF r
    <2>2. \A d \in Nat : 0 + d = d
      OBVIOUS
    <2>3. QED
      BY <2>1, <2>2, LevelFacts, Zenon DEF LevelsOf, r
  <1>2. X = UNION {Range(f[d]) : d \in Nat}
    BY DEF Nodes
  <1> HIDE DEF f, X, r
  <1>3. ASSUME NEW n \in X
        PROVE  \E d \in Nat : /\ IsNode(n, d) /\ AreNodes(Below(n), d + 1)
                              /\ Below(n) \in Seq(X)
                              /\ Children(n.value) = [i \in DOMAIN Below(n) |-> Below(n)[i].value]
    <2>1. PICK d \in Nat : n \in Range(f[d])
      BY <1>2
    <2>2. IsNode(n, d)
      BY <1>1, <2>1 DEF AreNodes
    <2>3. /\ AreNodes(Below(n), d + 1)
          /\ Children(n.value) = [i \in DOMAIN Below(n) |-> Below(n)[i].value]
      BY <2>2, BelowFacts
    <2> DEFINE b == Below(n)
               R == Range(b)
    <2>4. R \subseteq X
      <3>1. d + 1 \in Nat /\ R \subseteq Range(f[d + 1])
        BY <1>1, <2>1
      <3>2. QED
        BY <1>2, <3>1
    <2>5. b \in Seq(R)
      BY <2>3 DEF AreNodes
    <2> HIDE DEF b, R
    <2>6. b \in Seq(X)
      BY <2>4, <2>5
    <2>7. QED
      BY <2>2, <2>3, <2>6 DEF b
  <1>4. BelowOf(asked) \in [X -> Seq(X)]
    BY <1>3 DEF BelowOf, X
  <1>5. DepthOf(asked) \in [X -> Nat]
    <2>1. \A n \in X : n.depth \in Nat
      BY <1>3 DEF IsNode
    <2>2. QED
      BY <2>1 DEF DepthOf, X
  <1>6. ValueOf(asked) \in [X -> AllValues]
    <2>1. \A n \in X : n.value \in AllValues
      BY <1>3 DEF IsNode, AllValues
    <2>2. QED
      BY <2>1 DEF ValueOf, X
  <1>7. IsDepth(X, BelowOf(asked), DepthOf(asked))
    <2>1. ASSUME NEW n \in X, NEW m \in Range(Below(n))
          PROVE  m \in X /\ m.depth = n.depth + 1
      <3>1. PICK d \in Nat : IsNode(n, d) /\ AreNodes(Below(n), d + 1) /\ Below(n) \in Seq(X)
        BY <1>3
      <3>2. IsNode(m, d + 1)
        BY <3>1 DEF AreNodes
      <3> DEFINE b == Below(n)
      <3> HIDE DEF b
      <3>3. b \in Seq(X) /\ m \in Range(b)
        BY <2>1, <3>1 DEF b
      <3>4. m \in X
        BY <3>3, RangeWithin
      <3>5. QED
        BY <3>1, <3>2, <3>4 DEF IsNode
    <2>2. \A n \in X : BelowOf(asked)[n] = Below(n) /\ DepthOf(asked)[n] = n.depth
      BY DEF BelowOf, DepthOf, X
    <2>3. QED
      BY <2>1, <2>2 DEF IsDepth
  <1>8. LooksAlike(X, BelowOf(asked), ChildrenOf, ValueOf(asked))
    <2>1. ASSUME NEW n \in X
          PROVE  ChildrenOf[ValueOf(asked)[n]] = Along(ValueOf(asked), BelowOf(asked)[n])
      <3>1. PICK d \in Nat : /\ IsNode(n, d) /\ Below(n) \in Seq(X)
                             /\ Children(n.value) = [i \in DOMAIN Below(n) |-> Below(n)[i].value]
        BY <1>3
      <3> DEFINE b == Below(n)
      <3>2. ValueOf(asked)[n] = n.value /\ BelowOf(asked)[n] = b
        BY DEF ValueOf, BelowOf, X
      <3>3. ChildrenOf[n.value] = Children(n.value)
        BY <3>1 DEF IsNode, ChildrenOf, AllValues
      <3> HIDE DEF b
      <3>4. b \in Seq(X) /\ Children(n.value) = [i \in DOMAIN b |-> b[i].value]
        BY <3>1 DEF b
      <3>5. Along(ValueOf(asked), b) = [i \in DOMAIN b |-> b[i].value]
        BY <3>4 DEF Along, ValueOf, X
      <3>6. QED
        BY <3>2, <3>3, <3>4, <3>5, Zenon
    <2>2. QED
      BY <2>1 DEF LooksAlike
  <1>9. r \in Seq(X) /\ \A n \in Range(r) : n.depth = 0
    <2> DEFINE R == Range(r)
    <2>1. r \in Seq(R) /\ \A n \in R : n.depth = 0
      BY RootsFacts DEF r, AreNodes, IsNode
    <2>2. R \subseteq X
      <3>1. 0 \in Nat
        OBVIOUS
      <3>2. QED
        BY <1>1, <1>2, <3>1
    <2> HIDE DEF R
    <2>3. r \in Seq(X)
      BY <2>1, <2>2
    <2>4. QED
      BY <2>1, <2>3 DEF R
  <1>10. QED
    BY <1>4, <1>5, <1>6, <1>7, <1>8, <1>9 DEF X, r

-----------------------------------------------------------------------------
(* One element weighs its own weight.                                      *)
LEMMA WeighOne ==
  ASSUME NEW X, NEW w \in [X -> Nat], NEW x \in X
  PROVE  Weigh(w, <<x>>) = w[x]
PROOF
  <1>1. <<>> \in Seq(X) /\ Append(<<>>, x) = <<x>>
    OBVIOUS
  <1>2. Weigh(w, Append(<<>>, x)) = Weigh(w, <<>>) + w[x]
    BY <1>1, WeighMore
  <1>3. Weigh(w, <<>>) = 0 /\ w[x] \in Nat
    BY WeighNone
  <1> DEFINE a == Weigh(w, <<x>>)
             b == Weigh(w, <<>>)
             c == w[x]
  <1>4. a = b + c /\ b = 0 /\ c \in Nat
    BY <1>1, <1>2, <1>3, Zenon
  <1> HIDE DEF a, b, c
  <1>5. a = c
    BY <1>4
  <1>6. QED
    BY <1>5 DEF a, c

(* How many there are.                                                     *)
LEMMA WeighOnes ==
  ASSUME NEW X, NEW w \in [X -> Nat], \A x \in X : w[x] = 1
  PROVE  \A s \in Seq(X) : Weigh(w, s) = Len(s)
PROOF
  <1> DEFINE Same(s) == Weigh(w, s) = Len(s)
             S == {s \in Seq(X) : Same(s)}
  <1>1. Same(<<>>)
    <2>1. Len(<<>>) = 0
      OBVIOUS
    <2>2. QED
      BY <2>1, WeighNone, Zenon
  <1>2. ASSUME NEW s \in Seq(X), NEW x \in X, Same(s)
        PROVE  Same(Append(s, x))
    <2>1. Weigh(w, Append(s, x)) = Weigh(w, s) + w[x]
      BY WeighMore
    <2>2. Len(Append(s, x)) = Len(s) + 1
      OBVIOUS
    <2>3. w[x] = 1
      OBVIOUS
    <2>4. QED
      BY <1>2, <2>1, <2>2, <2>3, Zenon
  <1> HIDE DEF Same
  <1>3. <<>> \in S /\ \A t \in Seq(X), x \in X : t \in S => Append(t, x) \in S
    BY <1>1, <1>2
  <1>4. \A s \in Seq(X) : s \in S
    <2> HIDE DEF S
    <2>1. QED
      BY <1>3, LongerAndLonger
  <1>5. \A s \in Seq(X) : Same(s)
    BY <1>4
  <1>6. QED
    BY <1>5 DEF Same

(* Levels that look alike down to some depth, put in one sequence.         *)
LEMMA DownAlike ==
  ASSUME NEW X, NEW Y, NEW g \in [X -> Y], NEW ch, NEW f, Descends(X, ch, f),
         NEW h, Alike(g, f, h), NEW n \in Nat
  PROVE  DownTo(h, n) = Along(g, DownTo(f, n))
PROOF
  <1>1. AlongLaws(X, Y, g)
    BY AlongJoins
  <1>2. \A d \in Nat : h[d] = Along(g, f[d]) /\ f[d] \in Seq(X)
    BY DEF Alike, Descends
  <1>3. \A d \in Nat : h[d] \in Seq(Y)
    <2>1. \A s \in Seq(X) : Along(g, s) \in Seq(Y)
      BY <1>1, Zenon DEF AlongLaws
    <2>2. QED
      BY <1>2, <2>1
  <1>4. DownLaws(X, f) /\ DownLaws(Y, h)
    <2>1. \A d \in Nat : f[d] \in Seq(X)
      BY <1>2
    <2>2. QED
      BY <1>3, <2>1, DownToMore
  <1> DEFINE So(d) == DownTo(h, d) = Along(g, DownTo(f, d))
             S == {d \in 0 .. n : So(d)}
  <1>5. So(0)
    <2>1. 0 \in Nat
      OBVIOUS
    <2>2. QED
      BY <1>4, <1>2, <2>1, Zenon DEF DownLaws
  <1>6. ASSUME NEW d \in Nat, So(d)
        PROVE  So(d + 1)
    <2>1. /\ DownTo(h, d + 1) = DownTo(h, d) \o h[d + 1]
          /\ DownTo(f, d + 1) = DownTo(f, d) \o f[d + 1]
          /\ DownTo(f, d) \in Seq(X)
      BY <1>4, Zenon DEF DownLaws
    <2>2. d + 1 \in Nat
      OBVIOUS
    <2>3. h[d + 1] = Along(g, f[d + 1]) /\ f[d + 1] \in Seq(X)
      BY <1>2, <2>2
    <2>4. Along(g, DownTo(f, d) \o f[d + 1]) = Along(g, DownTo(f, d)) \o Along(g, f[d + 1])
      BY <1>1, <2>1, <2>3, Zenon DEF AlongLaws
    <2>5. QED
      BY <1>6, <2>1, <2>3, <2>4, Zenon
  <1> HIDE DEF So
  <1>7. 0 \in S /\ \A d \in 1 .. n : d - 1 \in S => d \in S
    <2>1. \A d \in 1 .. n : d - 1 \in Nat /\ (d - 1) + 1 = d
      OBVIOUS
    <2>2. QED
      BY <1>5, <1>6, <2>1
  <1>8. \A d \in 0 .. n : d \in S
    <2> HIDE DEF S
    <2>1. QED
      BY <1>7, Adding!InductionTo
  <1>9. QED
    BY <1>8 DEF So

(* Below nothing there is nothing.                                         *)
LEMMA NothingBelow ==
  ASSUME NEW X, NEW ch, NEW f, Descends(X, ch, f), NEW k \in Nat, f[k] = <<>>
  PROVE  \A d \in Nat : f[k + d] = <<>>
PROOF
  <1> DEFINE No(d) == f[k + d] = <<>>
  <1>1. No(0)
    <2>1. k + 0 = k
      OBVIOUS
    <2>2. QED
      BY <2>1, Zenon
  <1>2. ASSUME NEW d \in Nat, No(d)
        PROVE  No(d + 1)
    <2>1. k + d \in Nat /\ (k + d) + 1 = k + (d + 1)
      OBVIOUS
    <2>2. f[(k + d) + 1] = Under(ch, f[k + d])
      BY <2>1 DEF Descends
    <2>3. Under(ch, <<>>) = <<>>
      BY UnderNone
    <2>4. QED
      BY <1>2, <2>1, <2>2, <2>3, Zenon
  <1> HIDE DEF No
  <1>3. ASSUME NEW n \in Nat
        PROVE  No(n)
    <2> DEFINE S == {d \in 0 .. n : No(d)}
    <2>1. \A d \in 1 .. n : d - 1 \in Nat /\ (d - 1) + 1 = d
      OBVIOUS
    <2>2. 0 \in S /\ \A d \in 1 .. n : d - 1 \in S => d \in S
      BY <1>1, <1>2, <2>1
    <2>3. \A d \in 0 .. n : d \in S
      <3> HIDE DEF S
      <3>1. QED
        BY <2>2, Adding!InductionTo
    <2>4. QED
      BY <2>3
  <1>4. QED
    BY <1>3 DEF No

-----------------------------------------------------------------------------
(* The levels below some nodes of a request, as functions.                 *)
LEMMA NodesDescend ==
  ASSUME NEW asked \in Requests, NEW roots \in Seq(Nodes(asked))
  PROVE  /\ Levels(roots, Below)[0] = roots
         /\ Descends(Nodes(asked), BelowOf(asked), Levels(roots, Below))
PROOF
  <1> DEFINE f == Levels(roots, Below)
             X == Nodes(asked)
             ch == BelowOf(asked)
  <1>1. ch \in [X -> Seq(X)]
    BY NodeFacts
  <1>2. f = NodeLevels!Iterated(roots)
    BY DEF Levels, NodeLevels!Iterated, NextNodes
  <1>3. f[0] = roots /\ \A d \in Nat : f[d + 1] = NextNodes(f[d], d + 1)
    BY <1>2, NodeLevels!IterationTrace
  <1>4. \A n \in X : ch[n] = Below(n)
    BY DEF BelowOf
  <1> HIDE DEF f, X, ch
  <1>5. ASSUME NEW d \in Nat, f[d] \in Seq(X)
        PROVE  f[d + 1] = Under(ch, f[d]) /\ f[d + 1] \in Seq(X)
    <2> DEFINE s == f[d]
    <2>1. s \in Seq(X) /\ f[d + 1] = NextNodes(s, d + 1)
      BY <1>3, <1>5
    <2> HIDE DEF s
    <2>2. [i \in DOMAIN s |-> Below(s[i])] = Along(ch, s)
      <3>1. \A i \in DOMAIN s : s[i] \in X
        BY <2>1
      <3>2. QED
        BY <1>4, <3>1 DEF Along
    <2>3. NextNodes(s, d + 1) = Under(ch, s)
      BY <2>2, Zenon DEF NextNodes, Under
    <2>4. Under(ch, s) \in Seq(X)
      <3>1. UnderLaws(X, X, ch)
        BY <1>1, UnderRules
      <3>2. QED
        BY <2>1, <3>1, Zenon DEF UnderLaws
    <2>5. QED
      BY <2>1, <2>3, <2>4, Zenon DEF s
  <1>6. f[0] \in Seq(X)
    BY <1>3 DEF X
  <1>7. ASSUME NEW n \in Nat
        PROVE  f[n] \in Seq(X)
    <2> DEFINE S == {d \in 0 .. n : f[d] \in Seq(X)}
    <2>1. 0 \in S
      BY <1>6
    <2>2. \A d \in 1 .. n : d - 1 \in S => d \in S
      <3>1. \A d \in 1 .. n : d - 1 \in Nat /\ (d - 1) + 1 = d
        OBVIOUS
      <3>2. QED
        BY <1>5, <3>1
    <2>3. \A d \in 0 .. n : d \in S
      <3> HIDE DEF S
      <3>1. QED
        BY <2>1, <2>2, Adding!InductionTo
    <2>4. QED
      BY <2>3
  <1>8. Descends(X, ch, f)
    BY <1>5, <1>7 DEF Descends
  <1>9. QED
    BY <1>3, <1>8 DEF f, X, ch

-----------------------------------------------------------------------------
(* What the walk has before it when nodes are on its stack: each of them,  *)
(* and all below it that is at most one too deep.                          *)
Deepest(asked) == asked.gate.limits.depth + 1

Rest(asked, n) ==
    IF n.depth > Deepest(asked) THEN <<>>
    ELSE DownTo(Levels(<<n>>, Below), Deepest(asked) - n.depth)

Pending(asked, nodes) == FlattenSeq([i \in DOMAIN nodes |-> Rest(asked, nodes[i])])

(* With it, of any weight: a step down keeps what is counted already and   *)
(* what is pending, together.                                              *)
Ledger(asked, w) ==
    /\ Weigh(w, Pending(asked, Roots(asked))) = Weigh(w, DownTo(LevelsOf(asked), Deepest(asked)))
    /\ Weigh(w, Pending(asked, <<>>)) = 0
    /\ \A n \in Nodes(asked), s \in Seq(Nodes(asked)) :
          n.depth <= Deepest(asked) =>
             Weigh(w, Pending(asked, <<n>> \o s)) = w[n] + Weigh(w, Pending(asked, Below(n) \o s))

(* All that is pending is nodes of the request.                            *)
LEMMA RestWithin ==
  ASSUME NEW asked \in Requests
  PROVE  /\ Deepest(asked) \in Nat \ {0}
         /\ \A n \in Nodes(asked) : Rest(asked, n) \in Seq(Nodes(asked))
         /\ \A s \in Seq(Nodes(asked)) : Pending(asked, s) \in Seq(Nodes(asked))
PROOF
  <1> DEFINE X == Nodes(asked)
             H == Deepest(asked)
  <1>1. H \in Nat \ {0}
    <2>1. asked.gate.limits.depth \in Nat
      BY RequestAssumption DEF IsRequest
    <2>2. QED
      BY <2>1 DEF Deepest
  <1>2. \A n \in X : n.depth \in Nat
    <2>1. DepthOf(asked) \in [X -> Nat]
      BY NodeFacts
    <2>2. QED
      BY <2>1 DEF DepthOf
  <1> HIDE DEF X, H
  <1>3. ASSUME NEW n \in X
        PROVE  Rest(asked, n) \in Seq(X)
    <2> DEFINE f == Levels(<<n>>, Below)
    <2>1. Descends(X, BelowOf(asked), f)
      <3>1. <<n>> \in Seq(X)
        OBVIOUS
      <3>2. QED
        BY <3>1, NodesDescend DEF X
    <2> HIDE DEF f
    <2>2. \A d \in Nat : DownTo(f, d) \in Seq(X)
      <3>1. \A d \in Nat : f[d] \in Seq(X)
        BY <2>1 DEF Descends
      <3>2. DownLaws(X, f)
        BY <3>1, DownToMore
      <3>3. QED
        BY <3>2, Zenon DEF DownLaws
    <2>3. CASE n.depth > H
      BY <2>3 DEF Rest, H
    <2>4. CASE ~(n.depth > H)
      <3>1. H - n.depth \in Nat
        BY <1>1, <1>2, <2>4
      <3>2. Rest(asked, n) = DownTo(f, H - n.depth)
        BY <2>4, Zenon DEF Rest, H, f
      <3>3. QED
        BY <2>2, <3>1, <3>2, Zenon
    <2>5. QED
      BY <2>3, <2>4
  <1>4. ASSUME NEW s \in Seq(X)
        PROVE  Pending(asked, s) \in Seq(X)
    <2> DEFINE R == [n \in X |-> Rest(asked, n)]
    <2>1. R \in [X -> Seq(X)]
      BY <1>3
    <2>2. Pending(asked, s) = Under(R, s)
      <3>1. \A i \in DOMAIN s : s[i] \in X
        OBVIOUS
      <3>2. [i \in DOMAIN s |-> Rest(asked, s[i])] = Along(R, s)
        BY <3>1 DEF Along
      <3>3. QED
        BY <3>2, Zenon DEF Pending, Under
    <2> HIDE DEF R
    <2>3. QED
      BY <2>1, <2>2, UnderFacts
  <1>5. QED
    BY <1>1, <1>3, <1>4 DEF X, H

(* The ledger balances for every weight.                                   *)
THEOREM LedgerIsKept ==
  ASSUME NEW asked \in Requests, NEW w \in [Nodes(asked) -> Nat]
  PROVE  Ledger(asked, w)
PROOF
  <1> DEFINE X == Nodes(asked)
             H == Deepest(asked)
             ch == BelowOf(asked)
             dep == DepthOf(asked)
             R == [n \in X |-> Rest(asked, n)]
  <1>1. H \in Nat \ {0} /\ R \in [X -> Seq(X)]
    BY RestWithin
  <1>2. /\ ch \in [X -> Seq(X)] /\ dep \in [X -> Nat] /\ IsDepth(X, ch, dep)
        /\ Roots(asked) \in Seq(X) /\ \A n \in Range(Roots(asked)) : n.depth = 0
    BY NodeFacts
  <1>3. \A n \in X : dep[n] = n.depth /\ ch[n] = Below(n) /\ n.depth \in Nat
    BY <1>2 DEF DepthOf, BelowOf
  <1>4. \A n \in X : R[n] = Rest(asked, n)
    OBVIOUS
  <1>5. w \in [X -> Nat]
    OBVIOUS
  <1>6. \A s \in Seq(X) : Pending(asked, s) = Under(R, s)
    <2>1. ASSUME NEW s \in Seq(X)
          PROVE  Pending(asked, s) = Under(R, s)
      <3>1. \A i \in DOMAIN s : s[i] \in X
        <4> HIDE DEF X
        <4>1. QED
          OBVIOUS
      <3>2. [i \in DOMAIN s |-> Rest(asked, s[i])] = Along(R, s)
        BY <3>1 DEF Along
      <3>3. QED
        BY <3>2, Zenon DEF Pending, Under
    <2>2. QED
      BY <2>1
  <1>7. \A roots \in Seq(X) : /\ Levels(roots, Below)[0] = roots
                              /\ Descends(X, ch, Levels(roots, Below))
    BY NodesDescend
  <1>8. LevelsOf(asked) = Levels(Roots(asked), Below)
    BY DEF LevelsOf
  <1> DEFINE r == Roots(asked)
  <1> HIDE DEF X, H, ch, dep, R, r
  <1>9. PICK rho \in [X -> Nat] : IsRest(rho, X, ch, w, dep, H)
    <2>1. H \in Nat
      BY <1>1
    <2>2. QED
      BY <1>2, <1>5, <2>1, RestExists
  <1>10. RestLaw(rho, X, ch, w, dep, H)
    <2>1. H \in Nat /\ ch \in [X -> Seq(X)] /\ dep \in [X -> Nat] /\ IsDepth(X, ch, dep)
      BY <1>1, <1>2
    <2>2. QED
      BY <1>5, <1>9, <2>1, RestWeighs
  <1>11. ASSUME NEW n \in X
         PROVE  rho[n] = Weigh(w, R[n])
    <2>1. CASE n.depth > H
      <3>1. R[n] = <<>>
        BY <1>4, <2>1 DEF Rest, H
      <3>2. rho[n] = 0
        BY <1>3, <1>9, <2>1 DEF IsRest
      <3>3. QED
        BY <3>1, <3>2, WeighNone, Zenon
    <2>2. CASE ~(n.depth > H)
      <3> DEFINE e == n.depth
                 f == Levels(<<n>>, Below)
      <3>1. e \in 0 .. H
        BY <1>1, <1>3, <2>2
      <3>2. <<n>> \in Seq(X) /\ Range(<<n>>) = {n}
        BY DEF Range
      <3>3. f[0] = <<n>> /\ Descends(X, ch, f)
        BY <1>7, <3>2
      <3>4. AtDepth(dep, f[0], e)
        BY <1>3, <3>2, <3>3 DEF AtDepth
      <3>5. R[n] = DownTo(f, H - e)
        BY <1>4, <2>2, Zenon DEF Rest, H
      <3> HIDE DEF e, f
      <3>6. Weigh(w, DownTo(f, H - e)) = Weigh(rho, f[0])
        BY <1>10, <3>1, <3>3, <3>4, Zenon DEF RestLaw
      <3>7. Weigh(rho, <<n>>) = rho[n]
        BY WeighOne
      <3>8. QED
        BY <3>3, <3>5, <3>6, <3>7, Zenon
    <2>3. QED
      BY <2>1, <2>2
  <1>12. \A s \in Seq(X) : Weigh(w, Pending(asked, s)) = Weigh(rho, s)
    <2>1. \A s \in Seq(X) : Weigh(w, Under(R, s)) = Weigh(rho, s)
      BY <1>1, <1>5, <1>9, <1>11, UnderWeighs
    <2>2. QED
      BY <1>6, <2>1, Zenon
  <1>13. Weigh(w, Pending(asked, r)) = Weigh(w, DownTo(LevelsOf(asked), H))
    <2> DEFINE f == LevelsOf(asked)
    <2>1. r \in Seq(X) /\ AtDepth(dep, r, 0)
      <3>1. r \in Seq(X) /\ \A n \in Range(r) : n.depth = 0
        BY <1>2 DEF r
      <3>2. Range(r) \subseteq X
        BY <3>1, RangeWithin
      <3>3. QED
        BY <1>3, <3>1, <3>2 DEF AtDepth
    <2>2. f[0] = r /\ Descends(X, ch, f)
      BY <1>7, <1>8, <2>1 DEF r
    <2> HIDE DEF f
    <2>3. Weigh(w, DownTo(f, H - 0)) = Weigh(rho, f[0])
      <3>1. 0 \in 0 .. H
        BY <1>1
      <3>2. QED
        BY <1>10, <2>1, <2>2, <3>1, Zenon DEF RestLaw
    <2>4. H - 0 = H
      BY <1>1
    <2>5. QED
      BY <1>12, <2>1, <2>2, <2>3, <2>4, Zenon DEF f
  <1>14. Weigh(w, Pending(asked, <<>>)) = 0
    <2>1. <<>> \in Seq(X)
      OBVIOUS
    <2>2. QED
      BY <1>12, <2>1, WeighNone, Zenon
  <1>15. ASSUME NEW n \in X, NEW s \in Seq(X), n.depth <= H
         PROVE  Weigh(w, Pending(asked, <<n>> \o s)) = w[n] + Weigh(w, Pending(asked, Below(n) \o s))
    <2>1. ch[n] \in Seq(X) /\ ch[n] = Below(n)
      BY <1>2, <1>3
    <2> DEFINE b == Below(n)
    <2> HIDE DEF b
    <2>2. b \in Seq(X) /\ <<n>> \in Seq(X)
      BY <2>1 DEF b
    <2>3. <<n>> \o s \in Seq(X) /\ b \o s \in Seq(X)
      BY <2>2
    <2>4. Weigh(rho, <<n>> \o s) = Weigh(rho, <<n>>) + Weigh(rho, s)
          /\ Weigh(rho, b \o s) = Weigh(rho, b) + Weigh(rho, s)
      BY <2>2, WeighJoin
    <2>5. Weigh(rho, <<n>>) = rho[n]
      BY WeighOne
    <2>6. rho[n] = w[n] + Weigh(rho, b)
      <3>1. ~(n.depth > H)
        BY <1>1, <1>3, <1>15
      <3>2. rho[n] = w[n] + Weigh(rho, ch[n])
        BY <1>3, <1>9, <3>1 DEF IsRest
      <3>3. QED
        BY <2>1, <3>2, Zenon DEF b
    <2> DEFINE p == Weigh(rho, <<n>> \o s)
               q == Weigh(rho, b \o s)
               x == Weigh(rho, b)
               y == Weigh(rho, s)
               z == w[n]
    <2>7. x \in Nat /\ y \in Nat /\ z \in Nat
      <3>1. z \in Nat
        BY <1>5
      <3>2. QED
        BY <2>2, <3>1, WeighFacts
    <2>8. p = (z + x) + y /\ q = x + y
      BY <2>4, <2>5, <2>6, Zenon
    <2> HIDE DEF p, q, x, y, z
    <2>9. p = z + q
      BY <2>7, <2>8
    <2>10. Weigh(w, Pending(asked, <<n>> \o s)) = p /\ Weigh(w, Pending(asked, b \o s)) = q
      BY <1>12, <2>3, Zenon DEF p, q
    <2>11. QED
      BY <2>9, <2>10, Zenon DEF z, b
  <1>16. QED
    BY <1>13, <1>14, <1>15 DEF Ledger, X, H, r

-----------------------------------------------------------------------------
(* What the walk asks of the nodes that it has before it, when it has      *)
(* counted some nodes and some characters already.                         *)
IsGood(asked, n) ==
    /\ n.depth <= asked.gate.limits.depth
    /\ Fits(n.value, n.schema)
    /\ ~TooWide(n.value, asked.gate.limits)

Keeps(asked, nodes, seen, chars) ==
    /\ seen + Len(nodes) <= asked.gate.limits.nodes
    /\ chars + SumOf([i \in DOMAIN nodes |-> Chars(nodes[i].value)]) <= asked.gate.limits.chars
    /\ \A n \in Range(nodes) : IsGood(asked, n)

(* The same, weighed.                                                      *)
Ones(asked) == [n \in Nodes(asked) |-> 1]
CharsOf(asked) == [n \in Nodes(asked) |-> Chars(n.value)]
Faults(asked) == [n \in Nodes(asked) |-> IF IsGood(asked, n) THEN 0 ELSE 1]

(* The limits a request is validated with.                                 *)
LEMMA LimitsAreNumbers ==
  ASSUME NEW asked \in Requests
  PROVE  /\ asked.gate.limits.depth \in Nat /\ asked.gate.limits.nodes \in Nat \ {0}
         /\ asked.gate.limits.chars \in Nat
PROOF
  BY RequestAssumption DEF IsRequest

(* The three weights, which count nodes, characters and faults.            *)
LEMMA WeightsAre ==
  ASSUME NEW asked \in Requests
  PROVE  /\ Ones(asked) \in [Nodes(asked) -> Nat]
         /\ CharsOf(asked) \in [Nodes(asked) -> Nat]
         /\ Faults(asked) \in [Nodes(asked) -> Nat]
         /\ \A n \in Nodes(asked) : /\ Ones(asked)[n] = 1
                                    /\ CharsOf(asked)[n] = Chars(n.value)
                                    /\ Faults(asked)[n] = IF IsGood(asked, n) THEN 0 ELSE 1
PROOF
  <1> DEFINE X == Nodes(asked)
  <1>1. \A n \in X : Chars(n.value) \in Nat
    <2>1. \A n \in X : n.value \in AllValues
      <3>1. ValueOf(asked) \in [X -> AllValues]
        BY NodeFacts
      <3>2. QED
        BY <3>1 DEF ValueOf
    <2>2. QED
      BY <2>1, ValueFacts
  <1>2. Ones(asked) \in [X -> Nat] /\ \A n \in X : Ones(asked)[n] = 1
    BY DEF Ones
  <1>3. CharsOf(asked) \in [X -> Nat] /\ \A n \in X : CharsOf(asked)[n] = Chars(n.value)
    BY <1>1 DEF CharsOf
  <1>4. Faults(asked) \in [X -> Nat] /\ \A n \in X : Faults(asked)[n] = IF IsGood(asked, n) THEN 0 ELSE 1
    BY DEF Faults
  <1>5. QED
    BY <1>2, <1>3, <1>4

(* What Keeps says, by weights: a sequence has no faulty node when its     *)
(* faults weigh nothing.                                                   *)
LEMMA KeepsIsWeighed ==
  ASSUME NEW asked \in Requests, NEW s \in Seq(Nodes(asked)), NEW seen, NEW chars
  PROVE  /\ Weigh(Ones(asked), s) \in Nat /\ Weigh(CharsOf(asked), s) \in Nat
         /\ Weigh(Faults(asked), s) \in Nat
         /\ Keeps(asked, s, seen, chars) <=>
               /\ seen + Weigh(Ones(asked), s) <= asked.gate.limits.nodes
               /\ chars + Weigh(CharsOf(asked), s) <= asked.gate.limits.chars
               /\ Weigh(Faults(asked), s) = 0
PROOF
  <1> DEFINE X == Nodes(asked)
             ones == Ones(asked)
             cs == CharsOf(asked)
             fs == Faults(asked)
  <1>1. /\ ones \in [X -> Nat] /\ cs \in [X -> Nat] /\ fs \in [X -> Nat]
        /\ \A n \in X : /\ ones[n] = 1
                        /\ cs[n] = Chars(n.value)
                        /\ fs[n] = IF IsGood(asked, n) THEN 0 ELSE 1
    BY WeightsAre
  <1>2. s \in Seq(X)
    OBVIOUS
  <1> HIDE DEF X, ones, cs, fs
  <1>3. Weigh(ones, s) = Len(s)
    BY <1>1, <1>2, WeighOnes
  <1>4. Weigh(cs, s) = SumOf([i \in DOMAIN s |-> Chars(s[i].value)])
    <2>1. \A i \in DOMAIN s : s[i] \in X
      BY <1>2
    <2>2. [i \in DOMAIN s |-> cs[s[i]]] = [i \in DOMAIN s |-> Chars(s[i].value)]
      BY <1>1, <2>1
    <2>3. QED
      BY <2>2, Zenon DEF Weigh
  <1>5. Range(s) \subseteq X
    BY <1>2, RangeWithin
  <1>6. /\ Weigh(ones, s) \in Nat /\ Weigh(cs, s) \in Nat /\ Weigh(fs, s) \in Nat
        /\ (\A x \in Range(s) : fs[x] <= Weigh(fs, s))
        /\ ((\A x \in Range(s) : fs[x] = 0) => Weigh(fs, s) = 0)
    BY <1>1, <1>2, WeighFacts
  <1>7. Weigh(fs, s) = 0 <=> \A n \in Range(s) : IsGood(asked, n)
    <2>1. ASSUME Weigh(fs, s) = 0, NEW n \in Range(s)
          PROVE  IsGood(asked, n)
      <3>1. n \in X
        BY <1>5, <2>1
      <3>2. fs[n] <= 0
        BY <1>6, <2>1, Zenon
      <3>3. QED
        BY <1>1, <3>1, <3>2
    <2>2. ASSUME \A n \in Range(s) : IsGood(asked, n)
          PROVE  Weigh(fs, s) = 0
      <3>1. \A n \in Range(s) : fs[n] = 0
        BY <1>1, <1>5, <2>2, Zenon
      <3>2. QED
        BY <1>6, <3>1, Zenon
    <2>3. QED
      BY <2>1, <2>2
  <1>8. QED
    BY <1>3, <1>4, <1>6, <1>7, Zenon DEF Keeps, ones, cs, fs

-----------------------------------------------------------------------------
(* The trees of values have the shape of the trees of nodes.               *)
LEMMA LevelsOfValues ==
  ASSUME NEW asked \in Requests
  PROVE  /\ Values(asked) = Along(ValueOf(asked), Roots(asked))
         /\ \A d \in Nat : Levels(Values(asked), Children)[d] = Along(ValueOf(asked), LevelsOf(asked)[d])
         /\ \A d \in Nat : DownTo(Levels(Values(asked), Children), d)
                              = Along(ValueOf(asked), DownTo(LevelsOf(asked), d))
PROOF
  <1> DEFINE X == Nodes(asked)
             ch == BelowOf(asked)
             g == ValueOf(asked)
             f == LevelsOf(asked)
             r == Roots(asked)
             h == Levels(Values(asked), Children)
  <1>1. /\ ch \in [X -> Seq(X)] /\ g \in [X -> AllValues]
        /\ LooksAlike(X, ch, ChildrenOf, g) /\ r \in Seq(X)
    BY NodeFacts
  <1>2. f[0] = r /\ Descends(X, ch, f)
    BY <1>1, NodesDescend DEF LevelsOf
  <1>3. \A n \in X : g[n] = n.value
    BY DEF ValueOf
  <1>4. Values(asked) = [i \in DOMAIN r |-> r[i].value]
    BY DEF Values
  <1> HIDE DEF X, ch, g, f, r
  <1>5. Values(asked) = Along(g, r) /\ Along(g, r) \in Seq(AllValues)
    <2>1. \A i \in DOMAIN r : r[i] \in X
      BY <1>1
    <2>2. Along(g, r) = [i \in DOMAIN r |-> r[i].value]
      BY <1>3, <2>1 DEF Along
    <2>3. Along(g, r) \in Seq(AllValues)
      BY <1>1, AlongFacts
    <2>4. QED
      BY <1>4, <2>2, <2>3
  <1>6. /\ ChildrenOf \in [AllValues -> Seq(AllValues)]
        /\ h[0] = Values(asked) /\ Descends(AllValues, ChildrenOf, h)
    BY <1>5, ValuesDescend
  <1> HIDE DEF h
  <1>7. h[0] = Along(g, f[0])
    BY <1>2, <1>5, <1>6
  <1>8. Alike(g, f, h)
    <2> DEFINE Y == AllValues
    <2>1. ChildrenOf \in [Y -> Seq(Y)] /\ g \in [X -> Y] /\ Descends(Y, ChildrenOf, h)
      BY <1>1, <1>6
    <2> HIDE DEF Y
    <2>2. QED
      BY <1>1, <1>2, <1>7, <2>1, LevelsAlike, Zenon
  <1>9. ASSUME NEW d \in Nat
        PROVE  DownTo(h, d) = Along(g, DownTo(f, d))
    <2> DEFINE Y == AllValues
    <2>1. g \in [X -> Y] /\ Descends(X, ch, f)
      BY <1>1, <1>2
    <2> HIDE DEF Y
    <2>2. QED
      BY <1>8, <2>1, DownAlike
  <1>10. QED
    BY <1>5, <1>8, <1>9 DEF Alike, h, g, r, f

(* The deepest of them are at one depth too many, where there may be none. *)
LEMMA DeepestNodes ==
  ASSUME NEW asked \in Requests
  PROVE  /\ AllOf(asked) = DownTo(LevelsOf(asked), asked.gate.limits.depth)
         /\ AllOf(asked) \in Seq(Nodes(asked))
         /\ DownTo(LevelsOf(asked), Deepest(asked)) \in Seq(Nodes(asked))
         /\ DownTo(LevelsOf(asked), Deepest(asked)) = AllOf(asked) \o LevelsOf(asked)[Deepest(asked)]
         /\ LevelsOf(asked)[Deepest(asked)] \in Seq(Nodes(asked))
         /\ \A n \in Range(LevelsOf(asked)[Deepest(asked)]) : n.depth = Deepest(asked)
         /\ \A n \in Range(AllOf(asked)) : n.depth <= asked.gate.limits.depth
PROOF
  <1> DEFINE X == Nodes(asked)
             ch == BelowOf(asked)
             dep == DepthOf(asked)
             f == LevelsOf(asked)
             m == asked.gate.limits.depth
  <1>1. m \in Nat /\ Deepest(asked) = m + 1
    BY LimitsAreNumbers DEF Deepest
  <1>2. /\ ch \in [X -> Seq(X)] /\ dep \in [X -> Nat] /\ IsDepth(X, ch, dep)
        /\ Roots(asked) \in Seq(X) /\ \A n \in Range(Roots(asked)) : n.depth = 0
    BY NodeFacts
  <1>3. f[0] = Roots(asked) /\ Descends(X, ch, f)
    BY <1>2, NodesDescend DEF LevelsOf
  <1>4. AllOf(asked) = DownTo(f, m)
    BY DEF AllOf, LevelsOf
  <1>5. \A n \in X : dep[n] = n.depth
    BY DEF DepthOf
  <1> HIDE DEF X, ch, dep, f, m
  <1>6. \A d \in Nat : f[d] \in Seq(X)
    BY <1>3 DEF Descends
  <1>7. DownLaws(X, f)
    BY <1>6, DownToMore
  <1>8. /\ DownTo(f, m) \in Seq(X) /\ DownTo(f, m + 1) = DownTo(f, m) \o f[m + 1]
        /\ Range(DownTo(f, m)) = UNION {Range(f[i]) : i \in 0 .. m}
    BY <1>1, <1>7, Zenon DEF DownLaws
  <1>9. DownTo(f, m + 1) \in Seq(X) /\ f[m + 1] \in Seq(X)
    <2>1. m + 1 \in Nat
      BY <1>1
    <2>2. QED
      BY <1>6, <1>7, <2>1, Zenon DEF DownLaws
  <1>10. \A d \in Nat : \A n \in Range(f[d]) : n.depth = d
    <2>1. AtDepth(dep, f[0], 0)
      <3>1. Range(Roots(asked)) \subseteq X
        BY <1>2, RangeWithin
      <3>2. QED
        BY <1>2, <1>3, <1>5, <3>1 DEF AtDepth
    <2>2. \A d \in Nat : AtDepth(dep, f[d], 0 + d)
      BY <1>2, <1>3, <2>1, DepthsGrow
    <2>3. \A d \in Nat : 0 + d = d /\ Range(f[d]) \subseteq X
      BY <1>6, RangeWithin
    <2>4. \A d \in Nat : AtDepth(dep, f[d], d)
      BY <2>2, <2>3
    <2>5. QED
      BY <1>5, <2>3, <2>4 DEF AtDepth
  <1>11. \A n \in Range(f[m + 1]) : n.depth = m + 1
    BY <1>1, <1>10
  <1>12. \A n \in Range(DownTo(f, m)) : n.depth <= m
    <2>1. \A i \in 0 .. m : \A n \in Range(f[i]) : n.depth <= m
      BY <1>1, <1>10
    <2>2. QED
      BY <1>8, <2>1
  <1>13. QED
    BY <1>1, <1>4, <1>8, <1>9, <1>11, <1>12 DEF X, f, m

(* HasShape says of the nodes down to one depth too many what Keeps says   *)
(* of them: the level that may not be there has a fault at each node.      *)
LEMMA ShapeIsKept ==
  ASSUME NEW asked \in Requests
  PROVE  HasShape(asked) <=> Keeps(asked, DownTo(LevelsOf(asked), Deepest(asked)), 0, 0)
PROOF
  <1> DEFINE X == Nodes(asked)
             f == LevelsOf(asked)
             h == Levels(Values(asked), Children)
             g == ValueOf(asked)
             m == asked.gate.limits.depth
             H == Deepest(asked)
             A == AllOf(asked)
             D == DownTo(f, H)
             last == f[H]
             limits == asked.gate.limits
  <1>1. m \in Nat /\ H = m + 1 /\ H \in Nat
    BY LimitsAreNumbers DEF Deepest
  <1>2. /\ A = DownTo(f, m) /\ A \in Seq(X) /\ D \in Seq(X) /\ D = A \o last /\ last \in Seq(X)
        /\ \A n \in Range(last) : n.depth = H
        /\ \A n \in Range(A) : n.depth <= m
    BY DeepestNodes
  <1>3. g \in [X -> AllValues] /\ \A n \in X : g[n] = n.value
    BY NodeFacts DEF ValueOf
  <1>4. h[H] = Along(g, last) /\ DownTo(h, m) = Along(g, A)
    <2>1. /\ \A d \in Nat : h[d] = Along(g, f[d])
          /\ \A d \in Nat : DownTo(h, d) = Along(g, DownTo(f, d))
      BY LevelsOfValues
    <2> HIDE DEF h, g, f, m, H, A
    <2>2. QED
      BY <1>1, <1>2, <2>1, Zenon
  <1>5. HasShape(asked) <=> /\ h[H] = <<>>
                            /\ Len(DownTo(h, m)) <= limits.nodes
                            /\ SumOf([i \in DOMAIN DownTo(h, m) |-> Chars(DownTo(h, m)[i])]) <= limits.chars
                            /\ \A v \in Range(DownTo(h, m)) : ~TooWide(v, limits)
                            /\ \A n \in Range(A) : Fits(n.value, n.schema)
    BY DEF HasShape, WithinLimits, Deepest
  <1>6. Keeps(asked, D, 0, 0) <=> /\ 0 + Len(D) <= limits.nodes
                                  /\ 0 + SumOf([i \in DOMAIN D |-> Chars(D[i].value)]) <= limits.chars
                                  /\ \A n \in Range(D) : /\ n.depth <= m
                                                         /\ Fits(n.value, n.schema)
                                                         /\ ~TooWide(n.value, limits)
    BY DEF Keeps, IsGood
  <1> DEFINE w == Along(g, A)
             total(s) == SumOf([i \in DOMAIN s |-> Chars(s[i].value)])
  <1>7. /\ Len(w) = Len(A) /\ Len(A) \in Nat
        /\ SumOf([i \in DOMAIN w |-> Chars(w[i])]) = total(A)
        /\ Range(w) = {n.value : n \in Range(A)}
    <2> HIDE DEF g, A, X
    <2>1. /\ Len(w) = Len(A) /\ DOMAIN w = DOMAIN A
          /\ \A i \in DOMAIN A : w[i] = g[A[i]]
      <3>1. AlongLaws(X, AllValues, g)
        BY <1>3, AlongJoins
      <3>2. QED
        BY <1>2, <3>1, Zenon DEF AlongLaws
    <2> HIDE DEF w
    <2>2. Range(A) \subseteq X /\ \A i \in DOMAIN A : A[i] \in X
      BY <1>2, RangeWithin
    <2>3. [i \in DOMAIN w |-> Chars(w[i])] = [i \in DOMAIN A |-> Chars(A[i].value)]
      BY <1>3, <2>1, <2>2
    <2>4. Range(w) = {n.value : n \in Range(A)}
      BY <1>3, <2>1, <2>2 DEF Range
    <2>5. Len(A) \in Nat
      BY <1>2
    <2>6. QED
      BY <2>1, <2>3, <2>4, <2>5, Zenon
  <1>8. total(A) \in Nat
    <2>1. total(A) = Weigh(CharsOf(asked), A)
      <3>1. \A i \in DOMAIN A : A[i] \in X
        <4> HIDE DEF A, X
        <4>1. QED
          BY <1>2
      <3>2. \A n \in X : CharsOf(asked)[n] = Chars(n.value)
        BY WeightsAre
      <3> HIDE DEF A, X
      <3>3. [i \in DOMAIN A |-> Chars(A[i].value)] = [i \in DOMAIN A |-> CharsOf(asked)[A[i]]]
        BY <3>1, <3>2
      <3>4. QED
        BY <3>3, Zenon DEF Weigh
    <2>2. Weigh(CharsOf(asked), A) \in Nat
      <3>1. A \in Seq(Nodes(asked))
        BY <1>2
      <3>2. QED
        BY <3>1, KeepsIsWeighed
    <2>3. QED
      BY <2>1, <2>2
  <1>9. h[H] = <<>> <=> last = <<>>
    <2> HIDE DEF last, g, X
    <2>1. Along(g, last) = <<>> <=> last = <<>>
      <3>1. Len(Along(g, last)) = Len(last) /\ Along(g, last) \in Seq(AllValues)
        <4>1. AlongLaws(X, AllValues, g)
          BY <1>3, AlongJoins
        <4>2. QED
          BY <1>2, <4>1, Zenon DEF AlongLaws
      <3>2. QED
        BY <1>2, <3>1
    <2>2. QED
      BY <1>4, <2>1, Zenon
  <1>10. last = <<>> => D = A
    <2> HIDE DEF D, A, last, X
    <2>1. QED
      BY <1>2
  <1>11. (\A n \in Range(D) : n.depth <= m) => last = <<>>
    <2> HIDE DEF D, A, last, X
    <2>1. ASSUME last # <<>>
          PROVE  \E n \in Range(D) : n.depth = H
      <3>1. 1 \in DOMAIN last
        BY <1>2, <2>1
      <3>2. last[1] \in Range(last)
        BY <3>1 DEF Range
      <3>3. last[1] \in Range(D)
        <4>1. Len(A) \in Nat /\ Len(A) + 1 \in DOMAIN D /\ D[Len(A) + 1] = last[1]
          BY <1>2, <3>1
        <4>2. QED
          BY <4>1 DEF Range
      <3>4. QED
        BY <1>2, <3>2, <3>3
    <2>2. QED
      BY <1>1, <2>1
  <1> DEFINE short == Len(A) <= limits.nodes
             light == total(A) <= limits.chars
             fine == \A n \in Range(A) : Fits(n.value, n.schema) /\ ~TooWide(n.value, limits)
  <1>12. HasShape(asked) <=> last = <<>> /\ short /\ light /\ fine
    <2> HIDE DEF h, A, last, H
    <2>1. HasShape(asked) <=> /\ last = <<>>
                              /\ Len(w) <= limits.nodes
                              /\ SumOf([i \in DOMAIN w |-> Chars(w[i])]) <= limits.chars
                              /\ \A v \in Range(w) : ~TooWide(v, limits)
                              /\ \A n \in Range(A) : Fits(n.value, n.schema)
      BY <1>4, <1>5, <1>9, Zenon
    <2> HIDE DEF w
    <2>2. (\A v \in Range(w) : ~TooWide(v, limits)) <=> \A n \in Range(A) : ~TooWide(n.value, limits)
      BY <1>7
    <2>3. QED
      BY <1>7, <2>1, <2>2, Zenon
  <1>13. Keeps(asked, D, 0, 0) <=> last = <<>> /\ short /\ light /\ fine
    <2> HIDE DEF D, A, last, X, total, m
    <2>1. 0 + Len(A) = Len(A) /\ 0 + total(A) = total(A)
      BY <1>7, <1>8
    <2>2. ASSUME Keeps(asked, D, 0, 0)
          PROVE  last = <<>> /\ short /\ light /\ fine
      <3>1. \A n \in Range(D) : n.depth <= m
        BY <1>6, <2>2
      <3>2. last = <<>> /\ D = A
        BY <1>10, <1>11, <3>1, Zenon
      <3>3. 0 + total(A) <= limits.chars
        BY <1>6, <2>2, <3>2, Zenon DEF total
      <3>4. 0 + Len(A) <= limits.nodes /\ fine
        BY <1>6, <2>2, <3>2, Zenon
      <3>5. QED
        BY <2>1, <3>2, <3>3, <3>4, Zenon
    <2>3. ASSUME last = <<>>, short, light, fine
          PROVE  Keeps(asked, D, 0, 0)
      <3>1. D = A
        BY <1>10, <2>3
      <3>2. 0 + Len(A) <= limits.nodes /\ 0 + total(A) <= limits.chars
        BY <2>1, <2>3, Zenon
      <3>3. QED
        BY <1>2, <1>6, <2>3, <3>1, <3>2, Zenon DEF total
    <2>4. QED
      BY <2>2, <2>3
  <1>14. QED
    BY <1>12, <1>13, Zenon

-----------------------------------------------------------------------------
(* The walk: it begins with what a request is, each step that finds no     *)
(* fault keeps the balance, and when nothing is pending all is well.       *)
LEMMA WalkBegins ==
  ASSUME NEW asked \in Requests
  PROVE  HasShape(asked) <=> Keeps(asked, Pending(asked, Roots(asked)), 0, 0)
PROOF
  <1> DEFINE X == Nodes(asked)
             D == DownTo(LevelsOf(asked), Deepest(asked))
             P == Pending(asked, Roots(asked))
  <1>1. D \in Seq(X) /\ P \in Seq(X)
    BY DeepestNodes, NodeFacts, RestWithin
  <1>2. \A w \in [X -> Nat] : Weigh(w, P) = Weigh(w, D)
    BY LedgerIsKept DEF Ledger
  <1> HIDE DEF D, P
  <1>3. /\ Weigh(Ones(asked), P) = Weigh(Ones(asked), D)
        /\ Weigh(CharsOf(asked), P) = Weigh(CharsOf(asked), D)
        /\ Weigh(Faults(asked), P) = Weigh(Faults(asked), D)
    BY <1>2, WeightsAre
  <1>4. Keeps(asked, P, 0, 0) <=> Keeps(asked, D, 0, 0)
    <2>1. \A s \in {P, D} : Keeps(asked, s, 0, 0) <=>
               /\ 0 + Weigh(Ones(asked), s) <= asked.gate.limits.nodes
               /\ 0 + Weigh(CharsOf(asked), s) <= asked.gate.limits.chars
               /\ Weigh(Faults(asked), s) = 0
      BY <1>1, KeepsIsWeighed
    <2>2. QED
      BY <1>3, <2>1, Zenon
  <1>5. QED
    BY <1>4, ShapeIsKept DEF P, D

(* With nothing pending it is enough that what has been counted is within  *)
(* the limits.                                                             *)
LEMMA WalkEnds ==
  ASSUME NEW asked \in Requests, NEW seen \in Nat, NEW chars \in Nat
  PROVE  Keeps(asked, Pending(asked, <<>>), seen, chars) <=>
            seen <= asked.gate.limits.nodes /\ chars <= asked.gate.limits.chars
PROOF
  <1> DEFINE X == Nodes(asked)
             P == Pending(asked, <<>>)
  <1>1. P \in Seq(X)
    <2>1. <<>> \in Seq(X)
      OBVIOUS
    <2>2. QED
      BY <2>1, RestWithin
  <1>2. \A w \in [X -> Nat] : Weigh(w, P) = 0
    BY LedgerIsKept DEF Ledger
  <1> HIDE DEF P
  <1>3. Weigh(Ones(asked), P) = 0 /\ Weigh(CharsOf(asked), P) = 0 /\ Weigh(Faults(asked), P) = 0
    BY <1>2, WeightsAre
  <1>4. Keeps(asked, P, seen, chars) <=>
               /\ seen + Weigh(Ones(asked), P) <= asked.gate.limits.nodes
               /\ chars + Weigh(CharsOf(asked), P) <= asked.gate.limits.chars
               /\ Weigh(Faults(asked), P) = 0
    BY <1>1, KeepsIsWeighed
  <1>5. QED
    BY <1>3, <1>4 DEF P

(* A turn of the loop takes one node's fault, count and characters from    *)
(* what is pending.                                                        *)
LEMMA WalkSteps ==
  ASSUME NEW asked \in Requests, NEW seen \in Nat, NEW chars \in Nat,
         NEW n \in Nodes(asked), NEW s \in Seq(Nodes(asked)), n.depth <= Deepest(asked)
  PROVE  Keeps(asked, Pending(asked, <<n>> \o s), seen, chars) <=>
            /\ IsGood(asked, n)
            /\ Keeps(asked, Pending(asked, Below(n) \o s), seen + 1, chars + Chars(n.value))
PROOF
  <1> DEFINE X == Nodes(asked)
             P == Pending(asked, <<n>> \o s)
             Q == Pending(asked, Below(n) \o s)
  <1>1. P \in Seq(X) /\ Q \in Seq(X)
    <2>1. Below(n) \in Seq(X)
      <3>1. BelowOf(asked) \in [X -> Seq(X)]
        BY NodeFacts
      <3>2. QED
        BY <3>1 DEF BelowOf
    <2> DEFINE b == Below(n)
    <2> HIDE DEF b
    <2>2. <<n>> \o s \in Seq(X) /\ b \o s \in Seq(X)
      BY <2>1 DEF b
    <2>3. QED
      BY <2>2, RestWithin DEF b
  <1>2. \A w \in [X -> Nat] : Weigh(w, P) = w[n] + Weigh(w, Q)
    BY LedgerIsKept DEF Ledger
  <1> HIDE DEF P, Q
  <1>3. /\ Weigh(Ones(asked), P) = 1 + Weigh(Ones(asked), Q)
        /\ Weigh(CharsOf(asked), P) = Chars(n.value) + Weigh(CharsOf(asked), Q)
        /\ Weigh(Faults(asked), P) = (IF IsGood(asked, n) THEN 0 ELSE 1) + Weigh(Faults(asked), Q)
        /\ Chars(n.value) \in Nat
    <2>1. /\ Ones(asked) \in [X -> Nat] /\ CharsOf(asked) \in [X -> Nat] /\ Faults(asked) \in [X -> Nat]
          /\ Ones(asked)[n] = 1 /\ CharsOf(asked)[n] = Chars(n.value)
          /\ Faults(asked)[n] = IF IsGood(asked, n) THEN 0 ELSE 1
      BY WeightsAre
    <2>2. CharsOf(asked)[n] \in Nat
      BY <2>1
    <2>3. QED
      BY <1>2, <2>1, <2>2, Zenon
  <1>4. \A t \in {P, Q} : \A k, c :
               /\ Weigh(Ones(asked), t) \in Nat /\ Weigh(CharsOf(asked), t) \in Nat
               /\ Weigh(Faults(asked), t) \in Nat
               /\ Keeps(asked, t, k, c) <=>
                     /\ k + Weigh(Ones(asked), t) <= asked.gate.limits.nodes
                     /\ c + Weigh(CharsOf(asked), t) <= asked.gate.limits.chars
                     /\ Weigh(Faults(asked), t) = 0
    BY <1>1, KeepsIsWeighed
  <1> DEFINE x == Weigh(Ones(asked), Q)
             y == Weigh(CharsOf(asked), Q)
             z == Weigh(Faults(asked), Q)
             e == Chars(n.value)
             good == IsGood(asked, n)
             M == asked.gate.limits.nodes
             C == asked.gate.limits.chars
  <1>5. Keeps(asked, P, seen, chars) <=>
            /\ seen + (1 + x) <= M /\ chars + (e + y) <= C /\ (IF good THEN 0 ELSE 1) + z = 0
    BY <1>3, <1>4, Zenon
  <1>6. Keeps(asked, Q, seen + 1, chars + e) <=>
            /\ (seen + 1) + x <= M /\ (chars + e) + y <= C /\ z = 0
    BY <1>4, Zenon
  <1>7. x \in Nat /\ y \in Nat /\ z \in Nat /\ e \in Nat /\ M \in Nat /\ C \in Nat
    BY <1>3, <1>4, LimitsAreNumbers
  <1> HIDE DEF x, y, z, e, good, M, C
  <1>8. seen + (1 + x) = (seen + 1) + x /\ chars + (e + y) = (chars + e) + y
    BY <1>7
  <1>9. (IF good THEN 0 ELSE 1) + z = 0 <=> good /\ z = 0
    BY <1>7
  <1>10. Keeps(asked, P, seen, chars) <=> good /\ Keeps(asked, Q, seen + 1, chars + e)
    BY <1>5, <1>6, <1>8, <1>9, Zenon
  <1>11. QED
    BY <1>10 DEF P, Q, e, good

(* What is counted already is within the limits when the balance is.       *)
LEMMA CountedIsKept ==
  ASSUME NEW asked \in Requests, NEW seen \in Nat, NEW chars \in Nat,
         NEW s \in Seq(Nodes(asked)), Keeps(asked, Pending(asked, s), seen, chars)
  PROVE  seen <= asked.gate.limits.nodes /\ chars <= asked.gate.limits.chars
PROOF
  <1> DEFINE P == Pending(asked, s)
             x == Weigh(Ones(asked), P)
             y == Weigh(CharsOf(asked), P)
  <1>1. P \in Seq(Nodes(asked))
    BY RestWithin
  <1> HIDE DEF P
  <1>2. x \in Nat /\ y \in Nat /\ seen + x <= asked.gate.limits.nodes
        /\ chars + y <= asked.gate.limits.chars
    BY <1>1, KeepsIsWeighed DEF P
  <1> HIDE DEF x, y
  <1>3. QED
    BY <1>2, LimitsAreNumbers

-----------------------------------------------------------------------------
(* Below the last level there is nothing to add.                           *)
Stays(f, k) == \A d \in Nat : DownTo(f, k + d) = DownTo(f, k)

(* From an empty level on nothing is added.                                *)
LEMMA DownToStays ==
  ASSUME NEW X, NEW ch, NEW f, Descends(X, ch, f), NEW k \in Nat, f[k + 1] = <<>>
  PROVE  Stays(f, k)
PROOF
  <1>1. \A d \in Nat : f[(k + 1) + d] = <<>>
    <2>1. k + 1 \in Nat
      OBVIOUS
    <2>2. QED
      BY <2>1, NothingBelow
  <1>2. DownLaws(X, f)
    <2>1. \A d \in Nat : f[d] \in Seq(X)
      BY DEF Descends
    <2>2. QED
      BY <2>1, DownToMore
  <1> DEFINE So(d) == DownTo(f, k + d) = DownTo(f, k)
  <1>3. So(0)
    <2>1. k + 0 = k
      OBVIOUS
    <2>2. QED
      BY <2>1, Zenon
  <1>4. ASSUME NEW d \in Nat, So(d)
        PROVE  So(d + 1)
    <2>1. k + d \in Nat /\ (k + d) + 1 = k + (d + 1) /\ (k + 1) + d = k + (d + 1)
      OBVIOUS
    <2>2. DownTo(f, (k + d) + 1) = DownTo(f, k + d) \o f[(k + d) + 1] /\ DownTo(f, k + d) \in Seq(X)
      BY <1>2, <2>1, Zenon DEF DownLaws
    <2>3. f[(k + d) + 1] = <<>>
      BY <1>1, <2>1
    <2> DEFINE a == DownTo(f, k + d)
    <2> HIDE DEF a
    <2>4. a \in Seq(X) /\ DownTo(f, k + (d + 1)) = a \o <<>>
      BY <2>1, <2>2, <2>3, Zenon DEF a
    <2>5. a \o <<>> = a
      BY <2>4
    <2>6. QED
      BY <1>4, <2>4, <2>5, Zenon DEF a
  <1> HIDE DEF So
  <1>5. ASSUME NEW n \in Nat
        PROVE  So(n)
    <2> DEFINE S == {d \in 0 .. n : So(d)}
    <2>1. \A d \in 1 .. n : d - 1 \in Nat /\ (d - 1) + 1 = d
      OBVIOUS
    <2>2. 0 \in S /\ \A d \in 1 .. n : d - 1 \in S => d \in S
      BY <1>3, <1>4, <2>1
    <2>3. \A d \in 0 .. n : d \in S
      <3> HIDE DEF S
      <3>1. QED
        BY <2>2, Adding!InductionTo
    <2>4. QED
      BY <2>3
  <1>6. QED
    BY <1>5 DEF So, Stays

(* An element is a part of a sequence.                                     *)
LEMMA OneIsPart ==
  ASSUME NEW X, NEW s \in Seq(X), NEW x \in Range(s)
  PROVE  IsPart(X, <<x>>, s)
PROOF
  <1>1. PICK i \in DOMAIN s : s[i] = x
    BY DEF Range
  <1> DEFINE a == SubSeq(s, 1, i - 1)
             b == SubSeq(s, i + 1, Len(s))
  <1>2. i \in 1 .. Len(s) /\ Len(s) \in Nat /\ a \in Seq(X) /\ b \in Seq(X)
        /\ Len(a) = i - 1 /\ Len(b) = Len(s) - i
        /\ (\A j \in 1 .. i - 1 : a[j] = s[j])
        /\ (\A j \in 1 .. Len(s) - i : b[j] = s[i + j])
    OBVIOUS
  <1> HIDE DEF a, b
  <1>3. (a \o <<x>>) \o b = s
    <2>1. a \o <<x>> \in Seq(X) /\ Len(a \o <<x>>) = i
          /\ (\A j \in 1 .. i - 1 : (a \o <<x>>)[j] = s[j])
          /\ (a \o <<x>>)[i] = s[i]
      BY <1>1, <1>2
    <2> DEFINE c == a \o <<x>>
    <2> HIDE DEF c
    <2>2. /\ c \in Seq(X) /\ Len(c) = i
          /\ \A j \in 1 .. i : c[j] = s[j]
      <3>1. \A j \in 1 .. i : j \in 1 .. i - 1 \/ j = i
        BY <1>2
      <3>2. QED
        BY <2>1, <3>1 DEF c
    <2>3. Len(c \o b) = Len(s) /\ c \o b \in Seq(X)
      BY <1>2, <2>2
    <2>4. \A j \in 1 .. Len(s) : (c \o b)[j] = s[j]
      <3>1. ASSUME NEW j \in 1 .. i
            PROVE  (c \o b)[j] = s[j]
        BY <1>2, <2>2
      <3>2. ASSUME NEW j \in i + 1 .. Len(s)
            PROVE  (c \o b)[j] = s[j]
        <4>1. (c \o b)[j] = b[j - i]
          BY <1>2, <2>2
        <4>2. j - i \in 1 .. Len(s) - i /\ i + (j - i) = j
          BY <1>2
        <4>3. QED
          BY <1>2, <4>1, <4>2
      <3>3. \A j \in 1 .. Len(s) : j \in 1 .. i \/ j \in i + 1 .. Len(s)
        BY <1>2
      <3>4. QED
        BY <3>1, <3>2, <3>3
    <2>5. c \o b = s
      <3> DEFINE all == c \o b
                 n == Len(s)
      <3>1. /\ n \in Nat /\ Len(all) = n /\ all \in Seq(X) /\ s \in Seq(X) /\ Len(s) = n
            /\ \A j \in 1 .. n : all[j] = s[j]
        BY <1>2, <2>3, <2>4, Zenon
      <3> HIDE DEF all, n
      <3>2. all = s
        BY <3>1
      <3>3. QED
        BY <3>2 DEF all
    <2>6. QED
      BY <2>5 DEF c
  <1>4. QED
    BY <1>2, <1>3 DEF IsPart

-----------------------------------------------------------------------------
(* Values within the limits: what they weigh, and parts of them.           *)
ValueOnes == [v \in AllValues |-> 1]
ValueChars == [v \in AllValues |-> Chars(v)]
Widths(limits) == [v \in AllValues |-> IF TooWide(v, limits) THEN 1 ELSE 0]

(* The three weights of values.                                            *)
LEMMA ValueWeightsAre ==
  ASSUME NEW limits
  PROVE  /\ ValueOnes \in [AllValues -> Nat]
         /\ ValueChars \in [AllValues -> Nat]
         /\ Widths(limits) \in [AllValues -> Nat]
         /\ \A v \in AllValues : /\ ValueOnes[v] = 1
                                 /\ ValueChars[v] = Chars(v)
                                 /\ Widths(limits)[v] = IF TooWide(v, limits) THEN 1 ELSE 0
PROOF
  <1>1. \A v \in AllValues : Chars(v) \in Nat
    BY ValueFacts
  <1>2. ValueChars \in [AllValues -> Nat] /\ \A v \in AllValues : ValueChars[v] = Chars(v)
    BY <1>1 DEF ValueChars
  <1>3. ValueOnes \in [AllValues -> Nat] /\ \A v \in AllValues : ValueOnes[v] = 1
    BY DEF ValueOnes
  <1>4. /\ Widths(limits) \in [AllValues -> Nat]
        /\ \A v \in AllValues : Widths(limits)[v] = IF TooWide(v, limits) THEN 1 ELSE 0
    BY DEF Widths
  <1>5. QED
    BY <1>2, <1>3, <1>4

(* What WithinLimits says, by weights.                                     *)
WithinWeights(values, limits) ==
    LET nodes == DownTo(Levels(values, Children), limits.depth)
    IN  /\ Levels(values, Children)[limits.depth + 1] = <<>>
        /\ Weigh(ValueOnes, nodes) <= limits.nodes
        /\ Weigh(ValueChars, nodes) <= limits.chars
        /\ Weigh(Widths(limits), nodes) = 0

(* It says just that.                                                      *)
LEMMA WithinIsWeighed ==
  ASSUME NEW limits, limits.depth \in Nat, NEW values \in Seq(AllValues)
  PROVE  WithinLimits(values, limits) <=> WithinWeights(values, limits)
PROOF
  <1> DEFINE X == AllValues
             f == Levels(values, Children)
             m == limits.depth
             s == DownTo(f, m)
             ones == ValueOnes
             cs == ValueChars
             ws == Widths(limits)
  <1>1. /\ ones \in [X -> Nat] /\ cs \in [X -> Nat] /\ ws \in [X -> Nat]
        /\ \A v \in X : /\ ones[v] = 1 /\ cs[v] = Chars(v)
                        /\ ws[v] = IF TooWide(v, limits) THEN 1 ELSE 0
    BY ValueWeightsAre
  <1>2. s \in Seq(X)
    <2>1. Descends(X, ChildrenOf, f)
      BY ValuesDescend
    <2> HIDE DEF f, X
    <2>2. \A d \in Nat : f[d] \in Seq(X)
      BY <2>1 DEF Descends
    <2>3. DownLaws(X, f)
      BY <2>2, DownToMore
    <2>4. QED
      BY <2>3, Zenon DEF DownLaws
  <1>3. WithinLimits(values, limits) <=>
            /\ f[m + 1] = <<>>
            /\ Len(s) <= limits.nodes
            /\ SumOf([i \in DOMAIN s |-> Chars(s[i])]) <= limits.chars
            /\ \A v \in Range(s) : ~TooWide(v, limits)
    BY DEF WithinLimits
  <1>4. WithinWeights(values, limits) <=>
            /\ f[m + 1] = <<>>
            /\ Weigh(ones, s) <= limits.nodes
            /\ Weigh(cs, s) <= limits.chars
            /\ Weigh(ws, s) = 0
    BY DEF WithinWeights
  <1> HIDE DEF X, f, m, s, ones, cs, ws
  <1>5. Weigh(ones, s) = Len(s)
    BY <1>1, <1>2, WeighOnes
  <1>6. Weigh(cs, s) = SumOf([i \in DOMAIN s |-> Chars(s[i])])
    <2>1. \A i \in DOMAIN s : s[i] \in X
      BY <1>2
    <2>2. [i \in DOMAIN s |-> cs[s[i]]] = [i \in DOMAIN s |-> Chars(s[i])]
      BY <1>1, <2>1
    <2>3. QED
      BY <2>2, Zenon DEF Weigh
  <1>7. Range(s) \subseteq X
    BY <1>2, RangeWithin
  <1>8. /\ Weigh(ws, s) \in Nat
        /\ \A x \in Range(s) : ws[x] <= Weigh(ws, s)
        /\ (\A x \in Range(s) : ws[x] = 0) => Weigh(ws, s) = 0
    BY <1>1, <1>2, WeighFacts
  <1>9. Weigh(ws, s) = 0 <=> \A v \in Range(s) : ~TooWide(v, limits)
    <2>1. ASSUME Weigh(ws, s) = 0, NEW v \in Range(s)
          PROVE  ~TooWide(v, limits)
      <3>1. v \in X
        BY <1>7, <2>1
      <3>2. ws[v] <= 0
        BY <1>8, <2>1, Zenon
      <3>3. QED
        BY <1>1, <3>1, <3>2
    <2>2. ASSUME \A v \in Range(s) : ~TooWide(v, limits)
          PROVE  Weigh(ws, s) = 0
      <3>1. \A v \in Range(s) : ws[v] = 0
        BY <1>1, <1>7, <2>2, Zenon
      <3>2. QED
        BY <1>8, <3>1, Zenon
    <2>3. QED
      BY <2>1, <2>2
  <1>10. QED
    BY <1>3, <1>4, <1>5, <1>6, <1>9, Zenon

(* Parts of values that keep within the limits do so, and so do parts of   *)
(* what is right below them.                                               *)
LEMMA PartIsWithin ==
  ASSUME NEW limits, limits.depth \in Nat, limits.nodes \in Nat, limits.chars \in Nat,
         NEW values \in Seq(AllValues), NEW part \in Seq(AllValues), NEW e \in {0, 1},
         IsPart(AllValues, part, Levels(values, Children)[e]),
         WithinLimits(values, limits)
  PROVE  WithinLimits(part, limits)
PROOF
  <1> DEFINE X == AllValues
             f == Levels(values, Children)
             h == Levels(part, Children)
             m == limits.depth
             ch == ChildrenOf
             v == DownTo(f, m)
             p == DownTo(h, m)
  <1>1. /\ ch \in [X -> Seq(X)] /\ Descends(X, ch, f) /\ Descends(X, ch, h) /\ h[0] = part
    BY ValuesDescend
  <1>2. IsPart(X, h[0], f[e])
    BY <1>1
  <1>3. WithinWeights(values, limits)
    BY WithinIsWeighed
  <1>4. /\ f[m + 1] = <<>>
        /\ Weigh(ValueOnes, v) <= limits.nodes
        /\ Weigh(ValueChars, v) <= limits.chars
        /\ Weigh(Widths(limits), v) = 0
    BY <1>3, Zenon DEF WithinWeights
  <1>5. WithinLimits(part, limits) <=> WithinWeights(part, limits)
    BY WithinIsWeighed
  <1>6. WithinWeights(part, limits) <=>
            /\ h[m + 1] = <<>>
            /\ Weigh(ValueOnes, p) <= limits.nodes
            /\ Weigh(ValueChars, p) <= limits.chars
            /\ Weigh(Widths(limits), p) = 0
    BY DEF WithinWeights
  <1>7. /\ ValueOnes \in [X -> Nat] /\ ValueChars \in [X -> Nat] /\ Widths(limits) \in [X -> Nat]
    BY ValueWeightsAre
  <1>8. m \in Nat
    OBVIOUS
  <1> HIDE DEF X, f, h, m, ch
  <1>9. \A d \in Nat : f[(m + 1) + d] = <<>>
    <2>1. m + 1 \in Nat
      BY <1>8
    <2>2. QED
      BY <1>1, <1>4, <2>1, NothingBelow
  <1>10. h[m + 1] = <<>>
    <2>1. e \in Nat /\ m + 1 \in Nat
      BY <1>8
    <2>2. \A d \in Nat : IsPart(X, h[d], f[e + d])
      BY <1>1, <1>2, <2>1, PartsBelow
    <2>3. IsPart(X, h[m + 1], f[e + (m + 1)])
      BY <2>1, <2>2
    <2>4. e + (m + 1) = (m + 1) + e
      BY <1>8, <2>1
    <2>5. IsPart(X, h[m + 1], <<>>)
      <3>1. f[(m + 1) + e] = <<>>
        BY <1>9, <2>1
      <3>2. QED
        BY <2>3, <2>4, <3>1, Zenon
    <2>6. h[m + 1] \in Seq(X) /\ <<>> \in Seq(X)
      <3>1. h[m + 1] \in Seq(X)
        BY <1>1, <2>1, Zenon DEF Descends
      <3>2. QED
        BY <3>1
    <2>7. QED
      BY <2>5, <2>6, PartWeighs
  <1>11. DownTo(f, e + m) = v
    <2>1. CASE e = 0
      <3>1. e + m = m
        BY <1>8, <2>1
      <3>2. QED
        BY <3>1, Zenon
    <2>2. CASE e = 1
      <3>1. e + m = m + 1 /\ 1 \in Nat
        BY <1>8, <2>2
      <3>2. Descends(X, ch, f) /\ f[m + 1] = <<>>
        BY <1>1, <1>4
      <3>3. Stays(f, m)
        BY <1>8, <3>2, DownToStays
      <3>4. DownTo(f, m + 1) = DownTo(f, m)
        BY <3>1, <3>3, Zenon DEF Stays
      <3>5. QED
        BY <3>1, <3>4, Zenon
    <2>3. QED
      BY <2>1, <2>2
  <1>12. \A w \in [X -> Nat] : /\ Weigh(w, p) <= Weigh(w, v)
                               /\ Weigh(w, p) \in Nat /\ Weigh(w, v) \in Nat
    <2>1. ASSUME NEW w \in [X -> Nat]
          PROVE  /\ Weigh(w, p) <= Weigh(w, v)
                 /\ Weigh(w, p) \in Nat /\ Weigh(w, v) \in Nat
      <3>1. e \in Nat
        OBVIOUS
      <3>2. \A d \in Nat : Weigh(w, DownTo(h, d)) <= Weigh(w, DownTo(f, e + d))
        BY <1>1, <1>2, <3>1, PartIsLighter
      <3>3. Weigh(w, p) <= Weigh(w, v)
        BY <1>8, <1>11, <3>2, Zenon
      <3>4. p \in Seq(X) /\ v \in Seq(X)
        <4>1. (\A d \in Nat : f[d] \in Seq(X)) /\ (\A d \in Nat : h[d] \in Seq(X))
          BY <1>1 DEF Descends
        <4>2. DownLaws(X, f) /\ DownLaws(X, h)
          BY <4>1, DownToMore
        <4>3. QED
          BY <1>8, <4>2, Zenon DEF DownLaws
      <3> HIDE DEF p, v
      <3>5. QED
        BY <3>3, <3>4, WeighFacts
    <2>2. QED
      BY <2>1
  <1> HIDE DEF p, v
  <1>13. /\ Weigh(ValueOnes, p) <= limits.nodes
         /\ Weigh(ValueChars, p) <= limits.chars
         /\ Weigh(Widths(limits), p) = 0
    <2> DEFINE a == Weigh(ValueOnes, p)
               b == Weigh(ValueChars, p)
               c == Weigh(Widths(limits), p)
               k == Weigh(ValueOnes, v)
               l == Weigh(ValueChars, v)
               n == Weigh(Widths(limits), v)
    <2>1. /\ a <= k /\ b <= l /\ c <= n
          /\ a \in Nat /\ b \in Nat /\ c \in Nat /\ k \in Nat /\ l \in Nat /\ n \in Nat
      BY <1>7, <1>12, Zenon
    <2>2. k <= limits.nodes /\ l <= limits.chars /\ n = 0
      BY <1>4, Zenon
    <2> HIDE DEF a, b, c, k, l, n
    <2>3. a <= limits.nodes /\ b <= limits.chars /\ c = 0
      BY <2>1, <2>2
    <2>4. QED
      BY <2>3 DEF a, b, c
  <1>14. QED
    BY <1>5, <1>6, <1>10, <1>13, Zenon

-----------------------------------------------------------------------------
(* What inspection looks for: a value is clean if nothing at it or below   *)
(* it, down to the limit, has a finding.                                   *)
IsClean(asked, v) ==
    HasNoFinding(asked, Range(DownTo(Levels(<<v>>, Children), asked.gate.limits.depth)))

(* The values with a finding of their own, and those with one at or below  *)
(* them at any depth.                                                      *)
Flawed(asked) == {v \in AllValues : \E s \in StringsOf(v) : HasFinding(asked, s)}

Over(asked) == Tainted(AllValues, ChildrenOf, Flawed(asked))

(* Of values within the limits there is no finding, down to the limit,     *)
(* exactly when none is at or below any of them: there is nothing deeper.  *)
LEMMA CleanAre ==
  ASSUME NEW asked \in Requests, NEW values \in Seq(AllValues),
         WithinLimits(values, asked.gate.limits)
  PROVE  HasNoFinding(asked, Range(DownTo(Levels(values, Children), asked.gate.limits.depth)))
            <=> \A v \in Range(values) : v \notin Over(asked)
PROOF
  <1> DEFINE X == AllValues
             f == Levels(values, Children)
             m == asked.gate.limits.depth
             F == Flawed(asked)
             T == Over(asked)
  <1>1. m \in Nat
    BY LimitsAreNumbers
  <1>2. f[m + 1] = <<>>
    BY DEF WithinLimits
  <1>3. ChildrenOf \in [X -> Seq(X)] /\ f[0] = values /\ Descends(X, ChildrenOf, f)
    BY ValuesDescend
  <1>4. /\ F \in SUBSET X /\ T = Tainted(X, ChildrenOf, F)
        /\ \A v \in X : v \in F <=> \E s \in StringsOf(v) : HasFinding(asked, s)
    BY DEF Flawed, Over
  <1>5. HasNoFinding(asked, Range(DownTo(f, m)))
            <=> \A v \in Range(DownTo(f, m)) : \A s \in StringsOf(v) : ~HasFinding(asked, s)
    BY DEF HasNoFinding
  <1> HIDE DEF X, f, m, F, T
  <1>6. \A d \in Nat : f[(m + 1) + d] = <<>>
    <2>1. m + 1 \in Nat
      BY <1>1
    <2>2. QED
      BY <1>2, <1>3, <2>1, NothingBelow
  <1>7. \A d \in Nat : f[d] \in Seq(X) /\ Range(f[d]) \subseteq X
    BY <1>3, RangeWithin DEF Descends
  <1>8. Range(DownTo(f, m)) = UNION {Range(f[i]) : i \in 0 .. m}
    <2>1. DownLaws(X, f)
      BY <1>7, DownToMore
    <2>2. QED
      BY <1>1, <2>1, Zenon DEF DownLaws
  <1>9. \A v : v \in Range(DownTo(f, m)) <=> \E d \in Nat : v \in Range(f[d])
    <2>1. ASSUME NEW v, NEW d \in Nat, v \in Range(f[d])
          PROVE  v \in Range(DownTo(f, m))
      <3>1. CASE d <= m
        <4>1. d \in 0 .. m
          BY <1>1, <3>1
        <4>2. QED
          BY <1>8, <2>1, <4>1
      <3>2. CASE ~(d <= m)
        <4>1. d - (m + 1) \in Nat /\ (m + 1) + (d - (m + 1)) = d
          BY <1>1, <3>2
        <4>2. f[d] = <<>>
          BY <1>6, <4>1
        <4>3. Range(<<>>) = {}
          BY DEF Range
        <4>4. QED
          BY <2>1, <4>2, <4>3
      <3>3. QED
        BY <3>1, <3>2
    <2>2. ASSUME NEW v, v \in Range(DownTo(f, m))
          PROVE  \E d \in Nat : v \in Range(f[d])
      <3>1. PICK i \in 0 .. m : v \in Range(f[i])
        BY <1>8, <2>2
      <3>2. i \in Nat
        BY <1>1
      <3>3. QED
        BY <3>1, <3>2
    <2>3. QED
      BY <2>1, <2>2
  <1>10. (\E d \in Nat : \E x \in Range(f[d]) : x \in F) <=> \E x \in Range(f[0]) : x \in T
    BY <1>3, <1>4, TaintedLevels
  <1>11. (\A v \in Range(DownTo(f, m)) : \A s \in StringsOf(v) : ~HasFinding(asked, s))
            <=> ~\E d \in Nat : \E x \in Range(f[d]) : x \in F
    BY <1>4, <1>7, <1>9
  <1>12. QED
    BY <1>3, <1>5, <1>10, <1>11, Zenon DEF f, m, T

(* The same of one value.                                                  *)
LEMMA CleanIs ==
  ASSUME NEW asked \in Requests, NEW v \in AllValues, WithinLimits(<<v>>, asked.gate.limits)
  PROVE  IsClean(asked, v) <=> v \notin Over(asked)
PROOF
  <1>1. <<v>> \in Seq(AllValues) /\ Range(<<v>>) = {v}
    BY DEF Range
  <1>2. IsClean(asked, v) <=> \A x \in Range(<<v>>) : x \notin Over(asked)
    BY <1>1, CleanAre DEF IsClean
  <1>3. QED
    BY <1>1, <1>2

-----------------------------------------------------------------------------
(* What one turn of the inspection puts on the stack.                      *)
InspectedBelow(value) ==
    IF value.type = "object"
    THEN FlattenSeq([i \in DOMAIN value.members |->
             <<StringValue(value.members[i][1]), value.members[i][2]>>])
    ELSE Children(value)

(* A key, as the string that is inspected.                                 *)
LEMMA StringValueIs ==
  ASSUME NEW string \in Seq(Characters)
  PROVE  /\ StringValue(string) \in AllValues
         /\ StringValue(string).type = "string" /\ StringValue(string).value = string
         /\ Children(StringValue(string)) = <<>>
         /\ StringsOf(StringValue(string)) = {string}
         /\ Chars(StringValue(string)) = Len(string)
         /\ \A limits : ~TooWide(StringValue(string), limits)
PROOF
  <1> DEFINE v == StringValue(string)
  <1>1. v \in AllValues
    BY DEF AllValues
  <1>2. v.type = "string" /\ v.value = string
    BY DEF StringValue
  <1> HIDE DEF v
  <1>3. Children(v) = <<>> /\ Keys(v) = <<>> /\ Chars(v) = Len(string)
    BY <1>2 DEF Children, Keys, Chars
  <1>4. \A limits : ~TooWide(v, limits)
    BY <1>2 DEF TooWide
  <1>5. StringsOf(v) = {string}
    <2>1. Range(<<>>) = {}
      BY DEF Range
    <2>2. StringsOf(v) = Range(<<>>) \cup {string}
      BY <1>2, <1>3 DEF StringsOf
    <2>3. QED
      BY <2>1, <2>2
  <1>6. QED
    BY <1>1, <1>2, <1>3, <1>4, <1>5 DEF v

(* The strings of a value, by its type.                                    *)
LEMMA ValueIs ==
  ASSUME NEW v \in AllValues
  PROVE  /\ v.type = "string" => /\ Children(v) = <<>> /\ Keys(v) = <<>>
                                 /\ v.value \in Seq(Characters) /\ StringsOf(v) = {v.value}
         /\ v.type # "string" => StringsOf(v) = Range(Keys(v))
         /\ v.type \notin {"string", "object"} => Keys(v) = <<>>
PROOF
  <1>1. v.type = "string" => v.value \in Seq(Characters)
    BY ValueFacts
  <1>2. v.type \notin {"object"} => Keys(v) = <<>>
    BY DEF Keys
  <1>3. v.type = "string" => Children(v) = <<>>
    BY DEF Children
  <1>4. Range(<<>>) = {}
    BY DEF Range
  <1>5. v.type = "string" => StringsOf(v) = Range(Keys(v)) \cup {v.value}
    BY DEF StringsOf
  <1>6. v.type # "string" => StringsOf(v) = Range(Keys(v)) \cup {}
    BY DEF StringsOf
  <1>7. QED
    BY <1>1, <1>2, <1>3, <1>4, <1>5, <1>6

(* The keys of an object and the values below it, in any order, are what   *)
(* is inspected next.                                                      *)
LEMMA BelowIs ==
  ASSUME NEW v \in AllValues
  PROVE  /\ InspectedBelow(v) \in Seq(AllValues)
         /\ v.type = "object" => Range(InspectedBelow(v)) = {StringValue(k) : k \in Range(Keys(v))}
                                                              \cup Range(Children(v))
         /\ v.type # "object" => InspectedBelow(v) = Children(v)
PROOF
  <1>1. Children(v) \in Seq(AllValues) /\ Keys(v) \in Seq(Seq(Characters))
    BY ValueFacts
  <1>2. v.type # "object" => InspectedBelow(v) = Children(v)
    BY DEF InspectedBelow
  <1>3. ASSUME v.type = "object"
        PROVE  /\ InspectedBelow(v) \in Seq(AllValues)
               /\ Range(InspectedBelow(v)) = {StringValue(k) : k \in Range(Keys(v))}
                                                \cup Range(Children(v))
    <2> DEFINE m == v.members
               X == AllValues
               C == Seq(Characters)
               n == Len(m)
               k == Keys(v)
               c == Children(v)
               parts == [i \in 1 .. n |-> <<StringValue(m[i][1]), m[i][2]>>]
    <2>1. m \in Seq(C \X JSONValues)
      <3>1. IsValue(v)
        <4>1. CASE v \in JSONValues
          BY <4>1, RequestAssumption
        <4>2. ASSUME NEW string \in Seq(Characters), v = StringValue(string)
              PROVE  IsValue(v)
          BY <4>2 DEF IsValue, StringValue
        <4>3. QED
          BY <4>1, <4>2 DEF AllValues
      <3>2. QED
        BY <1>3, <3>1 DEF IsValue
    <2>2. k = [i \in DOMAIN m |-> m[i][1]] /\ c = [i \in DOMAIN m |-> m[i][2]]
      BY <1>3 DEF Keys, Children
    <2>3. InspectedBelow(v) = FlattenSeq([i \in DOMAIN m |-> <<StringValue(m[i][1]), m[i][2]>>])
      BY <1>3 DEF InspectedBelow
    <2>4. \A string \in C : StringValue(string) \in X
      BY DEF AllValues
    <2>5. JSONValues \subseteq X
      BY DEF AllValues
    <2> HIDE DEF m, X, C, k, c
    <2>6. n \in Nat /\ DOMAIN m = 1 .. n /\ \A i \in 1 .. n : m[i][1] \in C /\ m[i][2] \in JSONValues
      <3>1. n \in Nat /\ DOMAIN m = 1 .. n /\ \A i \in 1 .. n : m[i] \in C \X JSONValues
        BY <2>1
      <3>2. QED
        BY <3>1
    <2> HIDE DEF n
    <2>7. k = [i \in 1 .. n |-> m[i][1]] /\ c = [i \in 1 .. n |-> m[i][2]]
      BY <2>2, <2>6
    <2>8. parts \in Seq(Seq(X)) /\ DOMAIN parts = 1 .. n
          /\ \A i \in 1 .. n : Range(parts[i]) = {StringValue(m[i][1]), m[i][2]}
      <3>1. ASSUME NEW i \in 1 .. n
            PROVE  /\ <<StringValue(m[i][1]), m[i][2]>> \in Seq(X)
                   /\ Range(<<StringValue(m[i][1]), m[i][2]>>) = {StringValue(m[i][1]), m[i][2]}
        <4> DEFINE a == StringValue(m[i][1])
                   b == m[i][2]
        <4>1. a \in X /\ b \in X
          BY <2>4, <2>5, <2>6
        <4> HIDE DEF a, b
        <4>2. <<a, b>> \in Seq(X) /\ Range(<<a, b>>) = {a, b}
          BY <4>1 DEF Range
        <4>3. QED
          BY <4>2 DEF a, b
      <3> DEFINE Q == Seq(X)
                 pair(i) == <<StringValue(m[i][1]), m[i][2]>>
      <3>2. \A i \in 1 .. n : pair(i) \in Q /\ Range(pair(i)) = {StringValue(m[i][1]), m[i][2]}
        BY <3>1
      <3> HIDE DEF Q, pair
      <3>3. [i \in 1 .. n |-> pair(i)] \in Seq(Q)
        BY <2>6, <3>2
      <3>4. parts = [i \in 1 .. n |-> pair(i)]
        BY DEF pair
      <3>5. DOMAIN parts = 1 .. n /\ \A i \in 1 .. n : parts[i] = pair(i)
        BY <3>4
      <3>6. parts \in Seq(Q)
        BY <3>3, <3>4, Zenon
      <3> HIDE DEF parts
      <3>7. QED
        BY <3>2, <3>5, <3>6 DEF Q
    <2>9. InspectedBelow(v) = FlattenSeq(parts)
      BY <2>3, <2>6
    <2> HIDE DEF parts
    <2>10. FlattenSeq(parts) \in Seq(X)
           /\ Range(FlattenSeq(parts)) = UNION {Range(parts[i]) : i \in DOMAIN parts}
      BY <2>8, FlattenOf
    <2>11. UNION {Range(parts[i]) : i \in DOMAIN parts}
              = {StringValue(x) : x \in Range(k)} \cup Range(c)
      <3>1. Range(k) = {m[i][1] : i \in 1 .. n} /\ Range(c) = {m[i][2] : i \in 1 .. n}
        BY <2>7 DEF Range
      <3>2. {StringValue(x) : x \in Range(k)} = {StringValue(m[i][1]) : i \in 1 .. n}
        BY <3>1
      <3>3. UNION {Range(parts[i]) : i \in DOMAIN parts}
               = UNION {{StringValue(m[i][1]), m[i][2]} : i \in 1 .. n}
        BY <2>8
      <3>4. QED
        BY <3>1, <3>2, <3>3
    <2>12. QED
      BY <2>9, <2>10, <2>11 DEF X, k, c
  <1>4. QED
    BY <1>1, <1>2, <1>3

(* A key of an object that keeps within the limits does.                   *)
LEMMA KeyIsWithin ==
  ASSUME NEW limits, limits.depth \in Nat, limits.nodes \in Nat \ {0}, limits.chars \in Nat,
         NEW v \in AllValues, v.type = "object", WithinLimits(<<v>>, limits),
         NEW k \in Range(Keys(v))
  PROVE  WithinLimits(<<StringValue(k)>>, limits)
PROOF
  <1> DEFINE X == AllValues
             m == limits.depth
             x == StringValue(k)
             f == Levels(<<v>>, Children)
             h == Levels(<<x>>, Children)
  <1>1. k \in Seq(Characters)
    <2> DEFINE C == Seq(Characters)
    <2>1. Keys(v) \in Seq(C)
      BY ValueFacts
    <2> HIDE DEF C
    <2>2. k \in C
      BY <2>1, RangeWithin
    <2>3. QED
      BY <2>2 DEF C
  <1>2. /\ x \in X /\ Children(x) = <<>> /\ Chars(x) = Len(k)
        /\ ~TooWide(x, limits)
    BY <1>1, StringValueIs
  <1> HIDE DEF x
  <1>3. /\ ChildrenOf \in [X -> Seq(X)]
        /\ f[0] = <<v>> /\ Descends(X, ChildrenOf, f)
        /\ h[0] = <<x>> /\ Descends(X, ChildrenOf, h)
    <2>1. <<v>> \in Seq(X) /\ <<x>> \in Seq(X)
      BY <1>2
    <2>2. QED
      BY <2>1, ValuesDescend
  <1>4. WithinWeights(<<v>>, limits) /\ <<v>> \in Seq(X)
    <2>1. <<v>> \in Seq(X)
      OBVIOUS
    <2>2. QED
      BY <2>1, WithinIsWeighed
  <1>5. Weigh(ValueChars, DownTo(f, m)) <= limits.chars
    BY <1>4, Zenon DEF WithinWeights
  <1>6. WithinLimits(<<x>>, limits) <=>
            /\ h[m + 1] = <<>>
            /\ Len(DownTo(h, m)) <= limits.nodes
            /\ SumOf([i \in DOMAIN DownTo(h, m) |-> Chars(DownTo(h, m)[i])]) <= limits.chars
            /\ \A y \in Range(DownTo(h, m)) : ~TooWide(y, limits)
    BY DEF WithinLimits
  <1>7. m \in Nat
    OBVIOUS
  <1>8. ChildrenOf[x] = <<>>
    BY <1>2 DEF ChildrenOf
  <1> DEFINE w == ValueChars
  <1>9. w \in [X -> Nat] /\ \A y \in X : w[y] = Chars(y)
    BY ValueWeightsAre
  <1> HIDE DEF X, m, f, h, w
  <1>10. h[1] = <<>>
    <2>1. h[0 + 1] = Under(ChildrenOf, h[0])
      BY <1>3, Zenon DEF Descends
    <2>2. Under(ChildrenOf, <<x>>) = ChildrenOf[x]
      BY <1>2, <1>3, UnderOne
    <2>3. 0 + 1 = 1
      OBVIOUS
    <2>4. QED
      BY <1>3, <1>8, <2>1, <2>2, <2>3, Zenon
  <1>11. h[m + 1] = <<>>
    <2>1. \A d \in Nat : h[1 + d] = <<>>
      <3>1. 1 \in Nat
        OBVIOUS
      <3>2. QED
        BY <1>3, <1>10, <3>1, NothingBelow
    <2>2. 1 + m = m + 1
      BY <1>7
    <2>3. QED
      BY <1>7, <2>1, <2>2, Zenon
  <1>12. DownTo(h, m) = <<x>>
    <2>1. Stays(h, 0)
      <3>1. 0 \in Nat /\ h[0 + 1] = <<>>
        BY <1>10
      <3>2. QED
        BY <1>3, <3>1, DownToStays
    <2>2. DownTo(h, 0 + m) = DownTo(h, 0)
      BY <1>7, <2>1, Zenon DEF Stays
    <2>3. DownTo(h, 0) = h[0]
      <3>1. \A d \in Nat : h[d] \in Seq(X)
        BY <1>3 DEF Descends
      <3>2. DownLaws(X, h)
        BY <3>1, DownToMore
      <3>3. QED
        BY <3>2, Zenon DEF DownLaws
    <2>4. 0 + m = m
      BY <1>7
    <2>5. QED
      BY <1>3, <2>2, <2>3, <2>4, Zenon
  <1>13. Len(<<x>>) <= limits.nodes
    OBVIOUS
  <1>14. SumOf([i \in DOMAIN <<x>> |-> Chars(<<x>>[i])]) = Len(k)
    <2>1. Weigh(w, <<x>>) = w[x]
      BY <1>2, <1>9, WeighOne
    <2>2. Weigh(w, <<x>>) = SumOf([i \in DOMAIN <<x>> |-> w[<<x>>[i]]])
      BY DEF Weigh
    <2>3. [i \in DOMAIN <<x>> |-> w[<<x>>[i]]] = [i \in DOMAIN <<x>> |-> Chars(<<x>>[i])]
      BY <1>2, <1>9
    <2>4. w[x] = Len(k)
      BY <1>2, <1>9
    <2>5. QED
      BY <2>1, <2>2, <2>3, <2>4, Zenon
  <1>15. Len(k) <= Chars(v)
    <2> DEFINE ks == Keys(v)
               C == Seq(Characters)
               n == Len(ks)
               a == [i \in 1 .. n |-> Len(ks[i])]
    <2>1. ks \in Seq(C) /\ \A c \in C : Len(c) \in Nat
      BY ValueFacts
    <2>2. Chars(v) = SumOf([i \in DOMAIN ks |-> Len(ks[i])])
      BY DEF Chars
    <2>3. k \in Range(ks)
      OBVIOUS
    <2> HIDE DEF ks, C
    <2>4. n \in Nat /\ DOMAIN ks = 1 .. n /\ a \in [1 .. n -> Nat]
      BY <2>1
    <2>5. PICK i \in 1 .. n : k = ks[i]
      BY <2>3, <2>4 DEF Range
    <2>6. a[i] = Len(k)
      BY <2>5
    <2> HIDE DEF a
    <2>7. a[i] <= SumOf(a)
      BY <2>4, SumIsLarge
    <2>8. SumOf(a) = Chars(v)
      BY <2>2, <2>4 DEF a
    <2>9. QED
      BY <2>6, <2>7, <2>8, Zenon
  <1>16. Chars(v) <= Weigh(w, DownTo(f, m)) /\ Chars(v) \in Nat /\ Weigh(w, DownTo(f, m)) \in Nat
    <2>1. DownLaws(X, f)
      <3>1. \A d \in Nat : f[d] \in Seq(X)
        BY <1>3 DEF Descends
      <3>2. QED
        BY <3>1, DownToMore
    <2>2. DownTo(f, m) \in Seq(X) /\ Range(DownTo(f, m)) = UNION {Range(f[i]) : i \in 0 .. m}
      BY <1>7, <2>1, Zenon DEF DownLaws
    <2>3. v \in Range(f[0])
      BY <1>3 DEF Range
    <2>4. v \in Range(DownTo(f, m))
      <3>1. 0 \in 0 .. m
        BY <1>7
      <3>2. QED
        BY <2>2, <2>3, <3>1
    <2> DEFINE s == DownTo(f, m)
    <2> HIDE DEF s
    <2>5. s \in Seq(X) /\ v \in Range(s)
      BY <2>2, <2>4 DEF s
    <2>6. w[v] <= Weigh(w, s) /\ Weigh(w, s) \in Nat
      BY <1>9, <2>5, WeighFacts
    <2>7. w[v] = Chars(v) /\ w[v] \in Nat
      BY <1>9 DEF X
    <2>8. QED
      BY <2>6, <2>7 DEF s
  <1>17. Len(k) <= limits.chars
    <2> DEFINE a == Len(k)
               b == Chars(v)
               c == Weigh(w, DownTo(f, m))
    <2>1. a \in Nat /\ b \in Nat /\ c \in Nat /\ a <= b /\ b <= c /\ c <= limits.chars
      BY <1>1, <1>5, <1>15, <1>16 DEF w
    <2> HIDE DEF a, b, c
    <2>2. a <= limits.chars
      BY <2>1
    <2>3. QED
      BY <2>2 DEF a
  <1>18. \A y \in Range(<<x>>) : ~TooWide(y, limits)
    <2>1. Range(<<x>>) = {x}
      BY DEF Range
    <2>2. QED
      BY <1>2, <2>1
  <1>19. QED
    BY <1>6, <1>11, <1>12, <1>13, <1>14, <1>17, <1>18, Zenon DEF x

-----------------------------------------------------------------------------
(* A value right below one that keeps within the limits does.              *)
LEMMA ChildIsWithin ==
  ASSUME NEW limits, limits.depth \in Nat, limits.nodes \in Nat, limits.chars \in Nat,
         NEW v \in AllValues, WithinLimits(<<v>>, limits), NEW x \in Range(Children(v))
  PROVE  WithinLimits(<<x>>, limits)
PROOF
  <1> DEFINE X == AllValues
             f == Levels(<<v>>, Children)
  <1>1. Children(v) \in Seq(X) /\ x \in X
    <2>1. Children(v) \in Seq(X)
      BY ValueFacts
    <2> DEFINE c == Children(v)
    <2> HIDE DEF c, X
    <2>2. x \in X
      BY <2>1, RangeWithin DEF c
    <2>3. QED
      BY <2>1, <2>2
  <1>2. <<v>> \in Seq(X) /\ <<x>> \in Seq(X)
    BY <1>1
  <1>3. ChildrenOf \in [X -> Seq(X)] /\ f[0] = <<v>> /\ Descends(X, ChildrenOf, f)
    BY <1>2, ValuesDescend
  <1>4. f[1] = Children(v)
    <2> HIDE DEF X, f
    <2>1. f[0 + 1] = Under(ChildrenOf, f[0])
      BY <1>3, Zenon DEF Descends
    <2>2. Under(ChildrenOf, <<v>>) = ChildrenOf[v]
      BY <1>3, UnderOne DEF X
    <2>3. 0 + 1 = 1
      OBVIOUS
    <2>4. ChildrenOf[v] = Children(v)
      BY DEF ChildrenOf
    <2>5. QED
      BY <1>3, <2>1, <2>2, <2>3, <2>4, Zenon
  <1>5. IsPart(X, <<x>>, f[1])
    <2> DEFINE c == Children(v)
    <2> HIDE DEF X, c
    <2>1. c \in Seq(X) /\ x \in Range(c)
      BY <1>1 DEF c
    <2>2. IsPart(X, <<x>>, c)
      BY <2>1, OneIsPart
    <2>3. QED
      BY <1>4, <2>2, Zenon DEF c
  <1>6. 1 \in {0, 1}
    OBVIOUS
  <1>7. QED
    BY <1>2, <1>5, <1>6, PartIsWithin

(* One turn of the inspection, of a value that is no string and of one.    *)
InspectsOn(asked, v) ==
    /\ \A x \in Range(InspectedBelow(v)) : WithinLimits(<<x>>, asked.gate.limits)
    /\ v.type # "string" =>
          (IsClean(asked, v) <=> \A x \in Range(InspectedBelow(v)) : IsClean(asked, x))
    /\ v.type = "string" =>
          InspectedBelow(v) = <<>> /\ (IsClean(asked, v) <=> ~HasFinding(asked, v.value))

(* That is what a turn of the inspection does: a value is clean when all   *)
(* that it puts on the stack is.                                           *)
LEMMA InspectsDown ==
  ASSUME NEW asked \in Requests, NEW v \in AllValues, WithinLimits(<<v>>, asked.gate.limits)
  PROVE  InspectsOn(asked, v)
PROOF
  <1> DEFINE X == AllValues
             limits == asked.gate.limits
             T == Over(asked)
             b == InspectedBelow(v)
             c == Children(v)
             k == Keys(v)
  <1>1. limits.depth \in Nat /\ limits.nodes \in Nat \ {0} /\ limits.chars \in Nat
    BY LimitsAreNumbers
  <1>2. c \in Seq(X) /\ k \in Seq(Seq(Characters))
    BY ValueFacts
  <1>3. /\ b \in Seq(X)
        /\ v.type = "object" => Range(b) = {StringValue(s) : s \in Range(k)} \cup Range(c)
        /\ v.type # "object" => b = c
    BY BelowIs
  <1>4. \A s \in Range(k) : s \in Seq(Characters)
    <2> DEFINE C == Seq(Characters)
    <2> HIDE DEF C, k
    <2>1. k \in Seq(C)
      BY <1>2 DEF C
    <2>2. \A s \in Range(k) : s \in C
      BY <2>1, RangeWithin
    <2>3. QED
      BY <2>2 DEF C
  <1>5. \A x \in Range(c) : x \in X /\ WithinLimits(<<x>>, limits)
    <2>1. \A x \in Range(c) : x \in X
      <3> HIDE DEF c, X
      <3>1. QED
        BY <1>2, RangeWithin
    <2>2. ASSUME NEW x \in Range(c)
          PROVE  WithinLimits(<<x>>, limits)
      BY <1>1, ChildIsWithin
    <2>3. QED
      BY <2>1, <2>2
  <1>6. v.type = "object" => \A s \in Range(k) : WithinLimits(<<StringValue(s)>>, limits)
    BY <1>1, KeyIsWithin
  <1>7. \A x \in Range(b) : x \in X /\ WithinLimits(<<x>>, limits)
    <2>1. CASE v.type = "object"
      <3>1. \A s \in Range(k) : StringValue(s) \in X
        BY <1>4, StringValueIs
      <3> HIDE DEF X, b, c, k, limits
      <3>2. QED
        BY <1>3, <1>5, <1>6, <2>1, <3>1
    <2>2. CASE v.type # "object"
      BY <1>3, <1>5, <2>2
    <2>3. QED
      BY <2>1, <2>2
  <1>8. \A x \in Range(b) : IsClean(asked, x) <=> x \notin T
    BY <1>7, CleanIs
  <1>9. IsClean(asked, v) <=> v \notin T
    BY CleanIs
  <1>10. \A x \in X : x \in T <=> (\E s \in StringsOf(x) : HasFinding(asked, s))
                                    \/ \E y \in Range(Children(x)) : y \in T
    <2> DEFINE F == Flawed(asked)
    <2>1. F \in SUBSET X /\ \A x \in X : x \in F <=> \E s \in StringsOf(x) : HasFinding(asked, s)
      BY DEF Flawed
    <2>2. T = Tainted(X, ChildrenOf, F)
      BY DEF Over
    <2>3. ChildrenOf \in [X -> Seq(X)] /\ \A x \in X : ChildrenOf[x] = Children(x)
      BY ValueFacts DEF ChildrenOf
    <2> HIDE DEF F, T, X
    <2>4. \A x \in X : x \in T <=> x \in F \/ \E y \in Range(ChildrenOf[x]) : y \in T
      BY <2>1, <2>2, <2>3, TaintedFrom
    <2>5. QED
      BY <2>1, <2>3, <2>4, Zenon
  <1>11. \A s \in Seq(Characters) : StringValue(s) \in T <=> HasFinding(asked, s)
    <2>1. ASSUME NEW s \in Seq(Characters)
          PROVE  StringValue(s) \in T <=> HasFinding(asked, s)
      <3> DEFINE x == StringValue(s)
      <3>1. x \in X /\ Children(x) = <<>> /\ StringsOf(x) = {s}
        BY StringValueIs
      <3>2. Range(<<>>) = {}
        BY DEF Range
      <3> HIDE DEF x, T, X
      <3>3. x \in T <=> (\E t \in {s} : HasFinding(asked, t)) \/ \E y \in {} : y \in T
        BY <1>10, <3>1, <3>2, Zenon
      <3>4. QED
        BY <3>3 DEF x
    <2>2. QED
      BY <2>1
  <1>12. v.type # "string" => StringsOf(v) = Range(k)
    BY ValueIs
  <1>13. v.type \notin {"string", "object"} => k = <<>>
    BY ValueIs
  <1>14. v.type = "string" => c = <<>> /\ StringsOf(v) = {v.value}
    BY ValueIs
  <1>15. Range(<<>>) = {}
    BY DEF Range
  <1>16. v \in T <=> (\E s \in StringsOf(v) : HasFinding(asked, s)) \/ \E y \in Range(c) : y \in T
    BY <1>10
  <1> HIDE DEF X, T, b, c, k, limits
  <1>17. ASSUME v.type = "object"
         PROVE  v \notin T <=> \A x \in Range(b) : x \notin T
    <2>1. v \in T <=> (\E s \in Range(k) : HasFinding(asked, s)) \/ \E y \in Range(c) : y \in T
      BY <1>12, <1>16, <1>17
    <2>2. \A s \in Range(k) : StringValue(s) \in T <=> HasFinding(asked, s)
      BY <1>4, <1>11
    <2>3. Range(b) = {StringValue(s) : s \in Range(k)} \cup Range(c)
      BY <1>3, <1>17
    <2>4. QED
      BY <2>1, <2>2, <2>3
  <1>18. ASSUME v.type \notin {"string", "object"}
         PROVE  v \notin T <=> \A x \in Range(b) : x \notin T
    <2>1. b = c /\ StringsOf(v) = {}
      BY <1>3, <1>12, <1>13, <1>15, <1>18
    <2>2. QED
      BY <1>16, <2>1
  <1>19. v.type # "string" => (v \notin T <=> \A x \in Range(b) : x \notin T)
    BY <1>17, <1>18
  <1>20. v.type = "string" => b = <<>> /\ (v \notin T <=> ~HasFinding(asked, v.value))
    <2>1. ASSUME v.type = "string"
          PROVE  b = <<>> /\ (v \notin T <=> ~HasFinding(asked, v.value))
      <3>1. b = <<>> /\ c = <<>> /\ StringsOf(v) = {v.value}
        BY <1>3, <1>14, <2>1
      <3>2. QED
        BY <1>15, <1>16, <3>1
    <2>2. QED
      BY <2>1
  <1>21. v.type # "string" => (IsClean(asked, v) <=> \A x \in Range(b) : IsClean(asked, x))
    BY <1>8, <1>9, <1>19
  <1>22. v.type = "string" => b = <<>> /\ (IsClean(asked, v) <=> ~HasFinding(asked, v.value))
    BY <1>9, <1>20
  <1>23. QED
    BY <1>7, <1>21, <1>22, Zenon DEF InspectsOn, b, limits

-----------------------------------------------------------------------------
(* Where inspection begins: the arguments of a call or the contents of a   *)
(* batch are the values of a request.                                      *)
FindsNone(asked) == HasNoFinding(asked, {n.value : n \in Range(AllOf(asked))})

(* A request of the right shape has no finding exactly when each of its    *)
(* values is clean.                                                        *)
LEMMA InspectionBegins ==
  ASSUME NEW asked \in Requests, HasShape(asked)
  PROVE  /\ Values(asked) \in Seq(AllValues)
         /\ \A v \in Range(Values(asked)) : WithinLimits(<<v>>, asked.gate.limits)
         /\ FindsNone(asked) <=> \A v \in Range(Values(asked)) : IsClean(asked, v)
PROOF
  <1> DEFINE X == AllValues
             limits == asked.gate.limits
             m == limits.depth
             vs == Values(asked)
             f == Levels(vs, Children)
             A == AllOf(asked)
             g == ValueOf(asked)
  <1>1. m \in Nat /\ limits.nodes \in Nat \ {0} /\ limits.chars \in Nat
    BY LimitsAreNumbers
  <1>2. vs \in Seq(X)
    BY RootsFacts DEF AllValues
  <1>3. WithinLimits(vs, limits)
    BY DEF HasShape
  <1>4. f[0] = vs
    BY <1>2, ValuesDescend
  <1>5. ASSUME NEW v \in Range(vs)
        PROVE  v \in X /\ WithinLimits(<<v>>, limits)
    <2>1. v \in X
      <3> HIDE DEF vs, X
      <3>1. QED
        BY <1>2, RangeWithin
    <2>2. IsPart(X, <<v>>, f[0])
      <3>1. IsPart(X, <<v>>, vs)
        <4> HIDE DEF vs, X
        <4>1. QED
          BY <1>2, OneIsPart
      <3>2. QED
        BY <1>4, <3>1, Zenon
    <2>3. <<v>> \in Seq(X) /\ 0 \in {0, 1}
      BY <2>1
    <2>4. WithinLimits(<<v>>, limits)
      BY <1>1, <1>2, <1>3, <2>2, <2>3, PartIsWithin
    <2>5. QED
      BY <2>1, <2>4
  <1>6. \A v \in Range(vs) : IsClean(asked, v) <=> v \notin Over(asked)
    BY <1>5, CleanIs
  <1>7. HasNoFinding(asked, Range(DownTo(f, m))) <=> \A v \in Range(vs) : v \notin Over(asked)
    BY <1>2, <1>3, CleanAre
  <1>8. Range(DownTo(f, m)) = {n.value : n \in Range(A)}
    <2>1. \A d \in Nat : DownTo(f, d) = Along(g, DownTo(LevelsOf(asked), d))
      BY LevelsOfValues
    <2>2. A = DownTo(LevelsOf(asked), m) /\ A \in Seq(Nodes(asked))
      BY DeepestNodes
    <2>3. g \in [Nodes(asked) -> X] /\ \A n \in Nodes(asked) : g[n] = n.value
      BY NodeFacts DEF ValueOf
    <2> HIDE DEF f, A, g, m, X
    <2>4. DownTo(f, m) = Along(g, A)
      BY <1>1, <2>1, <2>2, Zenon
    <2>5. DOMAIN Along(g, A) = DOMAIN A /\ \A i \in DOMAIN A : Along(g, A)[i] = A[i].value
      <3>1. \A i \in DOMAIN A : A[i] \in Nodes(asked)
        BY <2>2
      <3>2. QED
        BY <2>3, <3>1 DEF Along
    <2> DEFINE w == Along(g, A)
    <2> HIDE DEF w
    <2>6. Range(w) = {n.value : n \in Range(A)}
      <3>1. DOMAIN w = DOMAIN A /\ \A i \in DOMAIN A : w[i] = A[i].value
        BY <2>5 DEF w
      <3>2. QED
        BY <3>1 DEF Range
    <2>7. QED
      BY <2>4, <2>6, Zenon DEF w
  <1>9. FindsNone(asked) <=> \A v \in Range(vs) : IsClean(asked, v)
    <2> HIDE DEF vs, f, A
    <2>1. FindsNone(asked) <=> \A v \in Range(vs) : v \notin Over(asked)
      BY <1>7, <1>8, Zenon DEF FindsNone, A
    <2>2. QED
      BY <1>6, <2>1, Zenon
  <1>10. QED
    BY <1>2, <1>5, <1>9

(* The values that Walked puts on the stack.                               *)
LEMMA ValuesAre ==
  ASSUME NEW asked \in Requests
  PROVE  Values(asked) = IF asked.kind = "call" THEN asked.arguments ELSE Contents(asked)
PROOF
  <1>1. IsRequest(asked)
    BY RequestAssumption
  <1>2. CASE asked.kind = "call"
    <2> DEFINE a == asked.arguments
               s == asked.gate.tools[asked.name]
    <2>1. a \in Seq(JSONValues)
      BY <1>1, <1>2 DEF IsRequest
    <2>2. Roots(asked) = [i \in DOMAIN a |-> Node(a[i], s, 0)]
      BY <1>2 DEF Roots
    <2> HIDE DEF a, s
    <2>3. Values(asked) = [i \in DOMAIN a |-> Node(a[i], s, 0).value]
      BY <2>2 DEF Values
    <2>4. \A i \in DOMAIN a : Node(a[i], s, 0).value = a[i]
      BY NodeIs
    <2>5. Values(asked) = [i \in DOMAIN a |-> a[i]]
      BY <2>3, <2>4
    <2>6. a = [i \in DOMAIN a |-> a[i]]
      BY <2>1
    <2>7. QED
      BY <1>2, <2>5, <2>6 DEF a
  <1>3. CASE asked.kind # "call"
    <2> DEFINE c == asked.results
               a == Contents(asked)
    <2>1. Roots(asked) = [i \in DOMAIN c |-> Node(a[i], <<>>, 0)]
      BY <1>3 DEF Roots
    <2>2. a = [i \in DOMAIN c |-> c[i].content]
      BY DEF Contents
    <2> HIDE DEF a, c
    <2>3. Values(asked) = [i \in DOMAIN c |-> Node(a[i], <<>>, 0).value]
      BY <2>1 DEF Values
    <2>4. \A i \in DOMAIN c : Node(a[i], <<>>, 0).value = a[i]
      BY NodeIs
    <2>5. Values(asked) = [i \in DOMAIN c |-> a[i]]
      BY <2>3, <2>4
    <2>6. a = [i \in DOMAIN c |-> a[i]]
      BY <2>2
    <2>7. QED
      BY <1>3, <2>5, <2>6 DEF a
  <1>4. QED
    BY <1>2, <1>3

-----------------------------------------------------------------------------
(* The walk so far has found no fault, and the request has its shape       *)
(* exactly when what is pending keeps within what is left of the limits.   *)
IsWalk(asked, nodes, seen, chars) ==
    /\ nodes \in Seq(Nodes(asked))
    /\ \A n \in Range(nodes) : n.depth <= Deepest(asked)
    /\ seen \in Nat /\ seen <= asked.gate.limits.nodes
    /\ chars \in Nat /\ chars <= asked.gate.limits.chars
    /\ HasShape(asked) <=> Keeps(asked, Pending(asked, nodes), seen, chars)

(* The request has its shape, and no finding exactly when each value on    *)
(* the stack is clean.                                                     *)
IsInspection(asked, values) ==
    /\ asked.gate.scanner # <<>>
    /\ HasShape(asked)
    /\ values \in Seq(AllValues)
    /\ \A v \in Range(values) : WithinLimits(<<v>>, asked.gate.limits)
    /\ FindsNone(asked) <=> \A v \in Range(values) : IsClean(asked, v)

Final == {"passed", "refused", "raised"}

(* The inductive invariant, said of a request and of where its validation  *)
(* is.                                                                     *)
GateIs(asked, where, before, seen, chars) ==
    /\ where \in {"new", "built", "walking", "inspecting"} \cup Final
    /\ asked \in Requests \cup {NoRequest}
    /\ where # "new" => asked \in Requests
    /\ where \in {"new", "built"} => seen = 0 /\ chars = 0
    /\ where \in {"built", "walking", "inspecting"} => CanBuild(asked)
    /\ where \in {"walking", "inspecting"} => IsExpected(asked)
    /\ where = "walking" => IsWalk(asked, before, seen, chars)
    /\ where = "inspecting" => IsInspection(asked, before)
    /\ where \in Final => (where = "passed" <=> Admissible(asked))

GateInv == GateIs(request, at, stack, visited, counted)

(* The parts of Admissible, with FindsNone for the last.                   *)
LEMMA AdmissibleIs ==
  ASSUME NEW asked
  PROVE  Admissible(asked) <=> /\ CanBuild(asked) /\ IsExpected(asked) /\ HasShape(asked)
                               /\ asked.gate.scanner # <<>> => FindsNone(asked)
PROOF
  BY DEF Admissible, FindsNone

(* The states at which a request's validation can be, one by one.          *)
LEMMA IsBuilt ==
  ASSUME NEW asked \in Requests, NEW before, CanBuild(asked)
  PROVE  GateIs(asked, "built", before, 0, 0)
PROOF
  BY DEF GateIs, Final

(* While nodes are visited.                                                *)
LEMMA IsWalking ==
  ASSUME NEW asked \in Requests, NEW before, NEW seen, NEW chars,
         CanBuild(asked), IsExpected(asked), IsWalk(asked, before, seen, chars)
  PROVE  GateIs(asked, "walking", before, seen, chars)
PROOF
  BY DEF GateIs, Final

(* While content is inspected.                                             *)
LEMMA IsInspecting ==
  ASSUME NEW asked \in Requests, NEW before, NEW seen, NEW chars,
         CanBuild(asked), IsExpected(asked), IsInspection(asked, before)
  PROVE  GateIs(asked, "inspecting", before, seen, chars)
PROOF
  BY DEF GateIs, Final

(* When the request has passed, or has not.                                *)
LEMMA IsFinal ==
  ASSUME NEW asked \in Requests, NEW where \in Final, NEW before, NEW seen, NEW chars,
         where = "passed" <=> Admissible(asked)
  PROVE  GateIs(asked, where, before, seen, chars)
PROOF
  BY DEF GateIs, Final

(* Where the walk starts.                                                  *)
LEMMA WalkStarts ==
  ASSUME NEW asked \in Requests
  PROVE  IsWalk(asked, Roots(asked), 0, 0)
PROOF
  <1> DEFINE r == Roots(asked)
  <1>1. r \in Seq(Nodes(asked)) /\ \A n \in Range(r) : n.depth = 0
    BY NodeFacts
  <1>2. Deepest(asked) \in Nat
    BY RestWithin
  <1>3. HasShape(asked) <=> Keeps(asked, Pending(asked, r), 0, 0)
    BY WalkBegins
  <1>4. asked.gate.limits.nodes \in Nat /\ asked.gate.limits.chars \in Nat
    BY LimitsAreNumbers
  <1> HIDE DEF r
  <1>5. QED
    <2>1. \A n \in Range(r) : n.depth <= Deepest(asked)
      BY <1>1, <1>2
    <2>2. 0 \in Nat /\ 0 <= asked.gate.limits.nodes /\ 0 <= asked.gate.limits.chars
      BY <1>4
    <2>3. QED
      BY <1>1, <1>3, <2>1, <2>2, Zenon DEF IsWalk, r

(* One turn of the walk: an excess is a fault of the request's shape, and  *)
(* without one the walk goes on.                                           *)
LEMMA WalkGoesOn ==
  ASSUME NEW asked \in Requests, NEW before, NEW seen, NEW chars, before # <<>>,
         IsWalk(asked, before, seen, chars)
  PROVE  LET n == Head(before)
             excess == \/ seen + 1 > asked.gate.limits.nodes \/ n.depth > asked.gate.limits.depth
                       \/ ~Fits(n.value, n.schema)
                       \/ chars + Chars(n.value) > asked.gate.limits.chars
                       \/ TooWide(n.value, asked.gate.limits)
         IN  /\ excess => ~HasShape(asked)
             /\ ~excess => IsWalk(asked, Below(n) \o Tail(before), seen + 1, chars + Chars(n.value))
PROOF
  <1> DEFINE X == Nodes(asked)
             n == Head(before)
             s == Tail(before)
             b == Below(n)
             k == seen + 1
             c == chars + Chars(n.value)
             M == asked.gate.limits.nodes
             C == asked.gate.limits.chars
             m == asked.gate.limits.depth
             H == Deepest(asked)
  <1>1. /\ before \in Seq(X) /\ \A x \in Range(before) : x.depth <= H
        /\ seen \in Nat /\ chars \in Nat
        /\ HasShape(asked) <=> Keeps(asked, Pending(asked, before), seen, chars)
    BY DEF IsWalk
  <1>2. M \in Nat /\ C \in Nat /\ m \in Nat /\ H = m + 1
    BY LimitsAreNumbers DEF Deepest
  <1> HIDE DEF X, M, C, m, H
  <1>3. n \in X /\ s \in Seq(X) /\ before = <<n>> \o s /\ n \in Range(before)
        /\ \A x \in Range(s) : x \in Range(before)
    <2>1. n \in X /\ s \in Seq(X) /\ before = <<n>> \o s
      BY <1>1
    <2>2. /\ Len(before) \in Nat /\ DOMAIN before = 1 .. Len(before) /\ 1 \in DOMAIN before
          /\ n = before[1] /\ Len(s) = Len(before) - 1 /\ DOMAIN s = 1 .. Len(s)
          /\ \A i \in DOMAIN s : s[i] = before[i + 1] /\ i + 1 \in DOMAIN before
      BY <1>1
    <2> HIDE DEF n, s
    <2>3. n \in Range(before) /\ \A x \in Range(s) : x \in Range(before)
      BY <2>2 DEF Range
    <2>4. QED
      BY <2>1, <2>3
  <1>4. n.depth <= H
    BY <1>1, <1>3
  <1> HIDE DEF n, s, b
  <1>5. /\ b \in Seq(X)
        /\ n.depth \in Nat /\ Chars(n.value) \in Nat
        /\ \A x \in Range(b) : x.depth = n.depth + 1
    <2>1. /\ BelowOf(asked) \in [X -> Seq(X)] /\ DepthOf(asked) \in [X -> Nat]
          /\ IsDepth(X, BelowOf(asked), DepthOf(asked))
      BY NodeFacts DEF X
    <2>2. /\ \A x \in X : BelowOf(asked)[x] = Below(x) /\ DepthOf(asked)[x] = x.depth
      BY DEF BelowOf, DepthOf, X
    <2>3. b \in Seq(X) /\ n.depth \in Nat
      BY <1>3, <2>1, <2>2 DEF b
    <2>4. Range(b) \subseteq X
      BY <2>3, RangeWithin
    <2>5. \A x \in Range(b) : x.depth = n.depth + 1
      BY <1>3, <2>1, <2>2, <2>4 DEF IsDepth, b
    <2>6. Chars(n.value) \in Nat
      <3>1. CharsOf(asked) \in [X -> Nat] /\ CharsOf(asked)[n] = Chars(n.value)
        BY <1>3, WeightsAre DEF X
      <3>2. QED
        BY <1>3, <3>1
    <2>7. QED
      BY <2>3, <2>5, <2>6
  <1>6. k \in Nat /\ c \in Nat
    BY <1>1, <1>5
  <1>7. HasShape(asked) <=> IsGood(asked, n) /\ Keeps(asked, Pending(asked, b \o s), k, c)
    <2>1. Keeps(asked, Pending(asked, <<n>> \o s), seen, chars) <=>
             IsGood(asked, n) /\ Keeps(asked, Pending(asked, b \o s), k, c)
      BY <1>1, <1>3, <1>4, WalkSteps DEF X, H, b
    <2>2. QED
      BY <1>1, <1>3, <2>1, Zenon
  <1>8. b \o s \in Seq(X)
    BY <1>3, <1>5
  <1>9. Keeps(asked, Pending(asked, b \o s), k, c) => k <= M /\ c <= C
    BY <1>6, <1>8, CountedIsKept DEF X, M, C
  <1> HIDE DEF k, c
  <1>10. IsGood(asked, n) <=> n.depth <= m /\ Fits(n.value, n.schema) /\ ~TooWide(n.value, asked.gate.limits)
    BY DEF IsGood, m
  <1> DEFINE excess == \/ k > M \/ n.depth > m
                       \/ ~Fits(n.value, n.schema)
                       \/ c > C
                       \/ TooWide(n.value, asked.gate.limits)
  <1>11. excess => ~HasShape(asked)
    BY <1>2, <1>5, <1>6, <1>7, <1>9, <1>10
  <1>12. ASSUME ~excess
         PROVE  IsWalk(asked, b \o s, k, c)
    <2>1. n.depth <= m /\ k <= M /\ c <= C /\ IsGood(asked, n)
      BY <1>2, <1>5, <1>6, <1>10, <1>12
    <2>2. HasShape(asked) <=> Keeps(asked, Pending(asked, b \o s), k, c)
      BY <1>7, <2>1
    <2>3. \A x \in Range(b \o s) : x.depth <= H
      <3>1. \A x \in Range(b) : x.depth <= H
        BY <1>2, <1>5, <2>1
      <3>2. \A x \in Range(s) : x.depth <= H
        BY <1>1, <1>3
      <3>3. Range(b \o s) \subseteq Range(b) \cup Range(s)
        BY <1>3, <1>5 DEF Range
      <3>4. QED
        BY <3>1, <3>2, <3>3
    <2>4. QED
      BY <1>6, <1>8, <2>1, <2>2, <2>3, Zenon DEF IsWalk, X, M, C, H
  <1>13. QED
    BY <1>11, <1>12 DEF n, s, b, k, c, M, C, m

-----------------------------------------------------------------------------
(* A request that is expected and has nothing to visit, as a call without  *)
(* arguments has, is admissible: it has no node at all.                    *)
LEMMA NothingToVisit ==
  ASSUME NEW asked \in Requests, Roots(asked) = <<>>
  PROVE  HasShape(asked) /\ FindsNone(asked)
PROOF
  <1>1. HasShape(asked)
    <2>1. HasShape(asked) <=> Keeps(asked, Pending(asked, <<>>), 0, 0)
      BY WalkBegins
    <2>2. /\ asked.gate.limits.nodes \in Nat /\ asked.gate.limits.chars \in Nat /\ 0 \in Nat
          /\ 0 <= asked.gate.limits.nodes /\ 0 <= asked.gate.limits.chars
      BY LimitsAreNumbers
    <2>3. QED
      BY <2>1, <2>2, WalkEnds
  <1>2. Values(asked) = <<>>
    BY DEF Values
  <1>3. FindsNone(asked) <=> \A v \in Range(Values(asked)) : IsClean(asked, v)
    BY <1>1, InspectionBegins
  <1>4. Range(<<>>) = {}
    BY DEF Range
  <1>5. FindsNone(asked)
    BY <1>2, <1>3, <1>4
  <1>6. QED
    BY <1>1, <1>5

(* The state after each action, in the order of GateStep.                  *)
LEMMA BuildKeeps ==
  ASSUME GateInv, Build
  PROVE  GateInv'
PROOF
  <1>1. /\ request \in Requests /\ visited = 0 /\ counted = 0
        /\ request' = request /\ stack' = stack /\ visited' = 0 /\ counted' = 0
        /\ at' = IF CanBuild(request) THEN "built" ELSE "raised"
    BY DEF GateInv, GateIs, Build
  <1>2. CASE CanBuild(request)
    <2>1. GateIs(request, "built", stack, 0, 0)
      BY <1>1, <1>2, IsBuilt
    <2>2. QED
      BY <1>1, <1>2, <2>1 DEF GateInv
  <1>3. CASE ~CanBuild(request)
    <2>1. ~Admissible(request)
      BY <1>3, AdmissibleIs
    <2>2. GateIs(request, "raised", stack, 0, 0)
      BY <1>1, <2>1, IsFinal DEF Final
    <2>3. QED
      BY <1>1, <1>3, <2>2 DEF GateInv
  <1>4. QED
    BY <1>2, <1>3

(* A request that is not admissible may be refused.                        *)
LEMMA Refusal ==
  ASSUME NEW asked \in Requests, NEW before, NEW seen, NEW chars, ~Admissible(asked)
  PROVE  GateIs(asked, "refused", before, seen, chars)
PROOF
  BY IsFinal DEF Final

(* An admissible request may pass.                                         *)
LEMMA Passage ==
  ASSUME NEW asked \in Requests, NEW before, NEW seen, NEW chars, Admissible(asked)
  PROVE  GateIs(asked, "passed", before, seen, chars)
PROOF
  BY IsFinal DEF Final

(* The arguments' node is the only one to visit, if there are some.        *)
LEMMA ValidateCallKeeps ==
  ASSUME GateInv, ValidateCall
  PROVE  GateInv'
PROOF
  <1> DEFINE tools == request.gate.tools
             args == request.arguments
             schema == tools[request.name]
  <1>1. /\ request \in Requests /\ CanBuild(request) /\ visited = 0 /\ counted = 0
        /\ request' = request /\ visited' = 0 /\ counted' = 0
        /\ request.kind = "call"
    BY DEF GateInv, GateIs, ValidateCall
  <1>2. args \in Seq(JSONValues) /\ Len(args) <= 1
    BY <1>1, RequestAssumption DEF IsRequest
  <1>3. IsExpected(request) <=> request.name \in DOMAIN tools /\ (args = <<>> <=> schema = <<>>)
    BY <1>1 DEF IsExpected
  <1>4. Roots(request) = [i \in DOMAIN args |-> Node(args[i], schema, 0)]
    BY <1>1 DEF Roots
  <1>5. \/ ~IsExpected(request) /\ at' = "refused"
        \/ IsExpected(request) /\ args = <<>> /\ at' = "passed"
        \/ IsExpected(request) /\ args # <<>> /\ at' = "walking" /\ stack' = <<Node(args[1], schema, 0)>>
    <2>1. CASE request.name \notin DOMAIN tools
      BY <1>3, <2>1 DEF ValidateCall
    <2>2. CASE request.name \in DOMAIN tools /\ schema = <<>>
      BY <1>3, <2>2 DEF ValidateCall
    <2>3. CASE request.name \in DOMAIN tools /\ schema # <<>>
      BY <1>3, <2>3 DEF ValidateCall
    <2>4. QED
      BY <2>1, <2>2, <2>3
  <1>6. CASE ~IsExpected(request) /\ at' = "refused"
    <2>1. ~Admissible(request)
      BY <1>6, AdmissibleIs
    <2>2. GateIs(request, "refused", stack', 0, 0)
      BY <1>1, <2>1, Refusal
    <2>3. QED
      BY <1>1, <1>6, <2>2 DEF GateInv
  <1>7. CASE IsExpected(request) /\ args = <<>> /\ at' = "passed"
    <2>1. Roots(request) = <<>>
      <3> HIDE DEF args, schema
      <3>1. QED
        BY <1>4, <1>7
    <2>2. Admissible(request)
      BY <1>1, <1>7, <2>1, NothingToVisit, AdmissibleIs
    <2>3. GateIs(request, "passed", stack', 0, 0)
      BY <1>1, <2>2, Passage
    <2>4. QED
      BY <1>1, <1>7, <2>3 DEF GateInv
  <1>8. CASE IsExpected(request) /\ args # <<>> /\ at' = "walking"
             /\ stack' = <<Node(args[1], schema, 0)>>
    <2>1. Roots(request) = <<Node(args[1], schema, 0)>>
      <3> HIDE DEF args, schema
      <3>1. DOMAIN args = 1 .. 1
        BY <1>2, <1>8
      <3>2. QED
        BY <1>4, <3>1
    <2>2. IsWalk(request, Roots(request), 0, 0)
      BY <1>1, WalkStarts
    <2>3. GateIs(request, "walking", stack', 0, 0)
      BY <1>1, <1>8, <2>1, <2>2, IsWalking
    <2>4. QED
      BY <1>1, <1>8, <2>3 DEF GateInv
  <1>9. QED
    BY <1>5, <1>6, <1>7, <1>8

(* The contents of linked results are the nodes to visit.                  *)
LEMMA ValidateResultsKeeps ==
  ASSUME GateInv, ValidateResults
  PROVE  GateInv'
PROOF
  <1>1. /\ request \in Requests /\ CanBuild(request) /\ visited = 0 /\ counted = 0
        /\ request' = request /\ visited' = 0 /\ counted' = 0
        /\ request.kind = "results"
    BY DEF GateInv, GateIs, ValidateResults
  <1>2. IsExpected(request) <=> Linked(request)
    BY <1>1 DEF IsExpected
  <1>3. CASE ~Linked(request)
    <2>1. ~Admissible(request) /\ at' = "refused"
      BY <1>2, <1>3, AdmissibleIs DEF ValidateResults
    <2>2. GateIs(request, "refused", stack', 0, 0)
      BY <1>1, <2>1, Refusal
    <2>3. QED
      BY <1>1, <2>1, <2>2 DEF GateInv
  <1>4. CASE Linked(request)
    <2>1. at' = "walking" /\ stack' = Roots(request)
      BY <1>1, <1>4 DEF ValidateResults, Roots
    <2>2. IsWalk(request, Roots(request), 0, 0)
      BY <1>1, WalkStarts
    <2>3. GateIs(request, "walking", stack', 0, 0)
      BY <1>1, <1>2, <1>4, <2>1, <2>2, IsWalking
    <2>4. QED
      BY <1>1, <2>1, <2>3 DEF GateInv
  <1>5. QED
    BY <1>3, <1>4

(* A visit, with WalkGoesOn.                                               *)
LEMMA VisitKeeps ==
  ASSUME GateInv, Visit
  PROVE  GateInv'
PROOF
  <1> DEFINE n == Head(stack)
             c == counted + Chars(n.value)
             limits == request.gate.limits
             excess == \/ visited + 1 > limits.nodes \/ n.depth > limits.depth
                       \/ ~Fits(n.value, n.schema)
                       \/ c > limits.chars \/ TooWide(n.value, limits)
  <1>1. /\ request \in Requests /\ CanBuild(request) /\ IsExpected(request)
        /\ IsWalk(request, stack, visited, counted)
        /\ stack # <<>> /\ at = "walking" /\ request' = request
    BY DEF GateInv, GateIs, Visit
  <1>2. /\ excess => ~HasShape(request)
        /\ ~excess => IsWalk(request, Below(n) \o Tail(stack), visited + 1, c)
    BY <1>1, WalkGoesOn
  <1>3. /\ visited' = visited + 1 /\ counted' = c
        /\ excess => at' = "refused"
        /\ ~excess => at' = "walking" /\ stack' = Below(n) \o Tail(stack)
    BY <1>1 DEF Visit
  <1> HIDE DEF excess, c, n
  <1>4. CASE excess
    <2>1. ~Admissible(request) /\ at' = "refused"
      BY <1>2, <1>3, <1>4, AdmissibleIs
    <2>2. GateIs(request, "refused", stack', visited', counted')
      BY <1>1, <2>1, Refusal
    <2>3. QED
      BY <1>1, <2>1, <2>2 DEF GateInv
  <1>5. CASE ~excess
    <2>1. IsWalk(request, stack', visited', counted') /\ at' = "walking"
      BY <1>2, <1>3, <1>5
    <2>2. GateIs(request, "walking", stack', visited', counted')
      BY <1>1, <2>1, IsWalking
    <2>3. QED
      BY <1>1, <2>1, <2>2 DEF GateInv
  <1>6. QED
    BY <1>4, <1>5

(* Nothing is pending, so the request has its shape; its values are what   *)
(* is inspected.                                                           *)
LEMMA WalkedKeeps ==
  ASSUME GateInv, Walked
  PROVE  GateInv'
PROOF
  <1>1. /\ request \in Requests /\ CanBuild(request) /\ IsExpected(request)
        /\ IsWalk(request, <<>>, visited, counted)
        /\ stack = <<>> /\ at = "walking"
        /\ request' = request /\ visited' = visited /\ counted' = counted
    BY DEF GateInv, GateIs, Walked
  <1>2. HasShape(request)
    <2>1. /\ visited \in Nat /\ visited <= request.gate.limits.nodes
          /\ counted \in Nat /\ counted <= request.gate.limits.chars
          /\ HasShape(request) <=> Keeps(request, Pending(request, <<>>), visited, counted)
      BY <1>1 DEF IsWalk
    <2>2. QED
      BY <1>1, <2>1, WalkEnds
  <1>3. CASE request.gate.scanner = <<>>
    <2>1. Admissible(request) /\ at' = "passed"
      BY <1>1, <1>2, <1>3, AdmissibleIs DEF Walked
    <2>2. GateIs(request, "passed", stack', visited, counted)
      BY <1>1, <2>1, Passage
    <2>3. QED
      BY <1>1, <2>1, <2>2 DEF GateInv
  <1>4. CASE request.gate.scanner # <<>>
    <2>1. at' = "inspecting"
      BY <1>4 DEF Walked
    <2>2. stack' = Values(request)
      <3>1. stack' = IF request.kind = "call" THEN request.arguments ELSE Contents(request)
        BY <1>4 DEF Walked
      <3>2. QED
        BY <1>1, <3>1, ValuesAre
    <2>3. IsInspection(request, Values(request))
      BY <1>1, <1>2, <1>4, InspectionBegins DEF IsInspection
    <2>4. GateIs(request, "inspecting", stack', visited, counted)
      BY <1>1, <2>2, <2>3, IsInspecting
    <2>5. QED
      BY <1>1, <2>1, <2>4 DEF GateInv
  <1>5. QED
    BY <1>3, <1>4

(* One turn of the inspection.                                             *)
LEMMA InspectionGoesOn ==
  ASSUME NEW asked \in Requests, NEW before, before # <<>>, IsInspection(asked, before)
  PROVE  LET v == Head(before)
         IN  /\ v.type = "string" /\ HasFinding(asked, v.value) => ~FindsNone(asked)
             /\ ~(v.type = "string" /\ HasFinding(asked, v.value))
                   => IsInspection(asked, InspectedBelow(v) \o Tail(before))
PROOF
  <1> DEFINE X == AllValues
             v == Head(before)
             s == Tail(before)
             b == InspectedBelow(v)
             found == v.type = "string" /\ HasFinding(asked, v.value)
             limits == asked.gate.limits
  <1>1. /\ asked.gate.scanner # <<>> /\ HasShape(asked)
        /\ before \in Seq(X)
        /\ \A x \in Range(before) : WithinLimits(<<x>>, limits)
        /\ FindsNone(asked) <=> \A x \in Range(before) : IsClean(asked, x)
    BY DEF IsInspection
  <1> HIDE DEF X
  <1>2. v \in X /\ s \in Seq(X) /\ Range(before) = {v} \cup Range(s)
    <2>1. v \in X /\ s \in Seq(X)
      BY <1>1
    <2>2. /\ Len(before) \in Nat /\ DOMAIN before = 1 .. Len(before) /\ 1 \in DOMAIN before
          /\ v = before[1] /\ Len(s) = Len(before) - 1 /\ DOMAIN s = 1 .. Len(s)
          /\ \A i \in DOMAIN s : s[i] = before[i + 1] /\ i + 1 \in DOMAIN before
      BY <1>1
    <2> HIDE DEF v, s
    <2>3. \A i \in DOMAIN before : i = 1 \/ (i - 1 \in DOMAIN s /\ before[i] = s[i - 1])
      <3>1. ASSUME NEW i \in DOMAIN before, i # 1
            PROVE  i - 1 \in DOMAIN s /\ before[i] = s[i - 1]
        <4>1. i \in Int /\ i - 1 \in DOMAIN s /\ (i - 1) + 1 = i
          BY <2>2, <3>1
        <4>2. QED
          BY <2>2, <4>1
      <3>2. QED
        BY <3>1
    <2>4. Range(before) \subseteq {v} \cup Range(s)
      BY <2>2, <2>3 DEF Range
    <2>5. {v} \cup Range(s) \subseteq Range(before)
      BY <2>2 DEF Range
    <2>6. QED
      BY <2>1, <2>4, <2>5
  <1>3. InspectsOn(asked, v)
    <2>1. WithinLimits(<<v>>, limits)
      BY <1>1, <1>2
    <2>2. QED
      BY <1>2, <2>1, InspectsDown DEF X
  <1>4. b \in Seq(X)
    BY <1>2, BelowIs DEF X
  <1> DEFINE w == b \o s
  <1>5. w \in Seq(X) /\ Range(w) = Range(b) \cup Range(s)
    <2> HIDE DEF b, s
    <2>1. w \in Seq(X)
      BY <1>2, <1>4
    <2>2. /\ Len(b) \in Nat /\ Len(s) \in Nat /\ Len(w) = Len(b) + Len(s)
          /\ DOMAIN b = 1 .. Len(b) /\ DOMAIN s = 1 .. Len(s) /\ DOMAIN w = 1 .. Len(w)
          /\ \A i \in DOMAIN w : w[i] = IF i <= Len(b) THEN b[i] ELSE s[i - Len(b)]
      BY <1>2, <1>4
    <2> HIDE DEF w
    <2>3. Range(w) \subseteq Range(b) \cup Range(s)
      <3>1. ASSUME NEW i \in DOMAIN w
            PROVE  w[i] \in Range(b) \cup Range(s)
        <4>1. CASE i <= Len(b)
          BY <2>2, <4>1 DEF Range
        <4>2. CASE ~(i <= Len(b))
          <5>1. i - Len(b) \in DOMAIN s /\ w[i] = s[i - Len(b)]
            BY <2>2, <4>2
          <5>2. QED
            BY <5>1 DEF Range
        <4>3. QED
          BY <4>1, <4>2
      <3>2. QED
        BY <3>1 DEF Range
    <2>4. Range(b) \subseteq Range(w)
      <3>1. \A i \in DOMAIN b : i \in DOMAIN w /\ w[i] = b[i]
        BY <2>2
      <3>2. QED
        BY <3>1 DEF Range
    <2>5. Range(s) \subseteq Range(w)
      <3>1. \A i \in DOMAIN s : i + Len(b) \in DOMAIN w /\ w[i + Len(b)] = s[i]
        <4>1. ASSUME NEW i \in DOMAIN s
              PROVE  i + Len(b) \in DOMAIN w /\ w[i + Len(b)] = s[i]
          <5>1. i + Len(b) \in DOMAIN w /\ ~(i + Len(b) <= Len(b)) /\ (i + Len(b)) - Len(b) = i
            BY <2>2
          <5>2. QED
            BY <2>2, <5>1
        <4>2. QED
          BY <4>1
      <3>2. QED
        BY <3>1 DEF Range
    <2>6. QED
      BY <2>1, <2>3, <2>4, <2>5
  <1> HIDE DEF b, s, w, limits
  <1>6. /\ \A x \in Range(b) : WithinLimits(<<x>>, limits)
        /\ v.type # "string" => (IsClean(asked, v) <=> \A x \in Range(b) : IsClean(asked, x))
        /\ v.type = "string" => b = <<>> /\ (IsClean(asked, v) <=> ~HasFinding(asked, v.value))
    BY <1>3, Zenon DEF InspectsOn, b, limits
  <1> HIDE DEF v
  <1>7. found => ~FindsNone(asked)
    BY <1>1, <1>2, <1>6
  <1>8. ASSUME ~found
        PROVE  FindsNone(asked) <=> \A x \in Range(w) : IsClean(asked, x)
    <2>1. Range(<<>>) = {}
      BY DEF Range
    <2>2. IsClean(asked, v) <=> \A x \in Range(b) : IsClean(asked, x)
      BY <1>6, <1>8, <2>1
    <2>3. QED
      BY <1>1, <1>2, <1>5, <2>2
  <1>9. \A x \in Range(w) : WithinLimits(<<x>>, limits)
    BY <1>1, <1>2, <1>5, <1>6
  <1>10. ~found => IsInspection(asked, w)
    BY <1>1, <1>5, <1>8, <1>9 DEF IsInspection, X, limits
  <1>11. QED
    BY <1>7, <1>10 DEF v, w, b, s

(* A turn of the inspection, with InspectionGoesOn.                        *)
LEMMA InspectKeeps ==
  ASSUME GateInv, Inspect
  PROVE  GateInv'
PROOF
  <1> DEFINE v == Head(stack)
             found == v.type = "string" /\ HasFinding(request, v.value)
  <1>1. /\ request \in Requests /\ CanBuild(request) /\ IsExpected(request)
        /\ IsInspection(request, stack)
        /\ stack # <<>> /\ at = "inspecting"
        /\ request' = request /\ visited' = visited /\ counted' = counted
    BY DEF GateInv, GateIs, Inspect
  <1>2. /\ found => ~FindsNone(request)
        /\ ~found => IsInspection(request, InspectedBelow(v) \o Tail(stack))
    BY <1>1, InspectionGoesOn
  <1>3. /\ found => at' = "refused"
        /\ ~found => at' = "inspecting" /\ stack' = InspectedBelow(v) \o Tail(stack)
    BY <1>1 DEF Inspect, InspectedBelow
  <1> HIDE DEF found, v
  <1>4. CASE found
    <2>1. ~Admissible(request) /\ at' = "refused"
      BY <1>1, <1>2, <1>3, <1>4, AdmissibleIs DEF IsInspection
    <2>2. GateIs(request, "refused", stack', visited, counted)
      BY <1>1, <2>1, Refusal
    <2>3. QED
      BY <1>1, <2>1, <2>2 DEF GateInv
  <1>5. CASE ~found
    <2>1. IsInspection(request, stack') /\ at' = "inspecting"
      BY <1>2, <1>3, <1>5
    <2>2. GateIs(request, "inspecting", stack', visited, counted)
      BY <1>1, <2>1, IsInspecting
    <2>3. QED
      BY <1>1, <2>1, <2>2 DEF GateInv
  <1>6. QED
    BY <1>4, <1>5

(* Nothing is left on the stack, so all values are clean.                  *)
LEMMA InspectedKeeps ==
  ASSUME GateInv, Inspected
  PROVE  GateInv'
PROOF
  <1>1. /\ request \in Requests /\ CanBuild(request) /\ IsExpected(request)
        /\ IsInspection(request, <<>>)
        /\ request' = request /\ visited' = visited /\ counted' = counted
        /\ at' = "passed" /\ stack' = stack
    BY DEF GateInv, GateIs, Inspected
  <1>2. Range(<<>>) = {}
    BY DEF Range
  <1>3. HasShape(request) /\ FindsNone(request)
    BY <1>1, <1>2 DEF IsInspection
  <1>4. Admissible(request)
    BY <1>1, <1>3, AdmissibleIs
  <1>5. GateIs(request, "passed", stack, visited, counted)
    BY <1>1, <1>4, Passage
  <1>6. QED
    BY <1>1, <1>5 DEF GateInv

(* GateInv is inductive.                                                   *)
THEOREM GateInvHolds == GateSpec => []GateInv
PROOF
  <1>1. GateInit => GateInv
    <2> SUFFICES ASSUME GateInit PROVE GateInv
      OBVIOUS
    <2>1. /\ request \in Requests \cup {NoRequest} /\ at = "new"
          /\ visited = 0 /\ counted = 0
      BY DEF GateInit
    <2>2. QED
      BY <2>1 DEF GateInv, GateIs, Final
  <1>2. GateInv /\ [GateNext]_<<vars, gateVars>> => GateInv'
    <2> SUFFICES ASSUME GateInv, [GateNext]_<<vars, gateVars>> PROVE GateInv'
      OBVIOUS
    <2>1. CASE Build
      BY <2>1, BuildKeeps
    <2>2. CASE ValidateCall
      BY <2>2, ValidateCallKeeps
    <2>3. CASE ValidateResults
      BY <2>3, ValidateResultsKeeps
    <2>4. CASE Visit
      BY <2>4, VisitKeeps
    <2>5. CASE Walked
      BY <2>5, WalkedKeeps
    <2>6. CASE Inspect
      BY <2>6, InspectKeeps
    <2>7. CASE Inspected
      BY <2>7, InspectedKeeps
    <2>8. CASE UNCHANGED gateVars
      <3>1. request' = request /\ at' = at /\ stack' = stack
            /\ visited' = visited /\ counted' = counted
        BY <2>8 DEF gateVars
      <3>2. GateIs(request', at', stack', visited', counted')
        BY <3>1 DEF GateInv
      <3>3. QED
        BY <3>2 DEF GateInv
    <2>9. QED
      BY <2>1, <2>2, <2>3, <2>4, <2>5, <2>6, <2>7, <2>8 DEF GateNext, GateStep
  <1>3. QED
    BY <1>1, <1>2, PTL DEF GateSpec

(* A tool call or a batch of results passes exactly when all of it is      *)
(* admissible, and no text is handed to the scanner before the limits are  *)
(* known to be kept (ToolCallRule.validate and ToolResultRule.validate).   *)
THEOREM RequestsPassExactlyIfAdmissible == GateSpec => []PassesExactlyTheAdmissible
PROOF
  <1>1. GateInv => PassesExactlyTheAdmissible
    <2> SUFFICES ASSUME GateInv PROVE PassesExactlyTheAdmissible
      OBVIOUS
    <2>1. at \in {"passed", "refused", "raised"} => (at = "passed" <=> Admissible(request))
      BY DEF GateInv, GateIs, Final
    <2>2. at = "inspecting" => \A v \in Range(stack) : WithinLimits(<<v>>, request.gate.limits)
      BY DEF GateInv, GateIs, IsInspection
    <2>3. QED
      BY <2>1, <2>2 DEF PassesExactlyTheAdmissible
  <1>2. QED
    BY <1>1, GateInvHolds, PTL

(* Beside tool traffic a call of the text engine is what it is alone, so   *)
(* that what is proved of it holds here too.                               *)
THEOREM GateImplementsEngine == GateSpec => Spec
PROOF
  <1>1. GateInit => Init
    BY DEF GateInit
  <1>2. [GateNext]_<<vars, gateVars>> => [Next]_vars
    <2> SUFFICES ASSUME [GateNext]_<<vars, gateVars>> PROVE [Next]_vars
      OBVIOUS
    <2>1. CASE GateStep
      BY <2>1 DEF GateStep, Build, ValidateCall, ValidateResults, Visit, Walked, Inspect, Inspected
    <2>2. CASE Next /\ UNCHANGED gateVars
      BY <2>2
    <2>3. CASE UNCHANGED <<vars, gateVars>>
      BY <2>3
    <2>4. QED
      BY <2>1, <2>2, <2>3 DEF GateNext
  <1>3. QED
    BY <1>1, <1>2, PTL DEF GateSpec, Spec

=============================================================================
