--------------------------- MODULE Redaction_proofs ---------------------------
(***************************************************************************)
(* What sanitize_findings does to a text, for every text and all findings: *)
(* the loops that sort and merge spans and rebuild the text keep exactly   *)
(* the characters that no finding covers.                                  *)
(***************************************************************************)
EXTENDS Policy, SequenceTheorems, TLAPS

Cat(s, t) == s \o t

Catenation == INSTANCE Folding WITH Op <- Cat
SpanSort == INSTANCE Folding WITH Op <- InsertSpan
FindingSort == INSTANCE Folding WITH Op <- InsertFinding
RewritingFilter == INSTANCE Folding WITH Op <- KeepRewriting
RemovalFilter == INSTANCE Folding WITH Op <- KeepRemoval
Merge == INSTANCE Folding WITH Op <- MergeStep
Rebuilding == INSTANCE Folding WITH Op <- RebuildStep
Cutting == INSTANCE Folding WITH Op <- CutStep

(* Spans as Operations makes them. *)
Operation == {s \in [start : Nat, end : Nat, redact : BOOLEAN] : s.start <= s.end}

-----------------------------------------------------------------------------
(* The first place where a test holds that holds at the last one. *)
LEMMA FirstPlace ==
  ASSUME NEW m \in Nat \ {0}, NEW T \in SUBSET (1 .. m), m \in T
  PROVE  \E n \in T : \A k \in 1 .. n - 1 : k \notin T
PROOF
  <1>1. T \in SUBSET Nat /\ T # {}
    OBVIOUS
  <1>2. PICK n \in T : \A k \in T : n <= k
    BY <1>1, Catenation!LeastElement
  <1>3. \A k \in 1 .. n - 1 : ~(n <= k)
    BY <1>2
  <1>4. QED
    BY <1>2, <1>3

(* Inserting one element moves those behind it. *)
LEMMA Inserted ==
  ASSUME NEW T, NEW seq \in Seq(T), NEW p \in 1 .. Len(seq) + 1, NEW x \in T
  PROVE  /\ InsertAt(seq, p, x) \in Seq(T)
         /\ Len(InsertAt(seq, p, x)) = Len(seq) + 1
         /\ \A i \in 1 .. Len(seq) + 1 :
               InsertAt(seq, p, x)[i] = IF i < p THEN seq[i]
                                        ELSE IF i = p THEN x ELSE seq[i - 1]
         /\ Range(InsertAt(seq, p, x)) = Range(seq) \cup {x}
PROOF
  <1> DEFINE front == SubSeq(seq, 1, p - 1)
             back  == SubSeq(seq, p, Len(seq))
             new   == InsertAt(seq, p, x)
  <1>1. /\ front \in Seq(T) /\ Len(front) = p - 1
        /\ \A i \in 1 .. p - 1 : front[i] = seq[i]
    <2>1. \A i \in 1 .. p - 1 : seq[i] \in T
      OBVIOUS
    <2>2. QED
      BY <2>1, SubSeqProperties
  <1>2. /\ back \in Seq(T) /\ Len(back) = Len(seq) - p + 1
        /\ \A i \in 1 .. Len(seq) - p + 1 : back[i] = seq[p + i - 1]
    <2>1. \A i \in p .. Len(seq) : seq[i] \in T
      OBVIOUS
    <2>2. QED
      BY <2>1, SubSeqProperties
  <1>3. <<x>> \in Seq(T) /\ Len(<<x>>) = 1 /\ <<x>>[1] = x
    OBVIOUS
  <1> HIDE DEF front, back
  <1>4. /\ front \o <<x>> \in Seq(T) /\ Len(front \o <<x>>) = p
        /\ \A i \in 1 .. p : (front \o <<x>>)[i] = IF i < p THEN seq[i] ELSE x
    BY <1>1, <1>3, ConcatProperties
  <1>5. new = (front \o <<x>>) \o back
    BY DEF InsertAt, front, back
  <1>6. /\ new \in Seq(T) /\ Len(new) = Len(seq) + 1
        /\ \A i \in 1 .. Len(seq) + 1 :
              new[i] = IF i <= p THEN (front \o <<x>>)[i] ELSE back[i - p]
    <2> DEFINE first == front \o <<x>>
    <2>1. first \in Seq(T) /\ Len(first) = p /\ new = first \o back
      BY <1>4, <1>5
    <2> HIDE DEF first, new
    <2>2. Len(first) + Len(back) = Len(seq) + 1
      BY <1>2, <2>1
    <2>3. /\ new \in Seq(T) /\ Len(new) = Len(first) + Len(back)
          /\ \A i \in 1 .. Len(first) + Len(back) :
                new[i] = IF i <= Len(first) THEN first[i] ELSE back[i - Len(first)]
      BY <1>2, <2>1, ConcatProperties
    <2>4. QED
      BY <2>1, <2>2, <2>3 DEF first
  <1> HIDE DEF new
  <1>7. ASSUME NEW i \in 1 .. Len(seq) + 1
        PROVE  new[i] = IF i < p THEN seq[i] ELSE IF i = p THEN x ELSE seq[i - 1]
    <2>1. CASE i <= p
      BY <1>4, <1>6, <2>1
    <2>2. CASE i > p
      <3>1. i - p \in 1 .. Len(seq) - p + 1 /\ p + (i - p) - 1 = i - 1
        BY <2>2
      <3>2. back[i - p] = seq[i - 1]
        BY <1>2, <3>1
      <3>3. QED
        BY <1>6, <2>2, <3>2
    <2>3. QED
      BY <2>1, <2>2
  <1>8. Range(new) = Range(seq) \cup {x}
    <2>1. DOMAIN new = 1 .. Len(seq) + 1 /\ DOMAIN seq = 1 .. Len(seq)
      BY <1>6
    <2>2. ASSUME NEW i \in 1 .. Len(seq) + 1
          PROVE  new[i] \in Range(seq) \cup {x}
      BY <1>7, <2>1 DEF Range
    <2>3. ASSUME NEW i \in 1 .. Len(seq)
          PROVE  \E k \in 1 .. Len(seq) + 1 : new[k] = seq[i]
      <3>1. CASE i < p
        BY <1>7, <3>1
      <3>2. CASE i >= p
        <4>1. new[i + 1] = seq[i]
          BY <1>7, <3>2
        <4>2. QED
          BY <4>1
      <3>3. QED
        BY <3>1, <3>2
    <2>4. new[p] = x
      BY <1>7
    <2>5. QED
      BY <2>1, <2>2, <2>3, <2>4 DEF Range
  <1>9. QED
    BY <1>6, <1>7, <1>8 DEF new

(* A stable sort has a place for every element. *)
LEMMA SpanInserted ==
  ASSUME NEW sorted, Len(sorted) \in Nat, NEW s
  PROVE  \E p \in 1 .. Len(sorted) + 1 :
            /\ InsertSpan(sorted, s) = InsertAt(sorted, p, s)
            /\ p = Len(sorted) + 1 \/ SpanBefore(s, sorted[p])
            /\ \A m \in 1 .. p - 1 : ~SpanBefore(s, sorted[m])
PROOF
  <1> DEFINE m == Len(sorted) + 1
             T == {n \in 1 .. m : n = m \/ SpanBefore(s, sorted[n])}
             Place(n) == /\ n = Len(sorted) + 1 \/ SpanBefore(s, sorted[n])
                         /\ \A k \in 1 .. n - 1 : ~SpanBefore(s, sorted[k])
             p == CHOOSE n \in 1 .. Len(sorted) + 1 : Place(n)
  <1>1. \E n \in T : \A k \in 1 .. n - 1 : k \notin T
    <2>1. m \in Nat \ {0} /\ T \in SUBSET (1 .. m) /\ m \in T
      OBVIOUS
    <2> HIDE DEF T, m
    <2>2. QED
      BY <2>1, FirstPlace
  <1>2. \E n \in 1 .. Len(sorted) + 1 : Place(n)
    <2>1. PICK n \in T : \A k \in 1 .. n - 1 : k \notin T
      BY <1>1
    <2>2. n \in 1 .. m /\ \A k \in 1 .. n - 1 : k \in 1 .. m /\ k # m
      BY <2>1
    <2>3. QED
      BY <2>1, <2>2
  <1>3. p \in 1 .. Len(sorted) + 1 /\ Place(p)
    <2> HIDE DEF Place
    <2>1. QED
      BY <1>2
  <1>4. InsertSpan(sorted, s) = InsertAt(sorted, p, s)
    BY DEF InsertSpan, InsertBy
  <1> HIDE DEF p
  <1>5. QED
    BY <1>3, <1>4

(* A finding is inserted at some place, and nothing else moves.            *)
LEMMA FindingInserted ==
  ASSUME NEW sorted, Len(sorted) \in Nat, NEW f
  PROVE  \E p \in 1 .. Len(sorted) + 1 : InsertFinding(sorted, f) = InsertAt(sorted, p, f)
PROOF
  <1> DEFINE m == Len(sorted) + 1
             T == {n \in 1 .. m : n = m \/ FindingBefore(f, sorted[n])}
             Place(n) == /\ n = Len(sorted) + 1 \/ FindingBefore(f, sorted[n])
                         /\ \A k \in 1 .. n - 1 : ~FindingBefore(f, sorted[k])
             p == CHOOSE n \in 1 .. Len(sorted) + 1 : Place(n)
  <1>1. \E n \in T : \A k \in 1 .. n - 1 : k \notin T
    <2>1. m \in Nat \ {0} /\ T \in SUBSET (1 .. m) /\ m \in T
      OBVIOUS
    <2> HIDE DEF T, m
    <2>2. QED
      BY <2>1, FirstPlace
  <1>2. \E n \in 1 .. Len(sorted) + 1 : Place(n)
    <2>1. PICK n \in T : \A k \in 1 .. n - 1 : k \notin T
      BY <1>1
    <2>2. n \in 1 .. m /\ \A k \in 1 .. n - 1 : k \in 1 .. m /\ k # m
      BY <2>1
    <2>3. QED
      BY <2>1, <2>2
  <1>3. p \in 1 .. Len(sorted) + 1
    <2> HIDE DEF Place
    <2>1. QED
      BY <1>2
  <1>4. InsertFinding(sorted, f) = InsertAt(sorted, p, f)
    BY DEF InsertFinding, InsertBy
  <1> HIDE DEF p
  <1>5. QED
    BY <1>3, <1>4

-----------------------------------------------------------------------------
(* The elements of the first i places. *)
Firsts(seq, i) == {seq[k] : k \in 1 .. i}

(* One more element joins the first ones.                                  *)
LEMMA FirstsGrow ==
  ASSUME NEW seq, NEW i \in Nat \ {0}
  PROVE  Firsts(seq, i) = Firsts(seq, i - 1) \cup {seq[i]}
PROOF
  <1>1. 1 .. i = (1 .. i - 1) \cup {i}
    OBVIOUS
  <1>2. QED
    BY <1>1 DEF Firsts

(* The first ones are none at the beginning and all at the end.            *)
LEMMA FirstsOfAll ==
  ASSUME NEW T, NEW seq \in Seq(T)
  PROVE  Firsts(seq, 0) = {} /\ Firsts(seq, Len(seq)) = Range(seq)
PROOF
  BY RangeEquality DEF Firsts

(* Sorting findings keeps them all and adds none. *)
LEMMA FindingInsertionKeepsAll ==
  ASSUME NEW T, NEW t \in Seq(T), NEW f \in T
  PROVE  InsertFinding(t, f) \in Seq(T) /\ Range(InsertFinding(t, f)) = Range(t) \cup {f}
PROOF
  <1>1. PICK p \in 1 .. Len(t) + 1 : InsertFinding(t, f) = InsertAt(t, p, f)
    BY FindingInserted
  <1>2. InsertAt(t, p, f) \in Seq(T) /\ Range(InsertAt(t, p, f)) = Range(t) \cup {f}
    BY Inserted
  <1>3. QED
    BY <1>1, <1>2

(* Sorting findings keeps which ones there are.                            *)
LEMMA FindingsSorted ==
  ASSUME NEW T, NEW findings \in Seq(T)
  PROVE  SortFindings(findings) \in Seq(T) /\ Range(SortFindings(findings)) = Range(findings)
PROOF
  <1> DEFINE n == Len(findings)
             G == [i \in 0 .. n |-> {t \in Seq(T) : Range(t) = Firsts(findings, i)}]
  <1>1. n \in Nat /\ DOMAIN findings = 1 .. n
    OBVIOUS
  <1>2. <<>> \in G[0]
    BY FirstsOfAll DEF Range
  <1>3. ASSUME NEW i \in 1 .. n, NEW t \in G[i - 1]
        PROVE  InsertFinding(t, findings[i]) \in G[i]
    <2>1. t \in Seq(T) /\ Range(t) = Firsts(findings, i - 1) /\ findings[i] \in T
      BY <1>1
    <2>2. \A x \in T : /\ InsertFinding(t, x) \in Seq(T)
                       /\ Range(InsertFinding(t, x)) = Range(t) \cup {x}
      <3> HIDE DEF G, n
      <3>1. QED
        BY <2>1, FindingInsertionKeepsAll
    <2>3. Firsts(findings, i) = Firsts(findings, i - 1) \cup {findings[i]}
      BY FirstsGrow
    <2> DEFINE u == InsertFinding(t, findings[i])
    <2>4. u \in Seq(T) /\ Range(u) = Firsts(findings, i)
      BY <2>1, <2>2, <2>3
    <2> HIDE DEF u
    <2>5. u \in G[i]
      BY <2>4
    <2>6. QED
      BY <2>5 DEF u
  <1>4. FindingSort!Folded(<<>>, findings) \in G[n]
    <2> HIDE DEF G, n
    <2>1. QED
      BY <1>1, <1>2, <1>3, FindingSort!FoldInvariant
  <1>5. SortFindings(findings) = FindingSort!Folded(<<>>, findings)
    BY DEF SortFindings, FoldLeft, MapThenFoldSet, FindingSort!Folded, FindingSort!FoldLeft,
           FindingSort!MapThenFoldSet, FindingSort!Max, Max
  <1>6. QED
    BY <1>1, <1>4, <1>5, FirstsOfAll

(* Sorting spans keeps them all, adds none and puts them in order. *)
InOrder(t) == \A j, k \in DOMAIN t : j < k => ~SpanBefore(t[k], t[j])

(* A span inserted into sorted ones leaves them sorted.                    *)
LEMMA InsertionKeepsOrder ==
  ASSUME NEW t \in Seq(Operation), NEW s \in Operation, InOrder(t)
  PROVE  /\ InsertSpan(t, s) \in Seq(Operation) /\ InOrder(InsertSpan(t, s))
         /\ Range(InsertSpan(t, s)) = Range(t) \cup {s}
PROOF
  <1>1. PICK p \in 1 .. Len(t) + 1 :
            /\ InsertSpan(t, s) = InsertAt(t, p, s)
            /\ p = Len(t) + 1 \/ SpanBefore(s, t[p])
            /\ \A m \in 1 .. p - 1 : ~SpanBefore(s, t[m])
    BY SpanInserted
  <1> DEFINE u == InsertAt(t, p, s)
  <1>2. /\ u \in Seq(Operation) /\ Len(u) = Len(t) + 1
        /\ \A i \in 1 .. Len(t) + 1 :
              u[i] = IF i < p THEN t[i] ELSE IF i = p THEN s ELSE t[i - 1]
        /\ Range(u) = Range(t) \cup {s}
    BY Inserted
  <1> HIDE DEF u
  <1>3. \A i \in 1 .. Len(t) : t[i].start \in Nat /\ t[i].end \in Nat
    BY DEF Operation
  <1>4. s.start \in Nat /\ s.end \in Nat
    BY DEF Operation
  <1>5. ASSUME NEW j \in 1 .. Len(t) + 1, NEW k \in 1 .. Len(t) + 1, j < k
        PROVE  ~SpanBefore(u[k], u[j])
    <2>1. CASE k < p
      <3>1. u[k] = t[k] /\ u[j] = t[j] /\ j \in DOMAIN t /\ k \in DOMAIN t
        BY <1>2, <1>5, <2>1
      <3>2. QED
        BY <1>5, <3>1 DEF InOrder
    <2>2. CASE k = p
      <3>1. u[k] = s /\ u[j] = t[j] /\ j \in 1 .. p - 1
        BY <1>2, <1>5, <2>2
      <3>2. QED
        BY <1>1, <3>1
    <2>3. CASE k > p /\ j < p
      <3>1. u[k] = t[k - 1] /\ u[j] = t[j] /\ j \in DOMAIN t /\ k - 1 \in DOMAIN t /\ j < k - 1
        BY <1>2, <1>5, <2>3
      <3>2. QED
        BY <3>1 DEF InOrder
    <2>4. CASE k > p /\ j = p
      <3>1. u[k] = t[k - 1] /\ u[j] = s /\ p \in DOMAIN t /\ k - 1 \in DOMAIN t /\ p <= k - 1
        BY <1>2, <1>5, <2>4
      <3>2. SpanBefore(s, t[p])
        BY <1>1, <3>1
      <3>3. p = k - 1 \/ ~SpanBefore(t[k - 1], t[p])
        BY <3>1 DEF InOrder
      <3>4. /\ t[p].start \in Nat /\ t[p].end \in Nat
            /\ t[k - 1].start \in Nat /\ t[k - 1].end \in Nat
        BY <1>3, <3>1
      <3>5. ~SpanBefore(t[k - 1], s)
        BY <1>4, <3>2, <3>3, <3>4 DEF SpanBefore
      <3>6. QED
        BY <3>1, <3>5
    <2>5. CASE k > p /\ j > p
      <3>1. /\ u[k] = t[k - 1] /\ u[j] = t[j - 1]
            /\ j - 1 \in DOMAIN t /\ k - 1 \in DOMAIN t /\ j - 1 < k - 1
        BY <1>2, <1>5, <2>5
      <3>2. QED
        BY <3>1 DEF InOrder
    <2>6. QED
      BY <2>1, <2>2, <2>3, <2>4, <2>5
  <1>6. InOrder(u)
    BY <1>2, <1>5 DEF InOrder
  <1>7. QED
    BY <1>1, <1>2, <1>6 DEF u

(* So sorting spans puts them in order and keeps which ones there are.     *)
LEMMA SpansSorted ==
  ASSUME NEW spans \in Seq(Operation)
  PROVE  /\ SortSpans(spans) \in Seq(Operation) /\ InOrder(SortSpans(spans))
         /\ Range(SortSpans(spans)) = Range(spans)
PROOF
  <1> DEFINE n == Len(spans)
             G == [i \in 0 .. n |-> {t \in Seq(Operation) :
                                        InOrder(t) /\ Range(t) = Firsts(spans, i)}]
  <1>1. n \in Nat /\ DOMAIN spans = 1 .. n
    OBVIOUS
  <1>2. <<>> \in G[0]
    BY FirstsOfAll DEF Range, InOrder
  <1>3. ASSUME NEW i \in 1 .. n, NEW t \in G[i - 1]
        PROVE  InsertSpan(t, spans[i]) \in G[i]
    <2>1. /\ t \in Seq(Operation) /\ Range(t) = Firsts(spans, i - 1) /\ InOrder(t)
          /\ spans[i] \in Operation
      BY <1>1
    <2>2. /\ InsertSpan(t, spans[i]) \in Seq(Operation) /\ InOrder(InsertSpan(t, spans[i]))
          /\ Range(InsertSpan(t, spans[i])) = Range(t) \cup {spans[i]}
      BY <2>1, InsertionKeepsOrder
    <2>3. Firsts(spans, i) = Firsts(spans, i - 1) \cup {spans[i]}
      BY FirstsGrow
    <2> DEFINE u == InsertSpan(t, spans[i])
    <2>4. u \in Seq(Operation) /\ InOrder(u) /\ Range(u) = Firsts(spans, i)
      BY <2>1, <2>2, <2>3
    <2> HIDE DEF u
    <2>5. u \in G[i]
      BY <2>4
    <2>6. QED
      BY <2>5 DEF u
  <1>4. SpanSort!Folded(<<>>, spans) \in G[n]
    <2> HIDE DEF G, n
    <2>1. QED
      BY <1>1, <1>2, <1>3, SpanSort!FoldInvariant
  <1>5. SortSpans(spans) = SpanSort!Folded(<<>>, spans)
    BY DEF SortSpans, FoldLeft, MapThenFoldSet, SpanSort!Folded, SpanSort!FoldLeft,
           SpanSort!MapThenFoldSet, SpanSort!Max, Max
  <1>6. QED
    BY <1>1, <1>4, <1>5, FirstsOfAll

-----------------------------------------------------------------------------
(* What is appended is added to the elements. *)
LEMMA RangeOfAppend ==
  ASSUME NEW T, NEW seq \in Seq(T), NEW x \in T
  PROVE  Append(seq, x) \in Seq(T) /\ Range(Append(seq, x)) = Range(seq) \cup {x}
PROOF
  <1> DEFINE new == Append(seq, x)
  <1>1. /\ new \in Seq(T) /\ Len(new) = Len(seq) + 1 /\ new[Len(seq) + 1] = x
        /\ \A i \in 1 .. Len(seq) : new[i] = seq[i]
    BY AppendProperties
  <1>2. DOMAIN new = 1 .. Len(seq) + 1 /\ DOMAIN seq = 1 .. Len(seq)
    BY <1>1
  <1>3. 1 .. Len(seq) + 1 = (1 .. Len(seq)) \cup {Len(seq) + 1}
    OBVIOUS
  <1> HIDE DEF new
  <1>4. QED
    BY <1>1, <1>2, <1>3 DEF Range, new

(* The findings that change a text are those with one of two actions. *)
LEMMA RewritingKeeps ==
  ASSUME NEW T, NEW findings \in Seq(T)
  PROVE  /\ Rewriting(findings) \in Seq(T)
         /\ Range(Rewriting(findings)) =
               {f \in Range(findings) : f.action \in {"REMOVE", "REDACT"}}
PROOF
  <1> DEFINE n == Len(findings)
             Kept(S) == {f \in S : f.action \in {"REMOVE", "REDACT"}}
             G == [i \in 0 .. n |-> {t \in Seq(T) : Range(t) = Kept(Firsts(findings, i))}]
  <1>1. n \in Nat /\ DOMAIN findings = 1 .. n
    OBVIOUS
  <1>2. <<>> \in G[0]
    BY FirstsOfAll DEF Range
  <1>3. ASSUME NEW i \in 1 .. n, NEW t \in G[i - 1]
        PROVE  KeepRewriting(t, findings[i]) \in G[i]
    <2>1. t \in Seq(T) /\ Range(t) = Kept(Firsts(findings, i - 1)) /\ findings[i] \in T
      BY <1>1
    <2>2. \A x \in T : Append(t, x) \in Seq(T) /\ Range(Append(t, x)) = Range(t) \cup {x}
      <3> HIDE DEF G, n, Kept
      <3>1. QED
        BY <2>1, RangeOfAppend
    <2>3. Firsts(findings, i) = Firsts(findings, i - 1) \cup {findings[i]}
      BY FirstsGrow
    <2> DEFINE u == KeepRewriting(t, findings[i])
    <2>4. u \in Seq(T) /\ Range(u) = Kept(Firsts(findings, i))
      BY <2>1, <2>2, <2>3 DEF KeepRewriting
    <2> HIDE DEF u
    <2>5. u \in G[i]
      BY <2>4
    <2>6. QED
      BY <2>5 DEF u
  <1>4. RewritingFilter!Folded(<<>>, findings) \in G[n]
    <2> HIDE DEF G, n
    <2>1. QED
      BY <1>1, <1>2, <1>3, RewritingFilter!FoldInvariant
  <1>5. Rewriting(findings) = RewritingFilter!Folded(<<>>, findings)
    BY DEF Rewriting, FoldLeft, MapThenFoldSet, RewritingFilter!Folded, RewritingFilter!FoldLeft,
           RewritingFilter!MapThenFoldSet, RewritingFilter!Max, Max
  <1>6. QED
    BY <1>1, <1>4, <1>5, FirstsOfAll

(* The removals are those with one. *)
LEMMA RemovalsKeep ==
  ASSUME NEW T, NEW findings \in Seq(T)
  PROVE  /\ Removals(findings) \in Seq(T)
         /\ Range(Removals(findings)) = {f \in Range(findings) : f.action = "REMOVE"}
PROOF
  <1> DEFINE n == Len(findings)
             Kept(S) == {f \in S : f.action = "REMOVE"}
             G == [i \in 0 .. n |-> {t \in Seq(T) : Range(t) = Kept(Firsts(findings, i))}]
  <1>1. n \in Nat /\ DOMAIN findings = 1 .. n
    OBVIOUS
  <1>2. <<>> \in G[0]
    BY FirstsOfAll DEF Range
  <1>3. ASSUME NEW i \in 1 .. n, NEW t \in G[i - 1]
        PROVE  KeepRemoval(t, findings[i]) \in G[i]
    <2>1. t \in Seq(T) /\ Range(t) = Kept(Firsts(findings, i - 1)) /\ findings[i] \in T
      BY <1>1
    <2>2. \A x \in T : Append(t, x) \in Seq(T) /\ Range(Append(t, x)) = Range(t) \cup {x}
      <3> HIDE DEF G, n, Kept
      <3>1. QED
        BY <2>1, RangeOfAppend
    <2>3. Firsts(findings, i) = Firsts(findings, i - 1) \cup {findings[i]}
      BY FirstsGrow
    <2> DEFINE u == KeepRemoval(t, findings[i])
    <2>4. u \in Seq(T) /\ Range(u) = Kept(Firsts(findings, i))
      BY <2>1, <2>2, <2>3 DEF KeepRemoval
    <2> HIDE DEF u
    <2>5. u \in G[i]
      BY <2>4
    <2>6. QED
      BY <2>5 DEF u
  <1>4. RemovalFilter!Folded(<<>>, findings) \in G[n]
    <2> HIDE DEF G, n
    <2>1. QED
      BY <1>1, <1>2, <1>3, RemovalFilter!FoldInvariant
  <1>5. Removals(findings) = RemovalFilter!Folded(<<>>, findings)
    BY DEF Removals, FoldLeft, MapThenFoldSet, RemovalFilter!Folded, RemovalFilter!FoldLeft,
           RemovalFilter!MapThenFoldSet, RemovalFilter!Max, Max
  <1>6. QED
    BY <1>1, <1>4, <1>5, FirstsOfAll

(* A finding becomes the span it lies on. *)
SpanOf(f) == [start |-> f.start, end |-> f.end, redact |-> f.action = "REDACT"]

(* The operations of findings are their spans.                             *)
LEMMA OperationsOf ==
  ASSUME NEW findings \in Seq(Finding), \A f \in Range(findings) : IsSpan(f)
  PROVE  /\ Operations(findings) \in Seq(Operation)
         /\ Range(Operations(findings)) = {SpanOf(f) : f \in Range(findings)}
PROOF
  <1>1. DOMAIN findings = 1 .. Len(findings) /\ Len(findings) \in Nat
    OBVIOUS
  <1>2. ASSUME NEW i \in 1 .. Len(findings)
        PROVE  SpanOf(findings[i]) \in Operation
    <2>1. findings[i] \in Finding /\ findings[i] \in Range(findings)
      BY <1>1 DEF Range
    <2>2. /\ findings[i].start \in Nat /\ findings[i].end \in Nat
          /\ findings[i].start <= findings[i].end
      BY <2>1 DEF Finding, IsSpan
    <2>3. QED
      BY <2>2 DEF SpanOf, Operation
  <1>3. Operations(findings) = [i \in 1 .. Len(findings) |-> SpanOf(findings[i])]
    BY <1>1 DEF Operations, SpanOf
  <1>4. Operations(findings) \in Seq(Operation)
    BY <1>1, <1>2, <1>3
  <1>5. Range(Operations(findings)) = {SpanOf(f) : f \in Range(findings)}
    BY <1>1, <1>3 DEF Range
  <1>6. QED
    BY <1>4, <1>5

-----------------------------------------------------------------------------
(* What the merged spans have to do with the spans they were made from:    *)
(* they are apart, every span lies in one of them, which is redacted when  *)
(* the span is, and their ends, their inside and their redactions come     *)
(* from spans.                                                             *)
Apart(m) == \A j, k \in DOMAIN m : j < k => m[j].end < m[k].start

Within(s, t) == t.start <= s.start /\ s.end <= t.end

HoldAll(m, R) == \A s \in R : \E j \in DOMAIN m : Within(s, m[j]) /\ (s.redact => m[j].redact)

EndsFrom(m, R) == \A j \in DOMAIN m : /\ \E s \in R : s.start = m[j].start
                                      /\ \E s \in R : s.end = m[j].end

InsideFrom(m, R) == \A j \in DOMAIN m : \A o \in m[j].start .. m[j].end - 1 :
                        \E s \in R : s.start <= o /\ o < s.end

RedactionsFrom(m, R) == \A j \in DOMAIN m : m[j].redact =>
                            \E s \in R : s.redact /\ Within(s, m[j])

Merges(m, R) == /\ Apart(m) /\ HoldAll(m, R) /\ EndsFrom(m, R)
                /\ InsideFrom(m, R) /\ RedactionsFrom(m, R)

(* The last merged span is made longer, *)
LEMMA MergeStepExtends ==
  ASSUME NEW m \in Seq(Operation), NEW R \in SUBSET Operation, NEW s \in Operation,
         \A r \in R : r.start <= s.start, Merges(m, R),
         m # <<>>, s.start <= Last(m).end
  PROVE  MergeStep(m, s) \in Seq(Operation) /\ Merges(MergeStep(m, s), R \cup {s})
PROOF
  <1> DEFINE n == Len(m)
             e == [start  |-> m[n].start,
                   end    |-> IF s.end > m[n].end THEN s.end ELSE m[n].end,
                   redact |-> m[n].redact \/ s.redact]
             u == [m EXCEPT ![n] = e]
  <1>1. n \in Nat /\ n \in 1 .. n /\ DOMAIN m = 1 .. n /\ Last(m) = m[n]
    BY DEF Last
  <1>2. MergeStep(m, s) = u
    BY <1>1 DEF MergeStep
  <1>3. \A j \in 1 .. n : /\ m[j] \in Operation /\ m[j].start \in Nat /\ m[j].end \in Nat
                          /\ m[j].start <= m[j].end /\ m[j].redact \in BOOLEAN
    BY DEF Operation
  <1>4. s.start \in Nat /\ s.end \in Nat /\ s.start <= s.end /\ s.redact \in BOOLEAN
    BY DEF Operation
  <1>5. /\ e.start = m[n].start /\ e.end \in Nat /\ e.end >= m[n].end /\ e.end >= s.end
        /\ e.end = m[n].end \/ e.end = s.end
        /\ m[n].start <= s.start /\ s.start <= m[n].end
    <2>1. PICK r \in R : r.start = m[n].start
      BY <1>1 DEF Merges, EndsFrom
    <2>2. QED
      BY <1>1, <1>3, <1>4, <2>1
  <1>6. e.redact = (m[n].redact \/ s.redact)
    OBVIOUS
  <1>7. e \in Operation
    <2>1. e \in [start : Nat, end : Nat, redact : BOOLEAN]
      BY <1>1, <1>3, <1>4
    <2> HIDE DEF e
    <2>2. QED
      BY <1>1, <1>3, <1>5, <2>1 DEF Operation
  <1> HIDE DEF e
  <1>8. /\ u \in Seq(Operation) /\ DOMAIN u = 1 .. n /\ u[n] = e
        /\ \A j \in 1 .. n : j # n => u[j] = m[j]
    BY <1>1, <1>7
  <1> HIDE DEF u
  <1>9. /\ \A j \in 1 .. n : /\ u[j].start = m[j].start /\ u[j].end \in Nat
                             /\ u[j].end >= m[j].end
        /\ \A j \in 1 .. n : m[j].redact => u[j].redact
    <2>1. ASSUME NEW j \in 1 .. n
          PROVE  u[j].start = m[j].start /\ u[j].end \in Nat /\ u[j].end >= m[j].end
      <3>1. CASE j = n
        BY <1>5, <1>8, <3>1
      <3>2. CASE j # n
        <4>1. u[j] = m[j] /\ m[j].end \in Nat
          BY <1>3, <1>8, <3>2
        <4>2. QED
          BY <4>1
      <3>3. QED
        BY <3>1, <3>2
    <2>2. ASSUME NEW j \in 1 .. n, m[j].redact
          PROVE  u[j].redact
      BY <1>6, <1>8, <2>2, Zenon
    <2>3. QED
      BY <2>1, <2>2
  <1> HIDE DEF n
  <1>10. Apart(u)
    <2>1. ASSUME NEW j \in 1 .. n, NEW k \in 1 .. n, j < k
          PROVE  u[j].end < u[k].start
      <3>1. j # n
        BY <1>1, <2>1
      <3>2. u[j].end < m[k].start
        BY <1>1, <1>8, <2>1, <3>1 DEF Merges, Apart
      <3>3. QED
        BY <1>9, <3>2
    <2>2. QED
      BY <1>8, <2>1 DEF Apart
  <1>11. HoldAll(u, R \cup {s})
    <2>1. ASSUME NEW r \in R
          PROVE  \E j \in 1 .. n : Within(r, u[j]) /\ (r.redact => u[j].redact)
      <3>1. PICK j \in 1 .. n : Within(r, m[j]) /\ (r.redact => m[j].redact)
        BY <1>1 DEF Merges, HoldAll
      <3>2. r.end \in Nat
        BY DEF Operation
      <3>3. Within(r, u[j])
        BY <1>3, <1>9, <3>1, <3>2 DEF Within
      <3>4. QED
        BY <1>9, <3>1, <3>3
    <2>2. Within(s, u[n]) /\ (s.redact => u[n].redact)
      BY <1>5, <1>6, <1>8 DEF Within
    <2>3. QED
      BY <1>1, <1>8, <2>1, <2>2 DEF HoldAll
  <1>12. EndsFrom(u, R \cup {s})
    <2>1. ASSUME NEW j \in 1 .. n
          PROVE  \E r \in R \cup {s} : r.end = u[j].end
      <3>1. PICK r \in R : r.end = m[j].end
        BY <1>1 DEF Merges, EndsFrom
      <3>2. u[j].end = m[j].end \/ u[j].end = s.end
        BY <1>5, <1>8
      <3>3. QED
        BY <3>1, <3>2
    <2>2. QED
      BY <1>1, <1>8, <1>9, <2>1 DEF Merges, EndsFrom
  <1>13. InsideFrom(u, R \cup {s})
    <2>1. ASSUME NEW j \in 1 .. n, NEW o \in u[j].start .. u[j].end - 1
          PROVE  \E r \in R \cup {s} : r.start <= o /\ o < r.end
      <3>1. CASE o < m[j].end
        <4>1. o \in m[j].start .. m[j].end - 1
          BY <1>3, <1>9, <3>1
        <4>2. QED
          BY <1>1, <4>1 DEF Merges, InsideFrom
      <3>2. CASE ~(o < m[j].end)
        <4>1. o \in Int /\ o < u[j].end /\ j \in 1 .. n /\ m[j].end \in Nat /\ u[j].end \in Nat
          BY <1>3, <1>9, <2>1
        <4>2. j = n
          BY <1>8, <3>2, <4>1
        <4>3. s.start <= o /\ o < s.end
          BY <1>4, <1>5, <1>8, <3>2, <4>1, <4>2
        <4>4. QED
          BY <4>3
      <3>3. QED
        BY <3>1, <3>2
    <2>2. QED
      BY <1>8, <2>1 DEF InsideFrom
  <1>14. RedactionsFrom(u, R \cup {s})
    <2>1. ASSUME NEW j \in 1 .. n, u[j].redact
          PROVE  \E r \in R \cup {s} : r.redact /\ Within(r, u[j])
      <3>1. CASE m[j].redact
        <4>1. PICK r \in R : r.redact /\ Within(r, m[j])
          BY <1>1, <3>1 DEF Merges, RedactionsFrom
        <4>2. r.end \in Nat
          BY DEF Operation
        <4>3. Within(r, u[j])
          BY <1>3, <1>9, <4>1, <4>2 DEF Within
        <4>4. QED
          BY <4>1, <4>3
      <3>2. CASE ~m[j].redact
        <4>1. j = n
          BY <1>8, <2>1, <3>2
        <4>2. s.redact
          BY <1>6, <1>8, <2>1, <3>2, <4>1
        <4>3. Within(s, u[j])
          BY <1>5, <1>8, <4>1 DEF Within
        <4>4. QED
          BY <4>2, <4>3
      <3>3. QED
        BY <3>1, <3>2
    <2>2. QED
      BY <1>8, <2>1 DEF RedactionsFrom
  <1>15. QED
    BY <1>2, <1>8, <1>10, <1>11, <1>12, <1>13, <1>14 DEF Merges

(* or a span behind it is added. *)
LEMMA MergeStepAppends ==
  ASSUME NEW m \in Seq(Operation), NEW R \in SUBSET Operation, NEW s \in Operation,
         Merges(m, R), m = <<>> \/ ~(s.start <= Last(m).end)
  PROVE  MergeStep(m, s) \in Seq(Operation) /\ Merges(MergeStep(m, s), R \cup {s})
PROOF
  <1> DEFINE n == Len(m)
             u == Append(m, s)
  <1>1. n \in Nat /\ DOMAIN m = 1 .. n /\ Last(m) = m[n] /\ (m = <<>> => n = 0)
    BY DEF Last
  <1>2. MergeStep(m, s) = u
    BY DEF MergeStep
  <1>3. \A j \in 1 .. n : /\ m[j] \in Operation /\ m[j].start \in Nat /\ m[j].end \in Nat
                          /\ m[j].start <= m[j].end /\ m[j].redact \in BOOLEAN
    BY DEF Operation
  <1>4. s.start \in Nat /\ s.end \in Nat /\ s.start <= s.end /\ s.redact \in BOOLEAN
    BY DEF Operation
  <1>5. /\ u \in Seq(Operation) /\ DOMAIN u = 1 .. n + 1 /\ u[n + 1] = s
        /\ \A j \in 1 .. n : u[j] = m[j]
    BY <1>1, AppendProperties
  <1> HIDE DEF u, n
  <1>6. 1 .. n + 1 = (1 .. n) \cup {n + 1}
    BY <1>1
  <1>7. Apart(u)
    <2>1. ASSUME NEW j \in 1 .. n + 1, NEW k \in 1 .. n + 1, j < k
          PROVE  u[j].end < u[k].start
      <3>1. j \in 1 .. n /\ u[j] = m[j]
        BY <1>1, <1>5, <2>1
      <3>2. CASE k = n + 1
        <4>1. n \in 1 .. n /\ m[n].end < s.start
          BY <1>1, <1>3, <1>4, <3>1
        <4>2. j = n \/ m[j].end < m[n].start
          BY <1>1, <3>1, <4>1 DEF Merges, Apart
        <4>3. QED
          BY <1>3, <1>4, <1>5, <3>1, <3>2, <4>1, <4>2
      <3>3. CASE k # n + 1
        <4>1. k \in 1 .. n
          BY <1>1, <3>3
        <4>2. QED
          BY <1>1, <1>5, <2>1, <3>1, <4>1 DEF Merges, Apart
      <3>4. QED
        BY <3>2, <3>3
    <2>2. QED
      BY <1>5, <2>1 DEF Apart
  <1>8. HoldAll(u, R \cup {s})
    <2>1. ASSUME NEW r \in R
          PROVE  \E j \in 1 .. n + 1 : Within(r, u[j]) /\ (r.redact => u[j].redact)
      <3>1. PICK j \in 1 .. n : Within(r, m[j]) /\ (r.redact => m[j].redact)
        BY <1>1 DEF Merges, HoldAll
      <3>2. QED
        BY <1>5, <1>6, <3>1
    <2>2. Within(s, u[n + 1]) /\ (s.redact => u[n + 1].redact)
      BY <1>4, <1>5 DEF Within
    <2>3. QED
      BY <1>5, <1>6, <2>1, <2>2 DEF HoldAll
  <1>9. EndsFrom(u, R \cup {s})
    BY <1>1, <1>5, <1>6 DEF Merges, EndsFrom
  <1>10. InsideFrom(u, R \cup {s})
    <2>1. ASSUME NEW j \in 1 .. n + 1, NEW o \in u[j].start .. u[j].end - 1
          PROVE  \E r \in R \cup {s} : r.start <= o /\ o < r.end
      <3>1. CASE j \in 1 .. n
        <4>1. o \in m[j].start .. m[j].end - 1
          BY <1>5, <3>1
        <4>2. QED
          BY <1>1, <3>1, <4>1 DEF Merges, InsideFrom
      <3>2. CASE j = n + 1
        <4>1. s.start <= o /\ o < s.end
          BY <1>4, <1>5, <3>2
        <4>2. QED
          BY <4>1
      <3>3. QED
        BY <1>6, <3>1, <3>2
    <2>2. QED
      BY <1>5, <2>1 DEF InsideFrom
  <1>11. RedactionsFrom(u, R \cup {s})
    <2>1. Within(s, s)
      BY <1>4 DEF Within
    <2>2. QED
      BY <1>1, <1>5, <1>6, <2>1 DEF Merges, RedactionsFrom
  <1>12. QED
    BY <1>2, <1>5, <1>7, <1>8, <1>9, <1>10, <1>11 DEF Merges

(* So the loop as a whole merges what it goes through. *)
LEMMA SpansMerged ==
  ASSUME NEW spans \in Seq(Operation)
  PROVE  MergeSpans(spans) \in Seq(Operation) /\ Merges(MergeSpans(spans), Range(spans))
PROOF
  <1> DEFINE t == SortSpans(spans)
             n == Len(t)
             G == [i \in 0 .. n |-> {m \in Seq(Operation) : Merges(m, Firsts(t, i))}]
  <1>1. t \in Seq(Operation) /\ InOrder(t) /\ Range(t) = Range(spans)
    BY SpansSorted
  <1> HIDE DEF t
  <1>2. n \in Nat /\ DOMAIN t = 1 .. n
    BY <1>1
  <1>3. <<>> \in G[0]
    <2>1. Firsts(t, 0) = {}
      BY <1>1, FirstsOfAll
    <2>2. Merges(<<>>, {})
      BY DEF Merges, Apart, HoldAll, EndsFrom, InsideFrom, RedactionsFrom
    <2>3. <<>> \in Seq(Operation) /\ 0 \in 0 .. n
      BY <1>2
    <2> HIDE DEF n
    <2>4. QED
      BY <2>1, <2>2, <2>3
  <1>4. ASSUME NEW i \in 1 .. n, NEW m \in G[i - 1]
        PROVE  MergeStep(m, t[i]) \in G[i]
    <2>1. m \in Seq(Operation) /\ Merges(m, Firsts(t, i - 1)) /\ t[i] \in Operation
      BY <1>1, <1>2
    <2>2. Firsts(t, i) = Firsts(t, i - 1) \cup {t[i]}
      BY FirstsGrow
    <2>3. \A k \in 1 .. i - 1 : t[k] \in Operation /\ t[k].start <= t[i].start
      <3>1. ASSUME NEW k \in 1 .. i - 1 PROVE t[k] \in Operation /\ t[k].start <= t[i].start
        <4>1. k \in DOMAIN t /\ i \in DOMAIN t /\ k < i
          BY <1>2
        <4>2. ~SpanBefore(t[i], t[k])
          BY <1>1, <4>1 DEF InOrder
        <4>3. t[k] \in Operation
          BY <1>1, <4>1
        <4>4. QED
          BY <2>1, <4>2, <4>3 DEF SpanBefore, Operation
      <3>2. QED
        BY <3>1
    <2>4. /\ Firsts(t, i - 1) \in SUBSET Operation
          /\ \A r \in Firsts(t, i - 1) : r.start <= t[i].start
      BY <2>3 DEF Firsts
    <2> DEFINE u == MergeStep(m, t[i])
               R == Firsts(t, i - 1)
               s == t[i]
    <2>5. u \in Seq(Operation) /\ Merges(u, Firsts(t, i))
      <3>1. /\ m \in Seq(Operation) /\ R \in SUBSET Operation /\ s \in Operation
            /\ \A r \in R : r.start <= s.start
            /\ Merges(m, R) /\ u = MergeStep(m, s) /\ Firsts(t, i) = R \cup {s}
        BY <2>1, <2>2, <2>4
      <3> HIDE DEF u, R, s, G, n
      <3>2. CASE m # <<>> /\ s.start <= Last(m).end
        BY <3>1, <3>2, MergeStepExtends
      <3>3. CASE ~(m # <<>> /\ s.start <= Last(m).end)
        BY <3>1, <3>3, MergeStepAppends
      <3>4. QED
        BY <3>2, <3>3
    <2> HIDE DEF u
    <2>6. u \in G[i]
      BY <2>5
    <2>7. QED
      BY <2>6 DEF u
  <1>5. Merge!Folded(<<>>, t) \in G[n]
    <2> HIDE DEF G, n
    <2>1. QED
      BY <1>2, <1>3, <1>4, Merge!FoldInvariant
  <1>6. MergeSpans(spans) = Merge!Folded(<<>>, t)
    BY DEF MergeSpans, FoldLeft, MapThenFoldSet, Merge!Folded, Merge!FoldLeft,
           Merge!MapThenFoldSet, Merge!Max, Max, t
  <1>7. QED
    BY <1>1, <1>2, <1>5, <1>6, FirstsOfAll

-----------------------------------------------------------------------------
(* Flattening goes through the parts from left to right. *)
LEMMA FlattenTrace ==
  ASSUME NEW T, NEW n \in Nat, NEW parts \in [1 .. n -> Seq(T)]
  PROVE  \E P \in [0 .. n -> Seq(T)] : /\ P[0] = <<>>
                                       /\ \A i \in 1 .. n : P[i] = P[i - 1] \o parts[i]
                                       /\ FlattenSeq(parts) = P[n]
PROOF
  <1>1. \A s, t : Cat(s, t) = s \o t
    BY DEF Cat
  <1>2. FlattenSeq(parts) = Catenation!FlattenSeq(parts)
    BY DEF FlattenSeq, Catenation!FlattenSeq
  <1>3. \E P \in [0 .. n -> Seq(T)] : /\ P[0] = <<>>
                                      /\ \A i \in 1 .. n : P[i] = P[i - 1] \o parts[i]
                                      /\ Catenation!FlattenSeq(parts) = P[n]
    BY <1>1, Catenation!FlattenTrace, Zenon
  <1>4. QED
    BY <1>2, <1>3, Zenon

-----------------------------------------------------------------------------
(* What a sequence of merged spans says of each offset of a text. *)
Inside(m, o) == \E j \in DOMAIN m : m[j].start <= o /\ o < m[j].end

Opens(m, o) == \E j \in DOMAIN m : m[j].start = o /\ m[j].redact

MarkAt(m, o) == IF Opens(m, o) THEN <<Marker>> ELSE <<>>

CharAt(text, m, o) == IF o = Len(text) \/ Inside(m, o) THEN <<>> ELSE <<text[o + 1]>>

Laid(text, m) ==
    FlattenSeq([i \in 1 .. Len(text) + 1 |-> MarkAt(m, i - 1) \o CharAt(text, m, i - 1)])

(* Spans that lie apart in a text, and what is laid out of that text       *)
(* before each offset.                                                     *)
Layout(T, text, m, P) ==
    /\ text \in Seq(T) /\ Marker \in T
    /\ m \in Seq(Operation) /\ Apart(m) /\ \A j \in DOMAIN m : m[j].end <= Len(text)
    /\ P \in [0 .. Len(text) + 1 -> Seq(T)] /\ P[0] = <<>>
    /\ \A i \in 1 .. Len(text) + 1 : P[i] = P[i - 1] \o (MarkAt(m, i - 1) \o CharAt(text, m, i - 1))

(* Where the loop is after k spans, and what it has put together by then. *)
CursorAfter(m, k) == IF k = 0 THEN 0 ELSE m[k].end

PartsAfter(P, m, k) == IF k = 0 THEN <<>> ELSE P[m[k].end] \o MarkAt(m, m[k].end)

(* Between two spans nothing is covered and nothing opens, but for an      *)
(* empty span at the beginning.                                            *)
LEMMA Gap ==
  ASSUME NEW m \in Seq(Operation), Apart(m), NEW k \in 0 .. Len(m), NEW o \in Nat,
         CursorAfter(m, k) <= o, k < Len(m) => o < m[k + 1].start
  PROVE  /\ ~Inside(m, o)
         /\ Opens(m, o) => k > 0 /\ m[k].end = o
PROOF
  <1>1. DOMAIN m = 1 .. Len(m) /\ Len(m) \in Nat
    OBVIOUS
  <1>2. \A j \in 1 .. Len(m) : m[j].start \in Nat /\ m[j].end \in Nat /\ m[j].start <= m[j].end
    BY DEF Operation
  <1>3. ASSUME NEW j \in 1 .. Len(m), j > k
        PROVE  o < m[j].start
    <2>1. k + 1 \in 1 .. Len(m) /\ k < Len(m)
      BY <1>1, <1>3
    <2>2. j = k + 1 \/ m[k + 1].end < m[j].start
      BY <1>1, <1>3, <2>1 DEF Apart
    <2>3. QED
      BY <1>2, <2>1, <2>2
  <1>4. ASSUME NEW j \in 1 .. Len(m), j <= k
        PROVE  k \in 1 .. Len(m) /\ m[j].end <= o /\ (j < k => m[j].start < o)
    <2>1. k \in 1 .. Len(m) /\ m[k].end <= o
      BY <1>4 DEF CursorAfter
    <2>2. j < k => m[j].end < m[k].start
      BY <1>1, <2>1 DEF Apart
    <2>3. j = k \/ j < k
      BY <1>4
    <2>4. QED
      BY <1>2, <2>1, <2>2, <2>3
  <1>5. ~Inside(m, o)
    <2>1. ASSUME NEW j \in 1 .. Len(m), m[j].start <= o, o < m[j].end
          PROVE  FALSE
      <3>1. j > k \/ j <= k
        OBVIOUS
      <3>2. QED
        BY <1>2, <1>3, <1>4, <2>1, <3>1
    <2>2. QED
      BY <1>1, <2>1 DEF Inside
  <1>6. ASSUME Opens(m, o)
        PROVE  k > 0 /\ m[k].end = o
    <2>1. PICK j \in 1 .. Len(m) : m[j].start = o
      BY <1>1, <1>6 DEF Opens
    <2>2. j <= k
      BY <1>2, <1>3, <2>1
    <2>3. k \in 1 .. Len(m) /\ m[j].end <= o /\ ~(j < k)
      BY <1>2, <1>4, <2>1, <2>2
    <2>4. j = k
      BY <2>2, <2>3
    <2>5. m[k].end = o
      BY <1>2, <2>1, <2>3, <2>4
    <2>6. QED
      BY <2>3, <2>5
  <1>7. QED
    BY <1>5, <1>6

(* Behind the beginning of a span, up to its end, nothing opens. *)
LEMMA InsideOpensNothing ==
  ASSUME NEW m \in Seq(Operation), Apart(m), NEW j \in 1 .. Len(m), NEW o \in Nat,
         m[j].start < o, o <= m[j].end
  PROVE  ~Opens(m, o)
PROOF
  <1>1. DOMAIN m = 1 .. Len(m) /\ Len(m) \in Nat
    OBVIOUS
  <1>2. \A i \in 1 .. Len(m) : m[i].start \in Nat /\ m[i].end \in Nat /\ m[i].start <= m[i].end
    BY DEF Operation
  <1>3. ASSUME NEW i \in 1 .. Len(m), m[i].start = o
        PROVE  FALSE
    <2>1. i < j => m[i].end < m[j].start
      BY <1>1 DEF Apart
    <2>2. j < i => m[j].end < m[i].start
      BY <1>1 DEF Apart
    <2>3. i < j \/ j < i \/ i = j
      OBVIOUS
    <2>4. QED
      BY <1>2, <1>3, <2>1, <2>2, <2>3
  <1>4. QED
    BY <1>1, <1>3 DEF Opens

(* Where a span begins, it alone decides whether one opens. *)
LEMMA OpensAtStart ==
  ASSUME NEW m \in Seq(Operation), Apart(m), NEW j \in 1 .. Len(m)
  PROVE  Opens(m, m[j].start) <=> m[j].redact
PROOF
  <1>1. DOMAIN m = 1 .. Len(m) /\ Len(m) \in Nat
    OBVIOUS
  <1>2. \A i \in 1 .. Len(m) : m[i].start \in Nat /\ m[i].end \in Nat /\ m[i].start <= m[i].end
    BY DEF Operation
  <1>3. ASSUME NEW i \in 1 .. Len(m), m[i].start = m[j].start
        PROVE  i = j
    <2>1. i < j => m[i].end < m[j].start
      BY <1>1 DEF Apart
    <2>2. j < i => m[j].end < m[i].start
      BY <1>1 DEF Apart
    <2>3. i < j \/ j < i \/ i = j
      OBVIOUS
    <2>4. QED
      BY <1>2, <1>3, <2>1, <2>2, <2>3
  <1>4. QED
    BY <1>1, <1>3 DEF Opens

(* A slice grows by the character behind it. *)
LEMMA Associative ==
  ASSUME NEW T, NEW r \in Seq(T), NEW s \in Seq(T), NEW t \in Seq(T)
  PROVE  r \o (s \o t) = (r \o s) \o t
PROOF
  BY ConcatAssociative

(* A slice grows by one character at its end.                              *)
LEMMA SliceGrows ==
  ASSUME NEW T, NEW text \in Seq(T),
         NEW lo \in 0 .. Len(text), NEW h \in lo .. Len(text) - 1
  PROVE  /\ Slice(text, lo, h + 1) = Slice(text, lo, h) \o <<text[h + 1]>>
         /\ Slice(text, lo, h) \in Seq(T) /\ <<text[h + 1]>> \in Seq(T)
PROOF
  <1>1. lo + 1 \in 1 .. Len(text) /\ h + 1 \in lo + 1 .. Len(text) /\ (h + 1) - 1 = h
    OBVIOUS
  <1>2. SubSeq(text, lo + 1, h + 1) = SubSeq(text, lo + 1, (h + 1) - 1) \o <<text[h + 1]>>
    BY <1>1, SubSeqRecursiveSecond
  <1>3. \A i \in lo + 1 .. h : text[i] \in T
    OBVIOUS
  <1>4. SubSeq(text, lo + 1, h) \in Seq(T)
    BY <1>3, SubSeqProperties
  <1>5. QED
    BY <1>1, <1>2, <1>4 DEF Slice

(* So does what it is joined to.                                           *)
LEMMA LongerSlice ==
  ASSUME NEW T, NEW text \in Seq(T), NEW X \in Seq(T),
         NEW lo \in 0 .. Len(text), NEW h \in lo .. Len(text) - 1
  PROVE  X \o Slice(text, lo, h + 1) = (X \o Slice(text, lo, h)) \o <<text[h + 1]>>
PROOF
  <1>1. Slice(text, lo, h + 1) = Slice(text, lo, h) \o <<text[h + 1]>>
    BY SliceGrows
  <1>2. Slice(text, lo, h) \in Seq(T) /\ <<text[h + 1]>> \in Seq(T)
    BY SliceGrows
  <1> DEFINE a == Slice(text, lo, h)
             c == <<text[h + 1]>>
  <1> HIDE DEF a, c
  <1>3. a \in Seq(T) /\ c \in Seq(T)
    BY <1>2 DEF a, c
  <1>4. X \o (a \o c) = (X \o a) \o c
    BY <1>3, Associative
  <1>5. QED
    BY <1>1, <1>4, Zenon DEF a, c

(* An empty slice adds nothing.                                            *)
LEMMA NothingSliced ==
  ASSUME NEW T, NEW text \in Seq(T), NEW X \in Seq(T), NEW lo \in 0 .. Len(text)
  PROVE  Slice(text, lo, lo) = <<>> /\ X \o Slice(text, lo, lo) = X
PROOF
  BY SubSeqEmpty, ConcatEmptySeq DEF Slice

(* What is uncovered is laid out as it stands. *)
Copied(T, text, P, X, lo, hi) ==
    /\ text \in Seq(T) /\ P \in [0 .. Len(text) + 1 -> Seq(T)] /\ X \in Seq(T)
    /\ lo \in 0 .. Len(text) /\ hi \in lo + 1 .. Len(text)
    /\ P[lo + 1] = X \o <<text[lo + 1]>>
    /\ \A o \in lo + 1 .. hi - 1 : P[o + 1] = P[o] \o <<text[o + 1]>>

(* What is copied from one offset to another is the slice between them.    *)
LEMMA Stretch ==
  ASSUME NEW T, NEW text, NEW P, NEW X, NEW lo, NEW hi, Copied(T, text, P, X, lo, hi)
  PROVE  P[hi] = X \o Slice(text, lo, hi)
PROOF
  <1> /\ text \in Seq(T) /\ P \in [0 .. Len(text) + 1 -> Seq(T)] /\ X \in Seq(T)
      /\ lo \in 0 .. Len(text) /\ hi \in lo + 1 .. Len(text)
      /\ P[lo + 1] = X \o <<text[lo + 1]>>
      /\ \A o \in lo + 1 .. hi - 1 : P[o + 1] = P[o] \o <<text[o + 1]>>
    BY Zenon DEF Copied
  <1> DEFINE d == hi - lo - 1
             S == {k \in 0 .. d : P[lo + 1 + k] = X \o Slice(text, lo, lo + 1 + k)}
  <1>1. /\ d \in Nat /\ lo \in Nat /\ hi \in Nat /\ hi = lo + 1 + d
        /\ Len(text) \in Nat /\ hi <= Len(text)
    OBVIOUS
  <1>2. 0 \in S
    <2>1. lo \in lo .. Len(text) - 1 /\ lo + 1 + 0 = lo + 1 /\ 0 \in 0 .. d
      BY <1>1
    <2>2. X \o Slice(text, lo, lo + 1) = (X \o Slice(text, lo, lo)) \o <<text[lo + 1]>>
      BY <2>1, LongerSlice
    <2>3. X \o Slice(text, lo, lo) = X
      BY NothingSliced
    <2>4. P[lo + 1 + 0] = X \o Slice(text, lo, lo + 1 + 0)
      BY <2>1, <2>2, <2>3, Zenon
    <2> HIDE DEF d
    <2>5. QED
      BY <2>1, <2>4, Zenon
  <1>3. ASSUME NEW k \in 1 .. d, k - 1 \in S
        PROVE  k \in S
    <2> DEFINE h == lo + k
    <2>1. /\ h \in lo .. Len(text) - 1 /\ h \in lo + 1 .. hi - 1 /\ lo + 1 + (k - 1) = h
          /\ lo + 1 + k = h + 1 /\ k \in 0 .. d
      BY <1>1
    <2>2. P[h] = X \o Slice(text, lo, h)
      BY <1>3, <2>1
    <2>3. P[h + 1] = P[h] \o <<text[h + 1]>>
      BY <2>1
    <2>4. X \o Slice(text, lo, h + 1) = (X \o Slice(text, lo, h)) \o <<text[h + 1]>>
      BY <2>1, LongerSlice
    <2> HIDE DEF h
    <2>5. P[h + 1] = X \o Slice(text, lo, h + 1)
      BY <2>2, <2>3, <2>4, Zenon
    <2>6. QED
      BY <2>1, <2>5
  <1>4. d \in S
    <2> HIDE DEF S, d
    <2>1. d \in 0 .. d
      BY <1>1
    <2>2. QED
      BY <1>1, <1>2, <1>3, <2>1, Catenation!InductionTo
  <1>5. QED
    BY <1>1, <1>4

(* The text laid out before the character of an offset. *)
Laying(P, m, o) == P[o] \o MarkAt(m, o)

(* What one offset adds to what is laid out, and that everything is a      *)
(* text.                                                                   *)
LEMMA LayoutStep ==
  ASSUME NEW T, NEW text, NEW m, NEW P, Layout(T, text, m, P), NEW o \in 0 .. Len(text)
  PROVE  /\ P[o] \in Seq(T) /\ Laying(P, m, o) \in Seq(T)
         /\ P[o + 1] = Laying(P, m, o) \o CharAt(text, m, o)
         /\ ~Opens(m, o) => Laying(P, m, o) = P[o]
PROOF
  <1>1. text \in Seq(T) /\ Marker \in T
    BY DEF Layout
  <1>2. MarkAt(m, o) \in Seq(T)
    BY <1>1 DEF MarkAt
  <1>3. CharAt(text, m, o) \in Seq(T)
    <2>1. o # Len(text) => text[o + 1] \in T
      BY <1>1
    <2>2. QED
      BY <2>1 DEF CharAt
  <1>4. P[o] \in Seq(T)
    <2>1. P \in [0 .. Len(text) + 1 -> Seq(T)] /\ o \in 0 .. Len(text) + 1
      BY <1>1 DEF Layout
    <2>2. QED
      BY <2>1
  <1>5. P[o + 1] = P[o] \o (MarkAt(m, o) \o CharAt(text, m, o))
    <2>1. o + 1 \in 1 .. Len(text) + 1 /\ (o + 1) - 1 = o
      BY <1>1
    <2>2. P[o + 1] = P[(o + 1) - 1] \o (MarkAt(m, (o + 1) - 1) \o CharAt(text, m, (o + 1) - 1))
      BY <2>1 DEF Layout
    <2>3. QED
      BY <2>1, <2>2
  <1>6. P[o] \o (MarkAt(m, o) \o CharAt(text, m, o)) = (P[o] \o MarkAt(m, o)) \o CharAt(text, m, o)
    <2> DEFINE before == P[o]
               mark == MarkAt(m, o)
               char == CharAt(text, m, o)
    <2> HIDE DEF before, mark, char
    <2>1. before \in Seq(T) /\ mark \in Seq(T) /\ char \in Seq(T)
      BY <1>2, <1>3, <1>4 DEF before, mark, char
    <2>2. before \o (mark \o char) = (before \o mark) \o char
      BY <2>1, Associative
    <2>3. QED
      BY <2>2 DEF before, mark, char
  <1>7. P[o] \o MarkAt(m, o) \in Seq(T)
    BY <1>2, <1>4, ConcatProperties
  <1>8. ~Opens(m, o) => P[o] \o MarkAt(m, o) = P[o]
    BY <1>4, ConcatEmptySeq DEF MarkAt
  <1>9. QED
    BY <1>4, <1>5, <1>6, <1>7, <1>8, Zenon DEF Laying

(* An offset outside all spans adds its character.                         *)
LEMMA Uncut ==
  ASSUME NEW T, NEW text, NEW m, NEW P, Layout(T, text, m, P), NEW o \in 0 .. Len(text) - 1,
         ~Inside(m, o)
  PROVE  P[o + 1] = Laying(P, m, o) \o <<text[o + 1]>>
PROOF
  <1>1. o \in 0 .. Len(text) /\ o # Len(text)
    BY DEF Layout
  <1>2. CharAt(text, m, o) = <<text[o + 1]>>
    BY <1>1 DEF CharAt
  <1>3. P[o + 1] = Laying(P, m, o) \o CharAt(text, m, o)
    BY <1>1, LayoutStep
  <1>4. QED
    BY <1>2, <1>3, Zenon

(* An offset inside a span, or behind the text, adds no character.         *)
LEMMA Cut ==
  ASSUME NEW T, NEW text, NEW m, NEW P, Layout(T, text, m, P), NEW o \in 0 .. Len(text),
         o = Len(text) \/ Inside(m, o)
  PROVE  P[o + 1] = Laying(P, m, o)
PROOF
  <1>1. CharAt(text, m, o) = <<>>
    BY DEF CharAt
  <1>2. P[o + 1] = Laying(P, m, o) \o CharAt(text, m, o)
    BY LayoutStep
  <1>3. Laying(P, m, o) \o <<>> = Laying(P, m, o)
    BY LayoutStep, ConcatEmptySeq
  <1>4. QED
    BY <1>1, <1>2, <1>3, Zenon

(* The k-th character of a span is behind its beginning and before its end. *)
LEMMA WithinSpan ==
  ASSUME NEW s \in Nat, NEW e \in Nat, NEW n \in Nat, s <= e, e <= n, NEW k \in 1 .. e - s
  PROVE  LET o == s + (k - 1)
         IN  /\ o \in 0 .. n /\ o + 1 = s + k /\ o + 1 \in 0 .. n
             /\ s <= o /\ o < e /\ s < o + 1 /\ o + 1 <= e
             /\ o + 1 \in Nat
PROOF
  OBVIOUS

(* Over a span nothing is laid out but what stands at its beginning. *)
LEMMA SpanLaid ==
  ASSUME NEW T, NEW text, NEW m, NEW P, Layout(T, text, m, P), NEW j \in 1 .. Len(m)
  PROVE  Laying(P, m, m[j].end) = Laying(P, m, m[j].start)
PROOF
  <1>1. /\ text \in Seq(T) /\ Len(text) \in Nat /\ m \in Seq(Operation) /\ Apart(m)
        /\ DOMAIN m = 1 .. Len(m) /\ m[j].end <= Len(text)
    BY DEF Layout
  <1>2. m[j].start \in Nat /\ m[j].end \in Nat /\ m[j].start <= m[j].end
    BY <1>1 DEF Operation
  <1> DEFINE a == m[j].start
             d == m[j].end - a
             S == {k \in 0 .. d : Laying(P, m, a + k) = Laying(P, m, a)}
  <1>3. d \in Nat /\ a \in Nat /\ a + d = m[j].end /\ a + 0 = a
    BY <1>2
  <1>4. 0 \in S
    BY <1>3
  <1>5. ASSUME NEW k \in 1 .. d, k - 1 \in S
        PROVE  k \in S
    <2> DEFINE o == a + (k - 1)
    <2>1. /\ o \in 0 .. Len(text) /\ o + 1 = a + k /\ o + 1 \in 0 .. Len(text)
          /\ m[j].start <= o /\ o < m[j].end /\ m[j].start < o + 1 /\ o + 1 <= m[j].end
          /\ o + 1 \in Nat
      BY <1>1, <1>2, WithinSpan
    <2>2. Laying(P, m, o) = Laying(P, m, a)
      BY <1>5
    <2> HIDE DEF o, a, d
    <2>3. P[o + 1] = Laying(P, m, o)
      <3>1. Inside(m, o)
        BY <1>1, <2>1 DEF Inside
      <3>2. QED
        BY <2>1, <3>1, Cut
    <2>4. ~Opens(m, o + 1)
      BY <1>1, <2>1, InsideOpensNothing
    <2>5. Laying(P, m, o + 1) = P[o + 1]
      BY <2>1, <2>4, LayoutStep
    <2>6. Laying(P, m, a + k) = Laying(P, m, a)
      BY <2>1, <2>2, <2>3, <2>5, Zenon
    <2>7. k \in 0 .. d
      BY <1>3
    <2>8. QED
      BY <2>6, <2>7
  <1>6. d \in S
    <2> HIDE DEF S, d
    <2>1. d \in 0 .. d
      BY <1>3
    <2>2. QED
      BY <1>3, <1>4, <1>5, <2>1, Catenation!InductionTo
  <1>7. QED
    BY <1>3, <1>6

(* Up to the next span, the text goes on as it stands. *)
UpTo(text, m, k, hi) ==
    /\ k \in 0 .. Len(m) /\ hi \in 0 .. Len(text) /\ CursorAfter(m, k) <= hi
    /\ k < Len(m) => hi <= m[k + 1].start
    /\ hi = CursorAfter(m, k) => k = 0

(* Between two spans the text is laid out as it is: the slice that         *)
(* sanitize_findings copies.                                               *)
LEMMA GapLaid ==
  ASSUME NEW T, NEW text, NEW m, NEW P, Layout(T, text, m, P), NEW k, NEW hi,
         UpTo(text, m, k, hi)
  PROVE  P[hi] = PartsAfter(P, m, k) \o Slice(text, CursorAfter(m, k), hi)
PROOF
  <1> /\ k \in 0 .. Len(m) /\ hi \in 0 .. Len(text) /\ CursorAfter(m, k) <= hi
      /\ k < Len(m) => hi <= m[k + 1].start
      /\ hi = CursorAfter(m, k) => k = 0
    BY DEF UpTo
  <1> DEFINE lo == CursorAfter(m, k)
             X  == PartsAfter(P, m, k)
  <1>1. /\ text \in Seq(T) /\ Len(text) \in Nat /\ m \in Seq(Operation) /\ Apart(m)
        /\ DOMAIN m = 1 .. Len(m) /\ Len(m) \in Nat /\ P[0] = <<>>
        /\ P \in [0 .. Len(text) + 1 -> Seq(T)]
    BY DEF Layout
  <1>2. lo \in 0 .. Len(text)
    <2>1. CASE k = 0
      BY <1>1, <2>1 DEF CursorAfter
    <2>2. CASE k # 0
      <3>1. k \in 1 .. Len(m) /\ m[k] \in Operation
        BY <1>1, <2>2
      <3>2. lo = m[k].end /\ m[k].end <= Len(text)
        BY <2>2, <3>1, <1>1 DEF CursorAfter, Layout
      <3>3. QED
        BY <1>1, <3>1, <3>2 DEF Operation
    <2>3. QED
      BY <2>1, <2>2
  <1>3. X \in Seq(T)
    <2>1. CASE k = 0
      BY <2>1 DEF PartsAfter
    <2>2. CASE k # 0
      <3>1. X = Laying(P, m, lo)
        BY <2>2 DEF PartsAfter, CursorAfter, Laying
      <3>2. Laying(P, m, lo) \in Seq(T)
        <4> HIDE DEF lo
        <4>1. QED
          BY <1>2, LayoutStep
      <3>3. QED
        BY <3>1, <3>2, Zenon
    <2>3. QED
      BY <2>1, <2>2
  <1>4. \A o \in lo .. hi - 1 : /\ o \in Nat /\ CursorAfter(m, k) <= o
                                /\ k < Len(m) => o < m[k + 1].start
    <2>1. ASSUME NEW o \in lo .. hi - 1, k < Len(m)
          PROVE  o < m[k + 1].start
      <3>1. k + 1 \in 1 .. Len(m)
        BY <1>1, <2>1
      <3>2. m[k + 1].start \in Nat
        BY <1>1, <3>1 DEF Operation
      <3>3. o \in Int /\ o < hi /\ hi <= m[k + 1].start
        BY <1>2, <2>1
      <3>4. QED
        BY <3>2, <3>3
    <2>2. \A o \in lo .. hi - 1 : o \in Nat /\ lo <= o
      <3> HIDE DEF lo
      <3>1. QED
        BY <1>2
    <2>3. QED
      BY <2>1, <2>2
  <1>5. \A o \in lo .. hi - 1 : ~Inside(m, o) /\ (Opens(m, o) => k > 0 /\ m[k].end = o)
    <2> HIDE DEF lo, X
    <2>1. QED
      BY <1>1, <1>4, Gap
  <1>6. CASE hi = lo
    <2>1. k = 0 /\ lo = 0 /\ X = <<>>
      BY <1>6 DEF CursorAfter, PartsAfter
    <2>2. X \o Slice(text, lo, lo) = X
      <3> HIDE DEF lo, X
      <3>1. QED
        BY <1>1, <1>2, <1>3, NothingSliced
    <2>3. P[hi] = X
      BY <1>1, <1>6, <2>1, Zenon
    <2>4. QED
      BY <1>6, <2>2, <2>3, Zenon
  <1>7. CASE hi # lo
    <2>1. lo < hi
      <3>1. lo <= hi
        OBVIOUS
      <3> HIDE DEF lo
      <3>2. QED
        BY <1>2, <1>7, <3>1
    <2>2. P[lo + 1] = X \o <<text[lo + 1]>>
      <3>1. lo \in 0 .. Len(text) - 1 /\ lo \in lo .. hi - 1 /\ lo \in 0 .. Len(text)
        <4> HIDE DEF lo
        <4>1. QED
          BY <1>2, <2>1
      <3>2. P[lo + 1] = Laying(P, m, lo) \o <<text[lo + 1]>>
        <4>1. ~Inside(m, lo)
          BY <1>5, <3>1, Zenon
        <4> HIDE DEF lo
        <4>2. QED
          BY <3>1, <4>1, Uncut
      <3>3. X = Laying(P, m, lo)
        <4>1. CASE k = 0
          <5>1. X = P[lo]
            BY <1>1, <4>1, Zenon DEF PartsAfter, CursorAfter
          <5>2. ~Opens(m, lo)
            BY <1>5, <3>1, <4>1
          <5>3. Laying(P, m, lo) = P[lo]
            <6> HIDE DEF lo
            <6>1. QED
              BY <3>1, <5>2, LayoutStep
          <5>4. QED
            BY <5>1, <5>3, Zenon
        <4>2. CASE k # 0
          BY <4>2 DEF PartsAfter, CursorAfter, Laying
        <4>3. QED
          BY <4>1, <4>2
      <3>4. QED
        BY <3>2, <3>3, Zenon
    <2>3. \A o \in lo + 1 .. hi - 1 : P[o + 1] = P[o] \o <<text[o + 1]>>
      <3>1. ASSUME NEW o \in lo + 1 .. hi - 1
            PROVE  P[o + 1] = P[o] \o <<text[o + 1]>>
        <4>1. /\ o \in 0 .. Len(text) - 1 /\ o \in lo .. hi - 1 /\ o # lo /\ o \in 0 .. Len(text)
          <5> HIDE DEF lo
          <5>1. QED
            BY <1>2, <2>1
        <4>2. ~Inside(m, o)
          BY <1>5, <4>1, Zenon
        <4>3. ~Opens(m, o)
          <5>1. ASSUME Opens(m, o) PROVE FALSE
            <6>1. k > 0 /\ m[k].end = o
              BY <1>5, <4>1, <5>1, Zenon
            <6>2. lo = o
              BY <6>1 DEF CursorAfter
            <6>3. QED
              BY <4>1, <6>2, Zenon
          <5>2. QED
            BY <5>1
        <4>4. P[o + 1] = Laying(P, m, o) \o <<text[o + 1]>>
          <5> HIDE DEF lo, X
          <5>1. o \in 0 .. Len(text) - 1
            BY <4>1
          <5>2. QED
            BY <4>2, <5>1, Uncut, SMTT(30)
        <4>5. Laying(P, m, o) = P[o]
          BY <4>1, <4>3, LayoutStep
        <4>6. QED
          BY <4>4, <4>5, Zenon
      <3>2. QED
        BY <3>1, Zenon
    <2>4. hi \in lo + 1 .. Len(text)
      <3> HIDE DEF lo
      <3>1. QED
        BY <1>2, <2>1
    <2>5. text \in Seq(T) /\ P \in [0 .. Len(text) + 1 -> Seq(T)]
      BY <1>1
    <2> HIDE DEF lo, X
    <2>6. P[hi] = X \o Slice(text, lo, hi)
      <3>1. Copied(T, text, P, X, lo, hi)
        BY <1>2, <1>3, <2>2, <2>3, <2>4, <2>5, Zenon DEF Copied
      <3>2. QED
        BY <3>1, Stretch
    <2>7. QED
      BY <2>6 DEF lo, X
  <1>8. QED
    BY <1>6, <1>7

(* One round of the loop puts together what is laid out up to its span. *)
LEMMA RebuildStepLays ==
  ASSUME NEW T, NEW text, NEW m, NEW P, Layout(T, text, m, P), NEW k \in 1 .. Len(m),
         NEW acc, acc = [text |-> text, cursor |-> CursorAfter(m, k - 1),
                         parts |-> PartsAfter(P, m, k - 1)]
  PROVE  RebuildStep(acc, m[k]) = [text |-> text, cursor |-> CursorAfter(m, k),
                                   parts |-> PartsAfter(P, m, k)]
PROOF
  <1> DEFINE a == m[k].start
             b == m[k].end
             c == CursorAfter(m, k - 1)
             X == PartsAfter(P, m, k - 1)
  <1>1. /\ text \in Seq(T) /\ Len(text) \in Nat /\ m \in Seq(Operation) /\ Apart(m)
        /\ DOMAIN m = 1 .. Len(m) /\ Len(m) \in Nat /\ m[k].end <= Len(text)
    BY DEF Layout
  <1>2. \A j \in 1 .. Len(m) : m[j].start \in Nat /\ m[j].end \in Nat /\ m[j].start <= m[j].end
    BY <1>1 DEF Operation
  <1>3. a \in 0 .. Len(text) /\ b \in 0 .. Len(text)
    BY <1>1, <1>2
  <1>4. P[a] = X \o Slice(text, c, a)
    <2>1. k - 1 \in 0 .. Len(m) /\ (k - 1) + 1 = k
      BY <1>1
    <2>2. c <= a /\ (a = c => k - 1 = 0)
      <3>1. CASE k - 1 = 0
        BY <1>2, <3>1 DEF CursorAfter
      <3>2. CASE k - 1 # 0
        <4>1. k - 1 \in 1 .. Len(m) /\ k - 1 < k
          BY <1>1, <3>2
        <4>2. m[k - 1].end < m[k].start
          BY <1>1, <4>1 DEF Apart
        <4>3. c = m[k - 1].end
          BY <3>2 DEF CursorAfter
        <4>4. QED
          BY <1>2, <4>1, <4>2, <4>3
      <3>3. QED
        BY <3>1, <3>2
    <2>3. a <= m[(k - 1) + 1].start
      BY <1>2, <2>1
    <2> DEFINE j == k - 1
    <2>4. /\ j \in 0 .. Len(m) /\ CursorAfter(m, j) <= a
          /\ j < Len(m) => a <= m[j + 1].start
          /\ a = CursorAfter(m, j) => j = 0
      BY <2>1, <2>2, <2>3
    <2> HIDE DEF a, j
    <2>5. P[a] = PartsAfter(P, m, j) \o Slice(text, CursorAfter(m, j), a)
      <3>1. UpTo(text, m, j, a)
        BY <1>3, <2>4 DEF UpTo
      <3>2. QED
        BY <3>1, GapLaid
    <2>6. QED
      BY <2>5 DEF j
  <1>5. MarkAt(m, a) = IF m[k].redact THEN <<Marker>> ELSE <<>>
    BY <1>1, OpensAtStart DEF MarkAt
  <1>6. Laying(P, m, b) = Laying(P, m, a)
    BY SpanLaid
  <1>7. RebuildStep(acc, m[k]) =
            [text   |-> text,
             cursor |-> b,
             parts  |-> X \o Slice(text, c, a) \o (IF m[k].redact THEN <<Marker>> ELSE <<>>)]
    <2> DEFINE s == m[k]
    <2>1. acc.text = text /\ acc.cursor = c /\ acc.parts = X
      BY Zenon
    <2> HIDE DEF c, X, s
    <2>2. RebuildStep(acc, s) =
              [text   |-> text,
               cursor |-> s.end,
               parts  |-> X \o Slice(text, c, s.start) \o (IF s.redact THEN <<Marker>> ELSE <<>>)]
      BY <2>1, Zenon DEF RebuildStep
    <2>3. QED
      BY <2>2 DEF s
  <1>8. CursorAfter(m, k) = b /\ PartsAfter(P, m, k) = Laying(P, m, b)
    <2>1. k # 0
      OBVIOUS
    <2>2. QED
      BY <2>1, Zenon DEF CursorAfter, PartsAfter, Laying
  <1>9. Laying(P, m, a) = X \o Slice(text, c, a) \o (IF m[k].redact THEN <<Marker>> ELSE <<>>)
    BY <1>4, <1>5, Zenon DEF Laying
  <1> HIDE DEF a, b, c, X
  <1>10. QED
    BY <1>6, <1>7, <1>8, <1>9, Zenon

(* So the loop as a whole lays the text out. *)
LEMMA RebuildLays ==
  ASSUME NEW T, NEW text, NEW m, NEW P, Layout(T, text, m, P)
  PROVE  Rebuild(text, m) = P[Len(text) + 1]
PROOF
  <1> DEFINE n == Len(m)
             State(k) == [text |-> text, cursor |-> CursorAfter(m, k), parts |-> PartsAfter(P, m, k)]
             G == [k \in 0 .. n |-> {State(k)}]
             base == [text |-> text, cursor |-> 0, parts |-> <<>>]
             done == Rebuilding!Folded(base, m)
             len == Len(text)
  <1>1. /\ text \in Seq(T) /\ len \in Nat /\ m \in Seq(Operation) /\ Apart(m)
        /\ DOMAIN m = 1 .. n /\ n \in Nat /\ P[0] = <<>>
    BY DEF Layout
  <1>2. base \in G[0]
    BY <1>1 DEF CursorAfter, PartsAfter
  <1>3. ASSUME NEW k \in 1 .. n, NEW acc \in G[k - 1]
        PROVE  RebuildStep(acc, m[k]) \in G[k]
    <2>1. acc = State(k - 1) /\ k \in 0 .. n
      BY <1>1
    <2>2. RebuildStep(acc, m[k]) = State(k)
      BY <2>1, RebuildStepLays
    <2> HIDE DEF State
    <2>3. QED
      BY <2>1, <2>2
  <1>4. done = State(n)
    <2>1. done \in G[n]
      <3> HIDE DEF G, base, n, State
      <3>1. QED
        BY <1>1, <1>2, <1>3, Rebuilding!FoldInvariant
    <2>2. n \in 0 .. n
      BY <1>1
    <2> HIDE DEF done, State, n
    <2>3. QED
      BY <2>1, <2>2
  <1>5. Rebuild(text, m) = done.parts \o Slice(text, done.cursor, len)
    BY DEF Rebuild, FoldLeft, MapThenFoldSet, Rebuilding!Folded, Rebuilding!FoldLeft,
           Rebuilding!MapThenFoldSet, Rebuilding!Max, Max
  <1>6. done.parts = PartsAfter(P, m, n) /\ done.cursor = CursorAfter(m, n)
    <2> HIDE DEF done
    <2>1. QED
      BY <1>4
  <1> DEFINE X == PartsAfter(P, m, n)
             c == CursorAfter(m, n)
  <1>7. Rebuild(text, m) = X \o Slice(text, c, len)
    <2> HIDE DEF done
    <2>1. QED
      BY <1>5, <1>6, Zenon
  <1>8. n \in 0 .. n /\ ~(n < n) /\ len \in 0 .. len
    BY <1>1
  <1>9. c \in 0 .. len /\ c <= len
    <2>1. CASE n = 0
      BY <1>1, <2>1 DEF CursorAfter
    <2>2. CASE n # 0
      <3>1. n \in 1 .. n /\ m[n] \in Operation
        BY <1>1, <2>2
      <3>2. c = m[n].end /\ m[n].end <= len
        BY <1>1, <2>2, <3>1 DEF CursorAfter, Layout
      <3>3. QED
        BY <1>1, <3>1, <3>2 DEF Operation
    <2>3. QED
      BY <2>1, <2>2
  <1>10. P[len + 1] = Laying(P, m, len)
    BY <1>8, Cut
  <1>11. CASE len = c /\ n # 0
    <2>1. X = Laying(P, m, len)
      BY <1>11 DEF PartsAfter, CursorAfter, Laying
    <2>2. Laying(P, m, len) \in Seq(T)
      BY <1>8, LayoutStep
    <2>3. X \o Slice(text, len, len) = X
      <3>1. X \in Seq(T)
        BY <2>1, <2>2, Zenon
      <3> HIDE DEF X
      <3>2. QED
        BY <1>1, <1>8, <3>1, NothingSliced
    <2>4. QED
      BY <1>7, <1>10, <1>11, <2>1, <2>3, Zenon
  <1>12. CASE ~(len = c /\ n # 0)
    <2>1. len = CursorAfter(m, n) => n = 0
      BY <1>12
    <2>2. P[len] = X \o Slice(text, c, len)
      <3>1. CursorAfter(m, n) <= len
        BY <1>9
      <3> HIDE DEF n, len
      <3>2. P[len] = PartsAfter(P, m, n) \o Slice(text, CursorAfter(m, n), len)
        <4>1. n \in 0 .. Len(m) /\ len \in 0 .. Len(text) /\ (n < Len(m) => len <= m[n + 1].start)
          BY <1>8 DEF n, len
        <4>2. UpTo(text, m, n, len)
          BY <2>1, <3>1, <4>1 DEF UpTo
        <4>3. QED
          BY <4>2, GapLaid
      <3>3. QED
        BY <3>2
    <2>3. ~Opens(m, len)
      <3>1. ~Inside(m, len) /\ (Opens(m, len) => n > 0 /\ m[n].end = len)
        <4>1. CursorAfter(m, n) <= len /\ len \in Nat
          BY <1>1, <1>9
        <4>2. QED
          BY <1>1, <1>8, <4>1, Gap
      <3>2. n > 0 /\ m[n].end = len => len = c /\ n # 0
        BY <1>1 DEF CursorAfter
      <3>3. QED
        BY <1>12, <3>1, <3>2
    <2>4. Laying(P, m, len) = P[len]
      BY <1>8, <2>3, LayoutStep
    <2>5. QED
      BY <1>7, <1>10, <2>2, <2>4, Zenon
  <1>13. QED
    BY <1>11, <1>12

(* Spans that lie apart in a text can be laid out. *)
LEMMA LayoutExists ==
  ASSUME NEW T, Marker \in T, NEW text \in Seq(T), NEW m \in Seq(Operation), Apart(m),
         \A j \in DOMAIN m : m[j].end <= Len(text)
  PROVE  \E P : Layout(T, text, m, P) /\ Laid(text, m) = P[Len(text) + 1]
PROOF
  <1> DEFINE n == Len(text) + 1
             parts == [i \in 1 .. n |-> MarkAt(m, i - 1) \o CharAt(text, m, i - 1)]
  <1>1. n \in Nat /\ Len(text) \in Nat
    OBVIOUS
  <1>2. parts \in [1 .. n -> Seq(T)]
    <2>1. ASSUME NEW i \in 1 .. n
          PROVE  MarkAt(m, i - 1) \o CharAt(text, m, i - 1) \in Seq(T)
      <3>1. MarkAt(m, i - 1) \in Seq(T)
        BY DEF MarkAt
      <3>2. i - 1 # Len(text) => text[(i - 1) + 1] \in T
        BY <1>1
      <3>3. CharAt(text, m, i - 1) \in Seq(T)
        BY <3>2 DEF CharAt
      <3>4. QED
        BY <3>1, <3>3, ConcatProperties
    <2>2. QED
      BY <2>1
  <1> HIDE DEF n, parts
  <1>3. PICK P \in [0 .. n -> Seq(T)] : /\ P[0] = <<>>
                                        /\ \A i \in 1 .. n : P[i] = P[i - 1] \o parts[i]
                                        /\ FlattenSeq(parts) = P[n]
    BY <1>1, <1>2, FlattenTrace
  <1>4. Layout(T, text, m, P)
    <2>1. \A i \in 1 .. n : parts[i] = MarkAt(m, i - 1) \o CharAt(text, m, i - 1)
      BY DEF parts
    <2>2. \A i \in 1 .. n : P[i] = P[i - 1] \o (MarkAt(m, i - 1) \o CharAt(text, m, i - 1))
      BY <1>3, <2>1, Zenon
    <2>3. P \in [0 .. Len(text) + 1 -> Seq(T)] /\ P[0] = <<>>
      BY <1>3, Zenon DEF n
    <2>4. QED
      BY <2>2, <2>3, Zenon DEF Layout, n
  <1>5. Laid(text, m) = FlattenSeq(parts)
    BY DEF Laid, parts, n
  <1>6. QED
    BY <1>3, <1>4, <1>5, Zenon DEF n

(* What is laid out is what Laid says. *)
LEMMA LaidOut ==
  ASSUME NEW T, Marker \in T, NEW text \in Seq(T), NEW m \in Seq(Operation), Apart(m),
         \A j \in DOMAIN m : m[j].end <= Len(text)
  PROVE  Rebuild(text, m) = Laid(text, m) /\ Rebuild(text, m) \in Seq(T)
PROOF
  <1>1. PICK P : Layout(T, text, m, P) /\ Laid(text, m) = P[Len(text) + 1]
    BY LayoutExists
  <1>2. Rebuild(text, m) = P[Len(text) + 1]
    BY <1>1, RebuildLays
  <1>3. P[Len(text) + 1] \in Seq(T)
    <2>1. P \in [0 .. Len(text) + 1 -> Seq(T)] /\ Len(text) \in Nat
      BY <1>1 DEF Layout
    <2>2. QED
      BY <2>1
  <1>4. QED
    BY <1>1, <1>2, <1>3, Zenon

-----------------------------------------------------------------------------
(* The same, said of the findings: what they cover and where a stretch of  *)
(* covered text opens that holds a redaction.                              *)
Changing(findings) == {f \in Range(findings) : f.action \in {"REMOVE", "REDACT"}}

CoveredBy(F, o) == \E f \in F : f.start <= o /\ o < f.end

OpensBy(F, o) == /\ o = 0 \/ ~CoveredBy(F, o - 1)
                 /\ \E f \in F : /\ f.action = "REDACT" /\ o <= f.start
                                 /\ \A i \in o .. f.start - 1 : CoveredBy(F, i)

(* Uncovered goes through the offsets of a text: a marker where a span to  *)
(* redact opens, and the character if none covers it.                      *)
LEMMA UncoveredByOffsets ==
  ASSUME NEW text, NEW findings
  PROVE  Uncovered(text, findings) =
            FlattenSeq([i \in 1 .. Len(text) + 1 |->
                (IF OpensBy(Changing(findings), i - 1) THEN <<Marker>> ELSE <<>>)
                \o (IF i - 1 = Len(text) \/ CoveredBy(Changing(findings), i - 1)
                    THEN <<>> ELSE <<text[(i - 1) + 1]>>)])
PROOF
  BY Zenon DEF Uncovered, OpensBy, CoveredBy, Changing

(* In front of a merged span there is nothing inside one. *)
LEMMA NotInsideBefore ==
  ASSUME NEW m \in Seq(Operation), Apart(m), NEW j \in 1 .. Len(m), NEW o \in Int,
         o = m[j].start - 1
  PROVE  ~Inside(m, o)
PROOF
  <1>1. DOMAIN m = 1 .. Len(m) /\ Len(m) \in Nat
    OBVIOUS
  <1>2. \A i \in 1 .. Len(m) : m[i].start \in Nat /\ m[i].end \in Nat /\ m[i].start <= m[i].end
    BY DEF Operation
  <1>3. ASSUME NEW i \in 1 .. Len(m), m[i].start <= o, o < m[i].end
        PROVE  FALSE
    <2>1. i < j => m[i].end < m[j].start
      BY <1>1 DEF Apart
    <2>2. j < i => m[j].end < m[i].start
      BY <1>1 DEF Apart
    <2>3. i < j \/ j < i \/ i = j
      OBVIOUS
    <2>4. QED
      BY <1>2, <1>3, <2>1, <2>2, <2>3
  <1>4. QED
    BY <1>1, <1>3 DEF Inside

(* Merging changes neither what is covered *)
LEMMA SameInside ==
  ASSUME NEW m \in Seq(Operation), NEW F, \A f \in F : f.start \in Nat /\ f.end \in Nat,
         Merges(m, {SpanOf(f) : f \in F}), NEW o \in Int
  PROVE  Inside(m, o) <=> CoveredBy(F, o)
PROOF
  <1>1. DOMAIN m = 1 .. Len(m) /\ Len(m) \in Nat
    OBVIOUS
  <1>2. \A i \in 1 .. Len(m) : m[i].start \in Nat /\ m[i].end \in Nat
    BY DEF Operation
  <1>3. ASSUME Inside(m, o)
        PROVE  CoveredBy(F, o)
    <2>1. PICK j \in DOMAIN m : m[j].start <= o /\ o < m[j].end
      BY <1>3 DEF Inside
    <2>2. o \in m[j].start .. m[j].end - 1
      BY <1>2, <2>1
    <2>3. PICK f \in F : SpanOf(f).start <= o /\ o < SpanOf(f).end
      BY <2>1, <2>2 DEF Merges, InsideFrom
    <2>4. QED
      BY <2>3 DEF SpanOf, CoveredBy
  <1>4. ASSUME CoveredBy(F, o)
        PROVE  Inside(m, o)
    <2>1. PICK f \in F : f.start <= o /\ o < f.end
      BY <1>4 DEF CoveredBy
    <2>2. PICK j \in DOMAIN m : Within(SpanOf(f), m[j])
      BY DEF Merges, HoldAll
    <2>3. m[j].start <= f.start /\ f.end <= m[j].end
      BY <2>2 DEF Within, SpanOf
    <2>4. m[j].start <= o /\ o < m[j].end
      BY <1>2, <2>1, <2>3
    <2>5. QED
      BY <2>4 DEF Inside
  <1>5. QED
    BY <1>3, <1>4

(* nor where a marker stands. *)
LEMMA SameOpens ==
  ASSUME NEW m \in Seq(Operation), NEW F,
         \A f \in F : f.start \in Nat /\ f.end \in Nat /\ f.start <= f.end,
         Merges(m, {SpanOf(f) : f \in F}), NEW o \in Nat
  PROVE  Opens(m, o) <=> OpensBy(F, o)
PROOF
  <1>1. DOMAIN m = 1 .. Len(m) /\ Len(m) \in Nat /\ Apart(m)
    BY DEF Merges
  <1>2. \A i \in 1 .. Len(m) : m[i].start \in Nat /\ m[i].end \in Nat
    BY DEF Operation
  <1>3. \A i \in Int : Inside(m, i) <=> CoveredBy(F, i)
    BY SameInside
  <1>4. ASSUME Opens(m, o)
        PROVE  OpensBy(F, o)
    <2>1. PICK j \in 1 .. Len(m) : m[j].start = o /\ m[j].redact
      BY <1>1, <1>4 DEF Opens
    <2>2. PICK f \in F : SpanOf(f).redact /\ Within(SpanOf(f), m[j])
      BY <1>1, <2>1 DEF Merges, RedactionsFrom
    <2>3. f.action = "REDACT"
      BY <2>2 DEF SpanOf
    <2>4. m[j].start <= f.start /\ f.end <= m[j].end
      BY <2>2 DEF SpanOf, Within
    <2>5. ASSUME NEW i \in o .. f.start - 1
          PROVE  CoveredBy(F, i)
      <3>1. i \in Int /\ m[j].start <= i /\ i < m[j].end
        BY <1>2, <2>1, <2>4
      <3>2. Inside(m, i)
        BY <1>1, <3>1 DEF Inside
      <3>3. QED
        BY <1>3, <3>1, <3>2
    <2>6. ~CoveredBy(F, o - 1)
      <3>1. ~Inside(m, o - 1)
        <4>1. o - 1 \in Int /\ o - 1 = m[j].start - 1
          BY <2>1
        <4>2. QED
          BY <1>1, <4>1, NotInsideBefore
      <3>2. QED
        BY <1>3, <3>1
    <2>7. o <= f.start
      BY <2>1, <2>4
    <2>8. QED
      BY <2>3, <2>5, <2>6, <2>7 DEF OpensBy
  <1>5. ASSUME OpensBy(F, o)
        PROVE  Opens(m, o)
    <2>1. PICK f \in F : /\ f.action = "REDACT" /\ o <= f.start
                         /\ \A i \in o .. f.start - 1 : CoveredBy(F, i)
      BY <1>5 DEF OpensBy
    <2>2. PICK j \in 1 .. Len(m) : /\ Within(SpanOf(f), m[j])
                                   /\ SpanOf(f).redact => m[j].redact
      BY <1>1 DEF Merges, HoldAll
    <2>3. m[j].redact
      BY <2>1, <2>2 DEF SpanOf
    <2>4. m[j].start <= f.start /\ f.end <= m[j].end
      BY <2>2 DEF SpanOf, Within
    <2>5. ~(m[j].start < o)
      <3>1. ASSUME m[j].start < o PROVE FALSE
        <4>1. o - 1 \in Int /\ m[j].start <= o - 1 /\ o - 1 < m[j].end /\ o # 0
          BY <1>2, <2>1, <2>4, <3>1
        <4>2. Inside(m, o - 1)
          BY <1>1, <4>1 DEF Inside
        <4>3. CoveredBy(F, o - 1)
          BY <1>3, <4>1, <4>2
        <4>4. QED
          BY <1>5, <4>1, <4>3 DEF OpensBy
      <3>2. QED
        BY <3>1
    <2>6. ~(o < m[j].start)
      <3>1. ASSUME o < m[j].start PROVE FALSE
        <4> DEFINE i == m[j].start - 1
        <4>1. i \in Int /\ i \in o .. f.start - 1
          BY <1>2, <2>4, <3>1
        <4>2. CoveredBy(F, i)
          BY <2>1, <4>1
        <4>3. ~Inside(m, i)
          BY <1>1, <4>1, NotInsideBefore
        <4> HIDE DEF i
        <4>4. QED
          BY <1>3, <4>1, <4>2, <4>3
      <3>2. QED
        BY <3>1
    <2>7. m[j].start = o
      BY <1>2, <2>5, <2>6
    <2>8. QED
      BY <1>1, <2>3, <2>7 DEF Opens
  <1>6. QED
    BY <1>4, <1>5

(* What is merged of findings of a text lies in the text. *)
LEMMA MergedFits ==
  ASSUME NEW text, NEW kept, SpansFit(kept, text)
  PROVE  LET m == MergeSpans(Operations(kept))
         IN  /\ m \in Seq(Operation) /\ Merges(m, {SpanOf(f) : f \in Range(kept)})
             /\ \A j \in DOMAIN m : m[j].end <= Len(text)
             /\ \A f \in Range(kept) : /\ f.start \in Nat /\ f.end \in Nat
                                       /\ f.start <= f.end /\ f.end <= Len(text)
PROOF
  <1> DEFINE F == Range(kept)
             spans == Operations(kept)
             m == MergeSpans(spans)
  <1>1. /\ kept \in Seq(Finding)
        /\ \A f \in F : f \in Finding /\ IsSpan(f) /\ f.end <= Len(text)
    BY DEF SpansFit, Range
  <1>2. spans \in Seq(Operation) /\ Range(spans) = {SpanOf(f) : f \in F}
    BY <1>1, OperationsOf
  <1> HIDE DEF spans, F
  <1>3. m \in Seq(Operation) /\ Merges(m, {SpanOf(f) : f \in F})
    <2>1. m \in Seq(Operation) /\ Merges(m, Range(spans))
      BY <1>2, SpansMerged
    <2>2. QED
      BY <1>2, <2>1
  <1> HIDE DEF m
  <1>4. \A f \in F : /\ f.start \in Nat /\ f.end \in Nat /\ f.start <= f.end
                     /\ f.end <= Len(text)
    BY <1>1 DEF Finding, IsSpan
  <1>5. ASSUME NEW j \in DOMAIN m
        PROVE  m[j].end <= Len(text)
    <2>1. PICK f \in F : SpanOf(f).end = m[j].end
      BY <1>3 DEF Merges, EndsFrom
    <2>2. QED
      BY <1>4, <2>1 DEF SpanOf
  <1>6. QED
    BY <1>3, <1>4, <1>5 DEF m, spans, F

(* The findings that change a text are some of its findings. *)
LEMMA RewritingFits ==
  ASSUME NEW text, NEW findings, SpansFit(findings, text)
  PROVE  /\ SpansFit(Rewriting(findings), text)
         /\ Range(Rewriting(findings)) = Changing(findings)
PROOF
  BY RewritingKeeps DEF SpansFit, Changing

(* Sanitizing a text adds nothing to it but the marker. *)
LEMMA SanitizedText ==
  ASSUME NEW T, Marker \in T, NEW text \in Seq(T), NEW findings, SpansFit(findings, text)
  PROVE  SanitizeFindings(text, findings) \in Seq(T)
PROOF
  <1> DEFINE m == MergeSpans(Operations(Rewriting(findings)))
  <1>1. /\ m \in Seq(Operation) /\ Merges(m, {SpanOf(f) : f \in Changing(findings)})
        /\ \A j \in DOMAIN m : m[j].end <= Len(text)
    BY RewritingFits, MergedFits
  <1> HIDE DEF m
  <1>2. Rebuild(text, m) \in Seq(T)
    BY <1>1, LaidOut DEF Merges
  <1>3. QED
    BY <1>2 DEF SanitizeFindings, m

(* Without a finding to remove or redact, a text stays as it is. *)
LEMMA SanitizedOfNothing ==
  ASSUME NEW T, NEW text \in Seq(T), NEW findings, SpansFit(findings, text),
         Changing(findings) = {}
  PROVE  SanitizeFindings(text, findings) = text
PROOF
  <1> DEFINE m == MergeSpans(Operations(Rewriting(findings)))
             base == [text |-> text, cursor |-> 0, parts |-> <<>>]
             done == Rebuilding!Folded(base, m)
  <1>1. m \in Seq(Operation) /\ Merges(m, {SpanOf(f) : f \in Changing(findings)})
    BY RewritingFits, MergedFits
  <1> HIDE DEF m
  <1>2. DOMAIN m = 1 .. 0
    <2>1. \A j \in DOMAIN m : FALSE
      BY <1>1 DEF Merges, EndsFrom
    <2>2. DOMAIN m = 1 .. Len(m) /\ Len(m) \in Nat
      BY <1>1
    <2>3. Len(m) = 0
      <3> DEFINE n == Len(m)
      <3>1. n # 0 /\ n \in Nat => 1 \in 1 .. n
        OBVIOUS
      <3> HIDE DEF n
      <3>2. n # 0 => FALSE
        BY <2>1, <2>2, <3>1 DEF n
      <3>3. QED
        BY <3>2 DEF n
    <2>4. QED
      BY <2>2, <2>3
  <1>3. done = base
    <2> DEFINE G == [k \in 0 .. 0 |-> {base}]
    <2>1. base \in G[0] /\ 0 \in Nat
      OBVIOUS
    <2>2. \A k \in 1 .. 0 : \A acc \in G[k - 1] : RebuildStep(acc, m[k]) \in G[k]
      OBVIOUS
    <2>3. done \in G[0]
      <3> HIDE DEF G, base
      <3>1. QED
        BY <1>2, <2>1, <2>2, Rebuilding!FoldInvariant
    <2> HIDE DEF done, base
    <2>4. QED
      BY <2>3
  <1>4. Rebuild(text, m) = done.parts \o Slice(text, done.cursor, Len(text))
    BY DEF Rebuild, FoldLeft, MapThenFoldSet, Rebuilding!Folded, Rebuilding!FoldLeft,
           Rebuilding!MapThenFoldSet, Rebuilding!Max, Max
  <1>5. done.parts = <<>> /\ done.cursor = 0
    <2> HIDE DEF done
    <2>1. QED
      BY <1>3
  <1>6. <<>> \o Slice(text, 0, Len(text)) = text
    BY SubSeqFull, ConcatEmptySeq DEF Slice
  <1> HIDE DEF done
  <1>7. QED
    BY <1>4, <1>5, <1>6, Zenon DEF SanitizeFindings, m

(* sanitize_findings leaves every character that no removed or redacted    *)
(* span covers where it was, leaves nothing of the others, and puts one    *)
(* marker where a covered stretch with a redaction opens - for every text  *)
(* and all findings that fit it, overlapping, touching and empty ones      *)
(* included.                                                               *)
THEOREM SanitizedIsUncovered ==
  ASSUME NEW T, Marker \in T, NEW text \in Seq(T), NEW findings, SpansFit(findings, text)
  PROVE  SanitizeFindings(text, findings) = Uncovered(text, findings)
PROOF
  <1> DEFINE F == Changing(findings)
             m == MergeSpans(Operations(Rewriting(findings)))
  <1>1. /\ m \in Seq(Operation) /\ Merges(m, {SpanOf(f) : f \in F})
        /\ \A j \in DOMAIN m : m[j].end <= Len(text)
        /\ \A f \in F : /\ f.start \in Nat /\ f.end \in Nat
                         /\ f.start <= f.end /\ f.end <= Len(text)
    BY RewritingFits, MergedFits
  <1> HIDE DEF m, F
  <1>2. Rebuild(text, m) = Laid(text, m)
    BY <1>1, LaidOut DEF Merges
  <1>3. \A o \in 0 .. Len(text) : /\ Opens(m, o) <=> OpensBy(F, o)
                                  /\ Inside(m, o) <=> CoveredBy(F, o)
    <2>1. ASSUME NEW o \in 0 .. Len(text)
          PROVE  (Opens(m, o) <=> OpensBy(F, o)) /\ (Inside(m, o) <=> CoveredBy(F, o))
      <3>1. o \in Nat /\ o \in Int
        OBVIOUS
      <3>2. Opens(m, o) <=> OpensBy(F, o)
        BY <1>1, <3>1, SameOpens
      <3>3. Inside(m, o) <=> CoveredBy(F, o)
        BY <1>1, <3>1, SameInside
      <3>4. QED
        BY <3>2, <3>3
    <2>2. QED
      BY <2>1
  <1>4. Laid(text, m) = Uncovered(text, findings)
    <2> DEFINE A(i) == MarkAt(m, i - 1) \o CharAt(text, m, i - 1)
               B(i) == (IF OpensBy(F, i - 1) THEN <<Marker>> ELSE <<>>)
                       \o (IF i - 1 = Len(text) \/ CoveredBy(F, i - 1)
                           THEN <<>> ELSE <<text[(i - 1) + 1]>>)
    <2>1. ASSUME NEW i \in 1 .. Len(text) + 1
          PROVE  A(i) = B(i)
      <3>1. i - 1 \in 0 .. Len(text)
        OBVIOUS
      <3>2. /\ Opens(m, i - 1) <=> OpensBy(F, i - 1)
            /\ Inside(m, i - 1) <=> CoveredBy(F, i - 1)
        BY <1>3, <3>1
      <3>3. QED
        BY <3>2, Zenon DEF MarkAt, CharAt
    <2>2. Laid(text, m) = FlattenSeq([i \in 1 .. Len(text) + 1 |-> A(i)])
      BY Zenon DEF Laid
    <2>3. Uncovered(text, findings) = FlattenSeq([i \in 1 .. Len(text) + 1 |-> B(i)])
      BY UncoveredByOffsets, Zenon DEF F
    <2> HIDE DEF A, B
    <2>4. [i \in 1 .. Len(text) + 1 |-> A(i)] = [i \in 1 .. Len(text) + 1 |-> B(i)]
      BY <2>1
    <2>5. QED
      BY <2>2, <2>3, <2>4, Zenon
  <1>5. SanitizeFindings(text, findings) = Rebuild(text, m)
    BY DEF SanitizeFindings, m
  <1>6. QED
    BY <1>2, <1>4, <1>5, Zenon

-----------------------------------------------------------------------------
(* Findings that fit a text: what is made of them fits too. *)
LEMMA InsideText ==
  ASSUME NEW t, NEW findings
  PROVE  SpansFit(findings, t) <=>
            /\ findings \in Seq(Finding)
            /\ \A i \in DOMAIN findings : findings[i].start <= findings[i].end
                                          /\ findings[i].end <= Len(t)
PROOF
  <1>1. ASSUME findings \in Seq(Finding)
        PROVE  (\A f \in Range(findings) : IsSpan(f) /\ f.end <= Len(t))
               <=> (\A i \in DOMAIN findings : findings[i].start <= findings[i].end
                                               /\ findings[i].end <= Len(t))
    <2>1. \A i \in DOMAIN findings : findings[i] \in Finding
      BY <1>1
    <2>2. \A i \in DOMAIN findings :
              /\ findings[i].start \in Nat /\ findings[i].end \in Nat
      BY <2>1 DEF Finding
    <2>3. \A i \in DOMAIN findings :
              IsSpan(findings[i]) <=> findings[i].start <= findings[i].end
      BY <2>2 DEF IsSpan
    <2>4. QED
      BY <2>3 DEF Range
  <1>2. QED
    BY <1>1 DEF SpansFit

(* Sorted findings fit the text that the findings fit.                     *)
LEMMA SortFits ==
  ASSUME NEW t, NEW findings, SpansFit(findings, t)
  PROVE  SpansFit(SortFindings(findings), t)
PROOF
  BY FindingsSorted DEF SpansFit

(* No findings fit every text.                                             *)
LEMMA NoneFits ==
  ASSUME NEW t
  PROVE  SpansFit(<<>>, t)
PROOF
  BY DEF SpansFit, Range

(* Findings in a row fit the text that they fit each.                      *)
LEMMA ConcatFits ==
  ASSUME NEW t, NEW f, NEW g, SpansFit(f, t), SpansFit(g, t)
  PROVE  SpansFit(f \o g, t)
PROOF
  <1>1. f \in Seq(Finding) /\ g \in Seq(Finding)
    BY DEF SpansFit
  <1>2. f \o g \in Seq(Finding) /\ Range(f \o g) = Range(f) \cup Range(g)
    BY <1>1, RangeConcatenation
  <1>3. QED
    BY <1>2 DEF SpansFit

(* So do those among them to remove.                                       *)
LEMMA RemovalsFit ==
  ASSUME NEW t, NEW findings, SpansFit(findings, t)
  PROVE  SpansFit(Removals(findings), t)
PROOF
  BY RemovalsKeep DEF SpansFit

(* One more that fits may be added.                                        *)
LEMMA AppendFits ==
  ASSUME NEW t, NEW findings, SpansFit(findings, t), NEW f \in Finding,
         f.start <= f.end, f.end <= Len(t)
  PROVE  SpansFit(Append(findings, f), t)
PROOF
  <1>1. findings \in Seq(Finding)
    BY DEF SpansFit
  <1>2. /\ Append(findings, f) \in Seq(Finding)
        /\ Range(Append(findings, f)) = Range(findings) \cup {f}
    BY <1>1, RangeOfAppend
  <1>3. IsSpan(f)
    BY DEF IsSpan, Finding
  <1>4. QED
    BY <1>2, <1>3 DEF SpansFit

(* A policy changes actions and no spans.                                  *)
LEMMA EffectiveFits ==
  ASSUME NEW t, NEW findings, SpansFit(findings, t), NEW policy,
         \A r \in DOMAIN policy : policy[r] \in Actions
  PROVE  SpansFit(EffectiveFindings(policy, findings), t)
PROOF
  <1> DEFINE e == EffectiveFindings(policy, findings)
  <1>1. /\ findings \in Seq(Finding) /\ DOMAIN findings = 1 .. Len(findings)
        /\ Len(findings) \in Nat
        /\ \A i \in DOMAIN findings : findings[i].start <= findings[i].end
                                      /\ findings[i].end <= Len(t)
    BY InsideText
  <1>2. ASSUME NEW i \in 1 .. Len(findings)
        PROVE  /\ e[i] \in Finding /\ e[i].start = findings[i].start
               /\ e[i].end = findings[i].end
    <2> DEFINE f == findings[i]
               a == ActionFor(policy, f.rule, f.action)
    <2>1. f \in Finding
      BY <1>1
    <2>2. a \in Actions
      BY <2>1 DEF ActionFor, Finding
    <2>3. e[i] = [f EXCEPT !.action = a]
      BY <1>1 DEF EffectiveFindings
    <2> HIDE DEF a, f, e
    <2>4. QED
      BY <2>1, <2>2, <2>3 DEF Finding, f
  <1>3. e = [i \in 1 .. Len(findings) |-> e[i]]
    BY <1>1 DEF EffectiveFindings
  <1> HIDE DEF e
  <1>4. e \in Seq(Finding) /\ DOMAIN e = 1 .. Len(findings)
    BY <1>1, <1>2, <1>3
  <1>5. SpansFit(e, t)
    BY <1>1, <1>2, <1>4, InsideText
  <1>6. QED
    BY <1>5 DEF e

-----------------------------------------------------------------------------
(* A text of n characters without those of the offsets in Gone, which has  *)
(* k characters: the offset in it of an offset of the text, and for each   *)
(* offset in it the one a span that starts there gets (begin), and one     *)
(* that ends there (end).                                                  *)
Moves(n, k, Gone, place, begin, end) ==
    /\ n \in Nat /\ k \in Nat /\ Gone \in SUBSET (0 .. n - 1)
    /\ place \in [0 .. n -> 0 .. k] /\ place[0] = 0 /\ place[n] = k
    /\ \A o \in 0 .. n - 1 : place[o + 1] = IF o \in Gone THEN place[o] ELSE place[o] + 1
    /\ \A o, p \in 0 .. n : o <= p => place[o] <= place[p]
    /\ begin \in [0 .. k -> 0 .. n] /\ end \in [0 .. k -> 0 .. n]
    /\ \A q \in 0 .. k : place[begin[q]] = q /\ begin[q] \notin Gone /\ place[end[q]] = q

(* What the moved spans S cover together with Gone, and where those of     *)
(* them that are redacted start.                                           *)
Moved(n, k, Gone, begin, end, S, F) ==
    /\ \A g \in S : g.start \in 0 .. k /\ g.end \in 0 .. k
    /\ \A f \in F : f.start \in Nat
    /\ \A o \in 0 .. n - 1 : CoveredBy(F, o) <=>
          o \in Gone \/ \E g \in S : begin[g.start] <= o /\ o < end[g.end]
    /\ \A f \in F : f.action = "REDACT" =>
          \E g \in S : g.action = "REDACT" /\ f.start = begin[g.start]
    /\ \A g \in S : g.action = "REDACT" =>
          \E f \in F : f.action = "REDACT" /\ f.start = begin[g.start]

(* Offsets keep their order: for one that stays, and for where one goes.   *)
LEMMA StaysInOrder ==
  ASSUME NEW n, NEW k, NEW Gone, NEW place, NEW begin, NEW end,
         Moves(n, k, Gone, place, begin, end), NEW o \in 0 .. n - 1, o \notin Gone, NEW q \in 0 .. k
  PROVE  (begin[q] <= o <=> q <= place[o]) /\ (o < end[q] <=> place[o] < q)
PROOF
  <1> /\ n \in Nat /\ k \in Nat /\ place \in [0 .. n -> 0 .. k]
      /\ begin[q] \in 0 .. n /\ end[q] \in 0 .. n /\ place[begin[q]] = q /\ place[end[q]] = q
      /\ \A a, b \in 0 .. n : a <= b => place[a] <= place[b]
      /\ place[o + 1] = place[o] + 1
    BY DEF Moves
  <1>1. o \in 0 .. n /\ o + 1 \in 0 .. n /\ place[o] \in Nat
    OBVIOUS
  <1>2. begin[q] <= o => q <= place[o]
    BY <1>1
  <1>3. o < begin[q] => place[o] < q
    <2>1. o < begin[q] => place[o + 1] <= place[begin[q]]
      BY <1>1
    <2>2. QED
      BY <1>1, <2>1
  <1>4. end[q] <= o => q <= place[o]
    BY <1>1
  <1>5. o < end[q] => place[o] < q
    <2>1. o < end[q] => place[o + 1] <= place[end[q]]
      BY <1>1
    <2>2. QED
      BY <1>1, <2>1
  <1>6. QED
    BY <1>1, <1>2, <1>3, <1>4, <1>5

(* Offsets and the places they go to are in the same order.                *)
LEMMA GoesInOrder ==
  ASSUME NEW n, NEW k, NEW Gone, NEW place, NEW begin, NEW end,
         Moves(n, k, Gone, place, begin, end), NEW o \in 0 .. n, NEW q \in 0 .. k
  PROVE  o <= begin[q] <=> place[o] <= q
PROOF
  <1> /\ n \in Nat /\ k \in Nat /\ place \in [0 .. n -> 0 .. k] /\ place[n] = k
      /\ begin[q] \in 0 .. n /\ place[begin[q]] = q
      /\ \A a, b \in 0 .. n : a <= b => place[a] <= place[b]
      /\ begin[q] \notin Gone
    BY DEF Moves
  <1>1. o <= begin[q] => place[o] <= q
    OBVIOUS
  <1>2. ASSUME begin[q] < o
        PROVE  q < place[o]
    <2>1. begin[q] \in 0 .. n - 1 /\ begin[q] + 1 \in 0 .. n /\ begin[q] + 1 <= o
      BY <1>2
    <2>2. place[begin[q] + 1] = q + 1
      BY <2>1 DEF Moves
    <2>3. place[begin[q] + 1] <= place[o]
      BY <2>1
    <2>4. QED
      BY <2>2, <2>3
  <1>3. place[o] \in Nat /\ begin[q] \in Nat
    OBVIOUS
  <1>4. QED
    BY <1>1, <1>2, <1>3

(* A character that stays is covered by a moved span when it was covered   *)
(* by the span.                                                            *)
LEMMA CoveredWhereItGoes ==
  ASSUME NEW n, NEW k, NEW Gone, NEW place, NEW begin, NEW end,
         Moves(n, k, Gone, place, begin, end), NEW S, NEW F,
         Moved(n, k, Gone, begin, end, S, F), NEW o \in 0 .. n - 1, o \notin Gone
  PROVE  CoveredBy(F, o) <=> CoveredBy(S, place[o])
PROOF
  <1>1. \A g \in S : /\ begin[g.start] <= o <=> g.start <= place[o]
                     /\ o < end[g.end] <=> place[o] < g.end
    BY StaysInOrder DEF Moved
  <1>2. CoveredBy(F, o) <=> \E g \in S : begin[g.start] <= o /\ o < end[g.end]
    BY DEF Moved
  <1>3. QED
    BY <1>1, <1>2 DEF CoveredBy

(* Up to where a moved span begins, all is covered when it was. *)
LEMMA CoveredUpTo ==
  ASSUME NEW n, NEW k, NEW Gone, NEW place, NEW begin, NEW end,
         Moves(n, k, Gone, place, begin, end), NEW S, NEW F,
         Moved(n, k, Gone, begin, end, S, F), NEW o \in 0 .. n, NEW q \in 0 .. k
  PROVE  (\A i \in o .. begin[q] - 1 : CoveredBy(F, i))
            <=> (\A p \in place[o] .. q - 1 : CoveredBy(S, p))
PROOF
  <1> /\ n \in Nat /\ k \in Nat /\ place \in [0 .. n -> 0 .. k]
      /\ begin \in [0 .. k -> 0 .. n] /\ begin[q] \in 0 .. n
      /\ \A a, b \in 0 .. n : a <= b => place[a] <= place[b]
      /\ \A p \in 0 .. k : place[begin[p]] = p /\ begin[p] \notin Gone
    BY DEF Moves
  <1>1. ASSUME \A i \in o .. begin[q] - 1 : CoveredBy(F, i), NEW p \in place[o] .. q - 1
        PROVE  CoveredBy(S, p)
    <2>1. p \in 0 .. k /\ p < q /\ place[o] <= p
      OBVIOUS
    <2>2. o <= begin[p]
      BY <2>1, GoesInOrder
    <2>3. begin[p] < begin[q]
      <3>1. begin[p] \in 0 .. n /\ place[begin[p]] = p /\ place[begin[q]] = q
        BY <2>1
      <3>2. begin[q] <= begin[p] => place[begin[q]] <= place[begin[p]]
        BY <3>1
      <3>3. QED
        BY <2>1, <3>1, <3>2
    <2>4. begin[p] \in o .. begin[q] - 1 /\ begin[p] \in 0 .. n - 1
      BY <2>1, <2>2, <2>3
    <2>5. CoveredBy(F, begin[p]) <=> CoveredBy(S, place[begin[p]])
      BY <2>1, <2>4, CoveredWhereItGoes
    <2>6. QED
      BY <1>1, <2>1, <2>4, <2>5
  <1>2. ASSUME \A p \in place[o] .. q - 1 : CoveredBy(S, p), NEW i \in o .. begin[q] - 1
        PROVE  CoveredBy(F, i)
    <2>1. i \in 0 .. n - 1 /\ o <= i /\ i < begin[q]
      OBVIOUS
    <2>2. CASE i \in Gone
      BY <2>1, <2>2 DEF Moved
    <2>3. CASE i \notin Gone
      <3>1. CoveredBy(F, i) <=> CoveredBy(S, place[i])
        BY <2>1, <2>3, CoveredWhereItGoes
      <3>2. ~(begin[q] <= i) => ~(q <= place[i])
        BY <2>1, <2>3, StaysInOrder
      <3>3. place[o] <= place[i] /\ place[i] \in Nat
        BY <2>1
      <3>4. place[i] \in place[o] .. q - 1
        BY <2>1, <3>2, <3>3
      <3>5. QED
        BY <1>2, <3>1, <3>4
    <2>4. QED
      BY <2>2, <2>3
  <1>3. QED
    BY <1>1, <1>2

(* A stretch opens where it did: in front of everything that is gone.      *)
LEMMA OpensWhereItGoes ==
  ASSUME NEW n, NEW k, NEW Gone, NEW place, NEW begin, NEW end,
         Moves(n, k, Gone, place, begin, end), NEW S, NEW F,
         Moved(n, k, Gone, begin, end, S, F), NEW o \in 0 .. n,
         o = 0 \/ o - 1 \notin Gone
  PROVE  OpensBy(F, o) <=> OpensBy(S, place[o])
PROOF
  <1>1. n \in Nat /\ place[o] \in 0 .. k /\ k \in Nat
    BY DEF Moves
  <1>2. (o = 0 \/ ~CoveredBy(F, o - 1)) <=> (place[o] = 0 \/ ~CoveredBy(S, place[o] - 1))
    <2>1. CASE o = 0
      BY <2>1 DEF Moves
    <2>2. CASE o # 0
      <3>1. o - 1 \in 0 .. n - 1 /\ o - 1 \notin Gone /\ (o - 1) + 1 = o
        BY <1>1, <2>2
      <3>2. place[o] = place[o - 1] + 1 /\ place[o - 1] \in Nat
        BY <3>1 DEF Moves
      <3>3. CoveredBy(F, o - 1) <=> CoveredBy(S, place[o - 1])
        BY <3>1, CoveredWhereItGoes
      <3>4. place[o] # 0 /\ place[o] - 1 = place[o - 1]
        BY <3>2
      <3>5. QED
        BY <2>2, <3>3, <3>4
    <2>3. QED
      BY <2>1, <2>2
  <1> DEFINE OpenF(f) == /\ f.action = "REDACT" /\ o <= f.start
                         /\ \A i \in o .. f.start - 1 : CoveredBy(F, i)
             OpenS(g) == /\ g.action = "REDACT" /\ place[o] <= g.start
                         /\ \A i \in place[o] .. g.start - 1 : CoveredBy(S, i)
  <1>3. ASSUME NEW f \in F, NEW g \in S, f.action = "REDACT", g.action = "REDACT",
               f.start = begin[g.start]
        PROVE  OpenF(f) <=> OpenS(g)
    <2>1. g.start \in 0 .. k
      BY DEF Moved
    <2>2. o <= begin[g.start] <=> place[o] <= g.start
      BY <2>1, GoesInOrder
    <2>3. (\A i \in o .. begin[g.start] - 1 : CoveredBy(F, i))
             <=> (\A p \in place[o] .. g.start - 1 : CoveredBy(S, p))
      BY <2>1, CoveredUpTo
    <2>4. QED
      BY <1>3, <2>2, <2>3
  <1>4. (\E f \in F : OpenF(f)) <=> (\E g \in S : OpenS(g))
    <2>1. \A f \in F : f.action = "REDACT" =>
              \E g \in S : g.action = "REDACT" /\ f.start = begin[g.start]
      BY DEF Moved
    <2>2. \A g \in S : g.action = "REDACT" =>
              \E f \in F : f.action = "REDACT" /\ f.start = begin[g.start]
      BY DEF Moved
    <2>3. QED
      BY <1>3, <2>1, <2>2
  <1>5. QED
    BY <1>2, <1>4 DEF OpensBy

-----------------------------------------------------------------------------
(* Uncovered, from left to right.                                          *)
MarkBy(F, o) == IF OpensBy(F, o) THEN <<Marker>> ELSE <<>>

CharBy(text, F, o) == IF o = Len(text) \/ CoveredBy(F, o) THEN <<>> ELSE <<text[o + 1]>>

Prints(T, text, F, W) ==
    /\ text \in Seq(T) /\ Marker \in T
    /\ W \in [0 .. Len(text) + 1 -> Seq(T)] /\ W[0] = <<>>
    /\ \A i \in 1 .. Len(text) + 1 : W[i] = W[i - 1] \o (MarkBy(F, i - 1) \o CharBy(text, F, i - 1))

(* What is uncovered is printed offset by offset.                          *)
LEMMA UncoveredPrints ==
  ASSUME NEW T, Marker \in T, NEW text \in Seq(T), NEW findings
  PROVE  \E W : /\ Prints(T, text, Changing(findings), W)
                /\ Uncovered(text, findings) = W[Len(text) + 1]
PROOF
  <1> DEFINE n == Len(text) + 1
             F == Changing(findings)
             parts == [i \in 1 .. n |-> MarkBy(F, i - 1) \o CharBy(text, F, i - 1)]
  <1>1. n \in Nat /\ Len(text) \in Nat
    OBVIOUS
  <1>2. parts \in [1 .. n -> Seq(T)]
    <2>1. ASSUME NEW i \in 1 .. n
          PROVE  MarkBy(F, i - 1) \o CharBy(text, F, i - 1) \in Seq(T)
      <3> HIDE DEF F
      <3>1. MarkBy(F, i - 1) \in Seq(T)
        BY DEF MarkBy
      <3>2. i - 1 # Len(text) => text[(i - 1) + 1] \in T
        BY <1>1
      <3>3. CharBy(text, F, i - 1) \in Seq(T)
        BY <3>2 DEF CharBy
      <3>4. QED
        BY <3>1, <3>3, ConcatProperties
    <2>2. QED
      BY <2>1
  <1>3. Uncovered(text, findings) = FlattenSeq(parts)
    BY UncoveredByOffsets, Zenon DEF MarkBy, CharBy
  <1> HIDE DEF n, parts, F
  <1>4. PICK P \in [0 .. n -> Seq(T)] : /\ P[0] = <<>>
                                        /\ \A i \in 1 .. n : P[i] = P[i - 1] \o parts[i]
                                        /\ FlattenSeq(parts) = P[n]
    BY <1>1, <1>2, FlattenTrace
  <1>5. Prints(T, text, F, P)
    <2>1. \A i \in 1 .. n : parts[i] = MarkBy(F, i - 1) \o CharBy(text, F, i - 1)
      BY DEF parts
    <2>2. \A i \in 1 .. n : P[i] = P[i - 1] \o (MarkBy(F, i - 1) \o CharBy(text, F, i - 1))
      BY <1>4, <2>1, Zenon
    <2>3. P \in [0 .. Len(text) + 1 -> Seq(T)] /\ P[0] = <<>>
      BY <1>4, Zenon DEF n
    <2>4. QED
      BY <2>2, <2>3, Zenon DEF Prints, n
  <1>6. QED
    BY <1>3, <1>4, <1>5, Zenon DEF n, F

(* What is printed before the character of an offset. *)
Printing(W, F, o) == W[o] \o MarkBy(F, o)

(* What one offset prints, and that everything printed is a text.          *)
LEMMA PrintStep ==
  ASSUME NEW T, NEW text, NEW F, NEW W, Prints(T, text, F, W), NEW o \in 0 .. Len(text)
  PROVE  /\ Printing(W, F, o) \in Seq(T)
         /\ W[o + 1] = Printing(W, F, o) \o CharBy(text, F, o)
         /\ o = Len(text) \/ CoveredBy(F, o) => W[o + 1] = Printing(W, F, o)
         /\ ~OpensBy(F, o) => Printing(W, F, o) = W[o]
PROOF
  <1>1. text \in Seq(T) /\ Marker \in T
    BY DEF Prints
  <1>2. MarkBy(F, o) \in Seq(T)
    BY <1>1 DEF MarkBy
  <1>3. CharBy(text, F, o) \in Seq(T)
    <2>1. o # Len(text) => text[o + 1] \in T
      BY <1>1
    <2>2. QED
      BY <2>1 DEF CharBy
  <1>4. W[o] \in Seq(T)
    <2>1. W \in [0 .. Len(text) + 1 -> Seq(T)] /\ o \in 0 .. Len(text) + 1
      BY <1>1 DEF Prints
    <2>2. QED
      BY <2>1
  <1>5. W[o + 1] = W[o] \o (MarkBy(F, o) \o CharBy(text, F, o))
    <2>1. o + 1 \in 1 .. Len(text) + 1 /\ (o + 1) - 1 = o
      BY <1>1
    <2>2. W[o + 1] = W[(o + 1) - 1] \o (MarkBy(F, (o + 1) - 1) \o CharBy(text, F, (o + 1) - 1))
      BY <2>1 DEF Prints
    <2>3. QED
      BY <2>1, <2>2
  <1> DEFINE before == W[o]
             mark == MarkBy(F, o)
             char == CharBy(text, F, o)
  <1>6. (o = Len(text) \/ CoveredBy(F, o) => char = <<>>) /\ (~OpensBy(F, o) => mark = <<>>)
    BY DEF CharBy, MarkBy
  <1> HIDE DEF before, mark, char
  <1>7. before \in Seq(T) /\ mark \in Seq(T) /\ char \in Seq(T)
    BY <1>2, <1>3, <1>4 DEF before, mark, char
  <1>8. before \o (mark \o char) = (before \o mark) \o char
    BY <1>7, Associative
  <1>9. /\ before \o mark \in Seq(T) /\ before \o <<>> = before
        /\ (before \o mark) \o <<>> = before \o mark
    BY <1>7, ConcatProperties, ConcatEmptySeq
  <1>10. W[o + 1] = (before \o mark) \o char
    BY <1>5, <1>8, Zenon DEF before, mark, char
  <1>11. o = Len(text) \/ CoveredBy(F, o) => W[o + 1] = before \o mark
    BY <1>6, <1>9, <1>10, Zenon
  <1>12. ~OpensBy(F, o) => before \o mark = before
    BY <1>6, <1>9, Zenon
  <1>13. QED
    BY <1>9, <1>10, <1>11, <1>12, Zenon DEF Printing, before, mark, char

(* The text, and what stays of it. *)
Leaves(T, text, u, k, Gone, place) ==
    /\ text \in Seq(T) /\ u \in Seq(T) /\ Len(u) = k
    /\ \A o \in 0 .. Len(text) - 1 : o \notin Gone => u[place[o] + 1] = text[o + 1]

(* Up to each offset, the same is printed of both. *)
LEMMA PrintsTheSame ==
  ASSUME NEW T, NEW text, NEW u, NEW k, NEW Gone, NEW place, NEW begin, NEW end,
         Leaves(T, text, u, k, Gone, place), Moves(Len(text), k, Gone, place, begin, end),
         NEW S, NEW F, Moved(Len(text), k, Gone, begin, end, S, F),
         NEW W, Prints(T, text, F, W), NEW Q, Prints(T, u, S, Q)
  PROVE  W[Len(text) + 1] = Q[Len(u) + 1]
PROOF
  <1> DEFINE n == Len(text)
             At(o) == IF o = 0 \/ o - 1 \notin Gone THEN W[o] = Q[place[o]]
                      ELSE W[o] = Printing(Q, S, place[o])
             A == {o \in 0 .. n : At(o)}
  <1>1. /\ n \in Nat /\ k \in Nat /\ Len(u) = k /\ Gone \in SUBSET (0 .. n - 1)
        /\ place \in [0 .. n -> 0 .. k] /\ place[0] = 0 /\ place[n] = k
    BY DEF Moves, Leaves
  <1>2. 0 \in A
    <2>1. W[0] = <<>> /\ Q[0] = <<>>
      BY DEF Prints
    <2>2. QED
      BY <1>1, <2>1
  <1>3. ASSUME NEW o \in 0 .. n, At(o)
        PROVE  Printing(W, F, o) = Printing(Q, S, place[o])
    <2>1. CASE o = 0 \/ o - 1 \notin Gone
      <3>1. OpensBy(F, o) <=> OpensBy(S, place[o])
        BY <2>1, OpensWhereItGoes
      <3>2. MarkBy(F, o) = MarkBy(S, place[o])
        BY <3>1, Zenon DEF MarkBy
      <3>3. W[o] = Q[place[o]]
        BY <1>3, <2>1
      <3>4. QED
        BY <3>2, <3>3, Zenon DEF Printing
    <2>2. CASE ~(o = 0 \/ o - 1 \notin Gone)
      <3>1. o - 1 \in 0 .. n - 1 /\ o - 1 \in Gone
        BY <1>1, <2>2
      <3>2. CoveredBy(F, o - 1)
        BY <3>1 DEF Moved
      <3>3. ~OpensBy(F, o)
        BY <2>2, <3>2 DEF OpensBy
      <3>4. Printing(W, F, o) = W[o]
        BY <3>3, PrintStep
      <3>5. W[o] = Printing(Q, S, place[o])
        BY <1>3, <2>2
      <3>6. QED
        BY <3>4, <3>5, Zenon
    <2>3. QED
      BY <2>1, <2>2
  <1>4. ASSUME NEW i \in 1 .. n, i - 1 \in A
        PROVE  i \in A
    <2> DEFINE o == i - 1
               p == place[o]
    <2>1. /\ o \in 0 .. n - 1 /\ o \in 0 .. n /\ o + 1 = i /\ i \in 0 .. n /\ At(o)
          /\ p \in 0 .. k /\ p \in Nat
      BY <1>1, <1>4
    <2>2. Printing(W, F, o) = Printing(Q, S, p)
      <3> HIDE DEF At, n, o
      <3>1. QED
        BY <1>3, <2>1
    <2>3. place[i] = IF o \in Gone THEN p ELSE p + 1
      BY <2>1 DEF Moves
    <2>4. CASE o \in Gone
      <3>1. CoveredBy(F, o)
        BY <2>1, <2>4 DEF Moved
      <3>2. W[o + 1] = Printing(W, F, o)
        BY <2>1, <3>1, PrintStep
      <3>3. W[i] = Printing(Q, S, place[i])
        BY <2>1, <2>2, <2>3, <2>4, <3>2
      <3>4. At(i)
        BY <2>1, <2>4, <3>3
      <3> HIDE DEF At
      <3>5. QED
        BY <2>1, <3>4
    <2>5. CASE o \notin Gone
      <3>1. CoveredBy(F, o) <=> CoveredBy(S, p)
        BY <2>1, <2>5, CoveredWhereItGoes
      <3>2. p < k
        <4>1. place[i] \in 0 .. k /\ place[i] = p + 1
          BY <1>1, <2>1, <2>3, <2>5
        <4>2. QED
          BY <1>1, <2>1, <4>1
      <3>3. u[p + 1] = text[o + 1]
        BY <2>1, <2>5 DEF Leaves
      <3>4. CharBy(text, F, o) = CharBy(u, S, p)
        <4>1. o # Len(text) /\ p # Len(u)
          BY <1>1, <2>1, <3>2
        <4> HIDE DEF o, p
        <4>2. QED
          BY <3>1, <3>3, <4>1, Zenon DEF CharBy
      <3>5. W[o + 1] = Printing(W, F, o) \o CharBy(text, F, o)
        BY <2>1, PrintStep
      <3>6. p \in 0 .. Len(u)
        BY <1>1, <2>1
      <3>7. Q[p + 1] = Printing(Q, S, p) \o CharBy(u, S, p)
        <4> HIDE DEF p
        <4>1. QED
          BY <3>6, PrintStep
      <3>8. W[i] = Q[place[i]]
        <4>1. W[o + 1] = Q[p + 1]
          BY <2>2, <3>4, <3>5, <3>7, Zenon
        <4>2. QED
          BY <2>1, <2>3, <2>5, <4>1
      <3>9. At(i)
        BY <2>1, <2>5, <3>8
      <3> HIDE DEF At
      <3>10. QED
        BY <2>1, <3>9
    <2>6. QED
      BY <2>4, <2>5
  <1>5. At(n)
    <2>1. \A o \in 0 .. n : o \in A
      <3> HIDE DEF A, n
      <3>1. QED
        BY <1>1, <1>2, <1>4, Catenation!InductionTo
    <2> HIDE DEF At
    <2>2. QED
      BY <1>1, <2>1
  <1>6. Printing(W, F, n) = Printing(Q, S, k)
    <2>1. n \in 0 .. n
      BY <1>1
    <2> HIDE DEF At, n
    <2>2. QED
      BY <1>1, <1>3, <1>5, <2>1
  <1>7. W[n + 1] = Printing(W, F, n)
    <2>1. n \in 0 .. Len(text)
      BY <1>1
    <2>2. QED
      BY <2>1, PrintStep
  <1>8. Q[k + 1] = Printing(Q, S, k)
    <2>1. k \in 0 .. Len(u)
      BY <1>1
    <2>2. QED
      BY <1>1, <2>1, PrintStep
  <1>9. QED
    BY <1>1, <1>6, <1>7, <1>8

-----------------------------------------------------------------------------
(* A text laid out around spans that are only removed: nothing else stands *)
(* in what remains, and P[o] is what remains of the first o characters.    *)
Stripping(T, text, m, P) == Layout(T, text, m, P) /\ \A j \in DOMAIN m : ~m[j].redact

(* What stripping spans from a text is about: spans apart from one another *)
(* inside the text, and no markers.                                        *)
LEMMA StripFacts ==
  ASSUME NEW T, NEW text, NEW m, NEW P, Stripping(T, text, m, P)
  PROVE  /\ Layout(T, text, m, P) /\ text \in Seq(T) /\ Len(text) \in Nat
         /\ m \in Seq(Operation) /\ Apart(m) /\ DOMAIN m = 1 .. Len(m) /\ Len(m) \in Nat
         /\ P[0] = <<>>
         /\ \A o \in Nat : ~Opens(m, o)
         /\ \A j \in 1 .. Len(m) : /\ m[j].start \in 0 .. Len(text)
                                  /\ m[j].end \in 0 .. Len(text) /\ m[j].start <= m[j].end
PROOF
  <1>1. Layout(T, text, m, P) /\ \A j \in DOMAIN m : ~m[j].redact
    BY Zenon DEF Stripping
  <1>2. /\ text \in Seq(T) /\ m \in Seq(Operation) /\ Apart(m) /\ P[0] = <<>>
        /\ \A j \in DOMAIN m : m[j].end <= Len(text)
    BY <1>1, Zenon DEF Layout
  <1>3. Len(text) \in Nat /\ DOMAIN m = 1 .. Len(m) /\ Len(m) \in Nat
    BY <1>2
  <1>4. \A o \in Nat : ~Opens(m, o)
    BY <1>1, Zenon DEF Opens
  <1>5. \A j \in 1 .. Len(m) : /\ m[j].start \in 0 .. Len(text)
                               /\ m[j].end \in 0 .. Len(text) /\ m[j].start <= m[j].end
    BY <1>2, <1>3 DEF Operation
  <1>6. QED
    BY <1>1, <1>2, <1>3, <1>4, <1>5

(* Without markers nothing is laid before an offset's own character.       *)
LEMMA StripIs ==
  ASSUME NEW T, NEW text, NEW m, NEW P, Stripping(T, text, m, P), NEW o \in 0 .. Len(text)
  PROVE  P[o] \in Seq(T) /\ Laying(P, m, o) = P[o]
PROOF
  <1>1. Layout(T, text, m, P) /\ ~Opens(m, o)
    BY StripFacts
  <1>2. QED
    BY <1>1, LayoutStep

(* Inside a span nothing is added.                                         *)
LEMMA StripOver ==
  ASSUME NEW T, NEW text, NEW m, NEW P, Stripping(T, text, m, P), NEW o \in 0 .. Len(text),
         o = Len(text) \/ Inside(m, o)
  PROVE  P[o + 1] = P[o]
PROOF
  <1>1. P[o + 1] = Laying(P, m, o)
    BY StripFacts, Cut
  <1>2. Laying(P, m, o) = P[o]
    BY StripIs
  <1>3. QED
    BY <1>1, <1>2

(* Outside the spans the character is.                                     *)
LEMMA StripAdds ==
  ASSUME NEW T, NEW text, NEW m, NEW P, Stripping(T, text, m, P), NEW o \in 0 .. Len(text) - 1,
         ~Inside(m, o)
  PROVE  text[o + 1] \in T /\ P[o + 1] = P[o] \o <<text[o + 1]>>
PROOF
  <1>1. text \in Seq(T) /\ Len(text) \in Nat
    BY StripFacts
  <1>2. o \in 0 .. Len(text) /\ text[o + 1] \in T
    BY <1>1
  <1>3. P[o + 1] = Laying(P, m, o) \o <<text[o + 1]>>
    <2>1. Layout(T, text, m, P)
      BY StripFacts
    <2>2. QED
      BY <2>1, Uncut
  <1>4. P[o] \in Seq(T) /\ Laying(P, m, o) = P[o]
    BY <1>2, StripIs
  <1>5. P[o + 1] = P[o] \o <<text[o + 1]>>
    BY <1>3, <1>4, Zenon
  <1>6. QED
    BY <1>2, <1>5, Zenon

(* Then the text that remains is one character longer.                     *)
LEMMA StripLonger ==
  ASSUME NEW T, NEW text, NEW m, NEW P, Stripping(T, text, m, P), NEW o \in 0 .. Len(text) - 1,
         ~Inside(m, o)
  PROVE  Len(P[o + 1]) = Len(P[o]) + 1 /\ P[o + 1][Len(P[o]) + 1] = text[o + 1]
PROOF
  <1> DEFINE s == P[o]
             c == text[o + 1]
  <1>1. P[o + 1] = s \o <<c>> /\ c \in T
    BY StripAdds
  <1>2. s \in Seq(T)
    <2>1. o \in 0 .. Len(text)
      BY StripFacts
    <2>2. QED
      BY <2>1, StripIs
  <1> HIDE DEF s, c
  <1>3. Len(s \o <<c>>) = Len(s) + 1 /\ (s \o <<c>>)[Len(s) + 1] = c
    BY <1>1, <1>2
  <1>4. QED
    BY <1>1, <1>3 DEF s, c

(* What remains only grows. *)
LEMMA StripGrows ==
  ASSUME NEW T, NEW text, NEW m, NEW P, Stripping(T, text, m, P), NEW o \in 0 .. Len(text),
         NEW h \in o .. Len(text)
  PROVE  Len(P[o]) <= Len(P[h]) /\ \A i \in 1 .. Len(P[o]) : P[h][i] = P[o][i]
PROOF
  <1> DEFINE n == Len(text)
             d == h - o
             Grown(e) == Len(P[o]) <= Len(P[o + e]) /\ \A i \in 1 .. Len(P[o]) : P[o + e][i] = P[o][i]
             A == {e \in 0 .. d : Grown(e)}
  <1>1. n \in Nat /\ d \in Nat /\ o \in Nat /\ h \in Nat /\ h <= n /\ o + d = h
    BY StripFacts
  <1>2. \A q \in 0 .. n : P[q] \in Seq(T) /\ Len(P[q]) \in Nat
    <2>1. ASSUME NEW q \in 0 .. n
          PROVE  P[q] \in Seq(T)
      BY StripIs
    <2>2. QED
      BY <2>1
  <1>3. 0 \in A
    <2>1. Len(P[o]) \in Nat /\ o + 0 = o
      BY <1>1, <1>2
    <2>2. QED
      BY <1>1, <2>1
  <1>4. ASSUME NEW e \in 1 .. d, e - 1 \in A
        PROVE  e \in A
    <2> DEFINE q == o + (e - 1)
               s == P[q]
               t == P[q + 1]
    <2>1. q \in 0 .. n /\ q < n /\ q + 1 = o + e /\ q + 1 \in 0 .. n /\ Grown(e - 1)
      BY <1>1, <1>4
    <2>2. Len(s) \in Nat /\ s \in Seq(T) /\ Len(P[o]) \in Nat
      BY <1>1, <1>2, <2>1
    <2>3. t = s \/ \E c \in T : t = s \o <<c>>
      <3> HIDE DEF q, A, Grown
      <3>1. Inside(m, q) => t = s
        BY <2>1, StripOver
      <3>2. q \in 0 .. Len(text) - 1
        BY <1>1, <2>1
      <3>3. ~Inside(m, q) => text[q + 1] \in T /\ t = s \o <<text[q + 1]>>
        BY <3>2, StripAdds
      <3>4. QED
        BY <3>1, <3>3, Zenon
    <2> HIDE DEF s, t
    <2>4. Len(s) <= Len(t) /\ \A i \in 1 .. Len(s) : t[i] = s[i]
      <3>1. CASE t = s
        BY <2>2, <3>1
      <3>2. ASSUME NEW c \in T, t = s \o <<c>>
            PROVE  Len(s) <= Len(t) /\ \A i \in 1 .. Len(s) : t[i] = s[i]
        BY <2>2, <3>2
      <3>3. QED
        BY <2>3, <3>1, <3>2, Zenon
    <2>5. Len(P[o]) <= Len(s) /\ \A i \in 1 .. Len(P[o]) : s[i] = P[o][i]
      BY <2>1 DEF s
    <2>6. Len(t) \in Nat
      BY <1>2, <2>1 DEF t
    <2>7. Len(P[o]) <= Len(t) /\ \A i \in 1 .. Len(P[o]) : t[i] = P[o][i]
      BY <2>2, <2>4, <2>5, <2>6
    <2>8. Grown(e)
      BY <2>1, <2>7 DEF t
    <2> HIDE DEF Grown
    <2>9. QED
      BY <1>1, <2>8
  <1>5. Grown(d)
    <2>1. \A e \in 0 .. d : e \in A
      <3> HIDE DEF A, d
      <3>1. QED
        BY <1>1, <1>3, <1>4, Catenation!InductionTo
    <2> HIDE DEF Grown
    <2>2. QED
      BY <1>1, <2>1
  <1>6. QED
    BY <1>1, <1>5

(* Within a span it stays, and between two it grows with every character.  *)
LEMMA StripSpan ==
  ASSUME NEW T, NEW text, NEW m, NEW P, Stripping(T, text, m, P), NEW j \in 1 .. Len(m)
  PROVE  P[m[j].end] = P[m[j].start]
PROOF
  <1> DEFINE a == m[j].start
             b == m[j].end
  <1>1. a \in 0 .. Len(text) /\ b \in 0 .. Len(text)
    BY StripFacts
  <1>2. Laying(P, m, b) = Laying(P, m, a)
    BY StripFacts, SpanLaid
  <1> HIDE DEF a, b
  <1>3. Laying(P, m, b) = P[b] /\ Laying(P, m, a) = P[a]
    BY <1>1, StripIs
  <1>4. QED
    BY <1>2, <1>3, Zenon DEF a, b

BeforeNext(text, m, n, h) ==
    /\ n \in 0 .. Len(m) /\ h \in 0 .. Len(text) /\ CursorAfter(m, n) <= h
    /\ n < Len(m) => h <= m[n + 1].start

(* Between two spans it grows by as many characters as there are.          *)
LEMMA StripGap ==
  ASSUME NEW T, NEW text, NEW m, NEW P, Stripping(T, text, m, P), NEW n, NEW h,
         BeforeNext(text, m, n, h)
  PROVE  /\ CursorAfter(m, n) \in 0 .. Len(text)
         /\ Len(P[h]) = Len(P[CursorAfter(m, n)]) + (h - CursorAfter(m, n))
PROOF
  <1> DEFINE c == CursorAfter(m, n)
  <1>1. /\ Layout(T, text, m, P) /\ text \in Seq(T) /\ Len(text) \in Nat /\ DOMAIN m = 1 .. Len(m)
        /\ Len(m) \in Nat /\ P[0] = <<>>
    BY StripFacts
  <1>2. c \in 0 .. Len(text) /\ n \in 0 .. Len(m) /\ h \in 0 .. Len(text) /\ c <= h
    <2>1. n # 0 => n \in 1 .. Len(m)
      BY <1>1 DEF BeforeNext
    <2>2. n # 0 => m[n].end \in 0 .. Len(text)
      BY <2>1, StripFacts
    <2>3. QED
      BY <1>1, <2>2 DEF CursorAfter, BeforeNext
  <1>3. P[c] \in Seq(T) /\ Len(P[c]) \in Nat /\ Laying(P, m, c) = P[c]
    <2> HIDE DEF c
    <2>1. P[c] \in Seq(T) /\ Laying(P, m, c) = P[c]
      BY <1>2, StripIs
    <2>2. QED
      BY <2>1
  <1>4. CASE h = c
    BY <1>2, <1>3, <1>4
  <1>5. CASE h # c
    <2>1. UpTo(text, m, n, h)
      BY <1>2, <1>5 DEF UpTo, BeforeNext
    <2>2. P[h] = PartsAfter(P, m, n) \o Slice(text, CursorAfter(m, n), h)
      BY <1>1, <2>1, GapLaid
    <2>3. PartsAfter(P, m, n) = P[c]
      <3>1. CASE n = 0
        BY <1>1, <3>1 DEF PartsAfter, CursorAfter
      <3>2. CASE n # 0
        <4>1. PartsAfter(P, m, n) = Laying(P, m, c)
          BY <3>2, Zenon DEF PartsAfter, CursorAfter, Laying
        <4>2. QED
          BY <1>3, <4>1, Zenon
      <3>3. QED
        BY <3>1, <3>2
    <2> DEFINE s == P[c]
               z == Slice(text, c, h)
    <2>4. z \in Seq(T) /\ Len(z) = h - c
      BY <1>1, <1>2 DEF Slice
    <2>5. P[h] = s \o z
      BY <2>2, <2>3, Zenon
    <2>6. s \in Seq(T)
      BY <1>3
    <2> HIDE DEF s, z, c
    <2>7. Len(s \o z) = Len(s) + Len(z)
      BY <2>4, <2>6
    <2>8. QED
      BY <1>2, <2>4, <2>5, <2>7 DEF s, c
  <1>6. QED
    BY <1>2, <1>4, <1>5

-----------------------------------------------------------------------------
(* The cuts say where each removed span was in what remains, and how far   *)
(* the text is ahead of it from there on.                                  *)
CutPoint == [position : Int, removed : Int]

CutsOf(m, P, cuts, n) ==
    /\ cuts \in Seq(CutPoint) /\ Len(cuts) = n
    /\ \A j \in 1 .. n : /\ cuts[j].position = Len(P[m[j].end])
                         /\ cuts[j].removed = m[j].end - Len(P[m[j].end])

(* The last cut records how many characters the spans so far have removed. *)
LEMMA ShiftAfter ==
  ASSUME NEW T, NEW text, NEW m, NEW P, Stripping(T, text, m, P), NEW n \in 0 .. Len(m),
         NEW cuts, CutsOf(m, P, cuts, n)
  PROVE  ShiftOf(cuts) = CursorAfter(m, n) - Len(P[CursorAfter(m, n)])
PROOF
  <1>1. P[0] = <<>> /\ cuts \in Seq(CutPoint) /\ Len(cuts) = n /\ n \in Nat
    BY StripFacts DEF CutsOf
  <1>2. CASE n = 0
    <2>1. cuts = <<>>
      BY <1>1, <1>2
    <2>2. QED
      BY <1>1, <1>2, <2>1 DEF ShiftOf, CursorAfter
  <1>3. CASE n # 0
    <2>1. cuts # <<>> /\ Last(cuts) = cuts[n] /\ n \in 1 .. n
      BY <1>1, <1>3 DEF Last
    <2>2. cuts[n].removed = m[n].end - Len(P[m[n].end])
      BY <2>1 DEF CutsOf
    <2>3. QED
      BY <1>3, <2>1, <2>2 DEF ShiftOf, CursorAfter
  <1>4. QED
    BY <1>2, <1>3

(* In front of a span, and of the end, the text goes on from the span before. *)
LEMMA NextStarts ==
  ASSUME NEW T, NEW text, NEW m, NEW P, Stripping(T, text, m, P), NEW k \in 0 .. Len(m)
  PROVE  /\ k < Len(m) => BeforeNext(text, m, k, m[k + 1].start)
         /\ k = Len(m) => BeforeNext(text, m, k, Len(text))
PROOF
  <1> DEFINE c == CursorAfter(m, k)
             a == m[k + 1].start
  <1>1. Len(m) \in Nat /\ Len(text) \in Nat /\ DOMAIN m = 1 .. Len(m) /\ Apart(m)
    BY StripFacts
  <1>2. c \in 0 .. Len(text)
    <2>1. k # 0 => k \in 1 .. Len(m)
      BY <1>1
    <2>2. k # 0 => m[k].end \in 0 .. Len(text)
      BY <2>1, StripFacts
    <2>3. QED
      BY <1>1, <2>2 DEF CursorAfter
  <1>3. k = Len(m) => BeforeNext(text, m, k, Len(text))
    BY <1>1, <1>2 DEF BeforeNext
  <1>4. ASSUME k < Len(m)
        PROVE  BeforeNext(text, m, k, a)
    <2>1. k + 1 \in 1 .. Len(m) /\ k \in Nat
      BY <1>1, <1>4
    <2>2. a \in 0 .. Len(text)
      <3> DEFINE i == k + 1
      <3>1. i \in 1 .. Len(m)
        BY <2>1
      <3> HIDE DEF i
      <3>2. m[i].start \in 0 .. Len(text)
        BY <3>1, StripFacts
      <3>3. QED
        BY <3>2 DEF i
    <2>3. c <= a
      <3>1. CASE k = 0
        BY <2>2, <3>1 DEF CursorAfter
      <3>2. CASE k # 0
        <4>1. k \in 1 .. Len(m) /\ k < k + 1
          BY <1>4, <2>1, <3>2
        <4>2. m[k].end < a
          BY <1>1, <2>1, <4>1 DEF Apart
        <4>3. QED
          BY <1>2, <2>2, <3>2, <4>2 DEF CursorAfter
      <3>3. QED
        BY <3>1, <3>2
    <2>4. QED
      BY <1>1, <2>1, <2>2, <2>3 DEF BeforeNext
  <1>5. QED
    BY <1>3, <1>4

(* One more span adds its cut, at the place and with the shift it has.     *)
LEMMA CutStepCuts ==
  ASSUME NEW T, NEW text, NEW m, NEW P, Stripping(T, text, m, P), NEW i \in 1 .. Len(m),
         NEW cuts, CutsOf(m, P, cuts, i - 1)
  PROVE  CutsOf(m, P, CutStep(cuts, m[i]), i)
PROOF
  <1> DEFINE k == i - 1
             c == CursorAfter(m, k)
             a == m[i].start
             b == m[i].end
             cut == [position |-> a - ShiftOf(cuts), removed |-> ShiftOf(cuts) + b - a]
  <1>1. /\ Len(m) \in Nat /\ a \in 0 .. Len(text) /\ b \in 0 .. Len(text) /\ a <= b
        /\ Len(text) \in Nat /\ DOMAIN m = 1 .. Len(m) /\ Apart(m)
    BY StripFacts
  <1>2. k \in 0 .. Len(m) /\ k < Len(m) /\ k + 1 = i /\ k \in Nat
    BY <1>1
  <1>3. ShiftOf(cuts) = c - Len(P[c])
    <2> HIDE DEF k
    <2>1. k \in 0 .. Len(m) /\ CutsOf(m, P, cuts, k)
      BY <1>2 DEF k
    <2>2. QED
      BY <2>1, ShiftAfter
  <1>4. BeforeNext(text, m, k, a)
    <2> HIDE DEF k
    <2>1. BeforeNext(text, m, k, m[k + 1].start)
      BY <1>2, NextStarts
    <2>2. QED
      BY <1>2, <2>1
  <1>5. c \in 0 .. Len(text) /\ Len(P[a]) = Len(P[c]) + (a - c)
    <2> HIDE DEF k, a
    <2>1. QED
      BY <1>4, StripGap
  <1>6. P[b] = P[a]
    BY StripSpan
  <1>7. Len(P[a]) \in Nat /\ Len(P[c]) \in Nat
    <2>1. P[a] \in Seq(T)
      <3> HIDE DEF a
      <3>1. QED
        BY <1>1, StripIs
    <2>2. P[c] \in Seq(T)
      <3> HIDE DEF c
      <3>1. QED
        BY <1>5, StripIs
    <2>3. QED
      BY <2>1, <2>2
  <1> HIDE DEF a, b, c
  <1>8. cut \in CutPoint /\ cut.position = Len(P[b]) /\ cut.removed = b - Len(P[b])
    <2>1. /\ a - ShiftOf(cuts) = Len(P[a]) /\ ShiftOf(cuts) + b - a = b - Len(P[a])
          /\ a \in Int /\ b \in Int
      BY <1>1, <1>3, <1>5, <1>7
    <2>2. QED
      BY <1>6, <1>7, <2>1 DEF CutPoint
  <1>9. CutStep(cuts, m[i]) = Append(cuts, cut)
    BY DEF CutStep, a, b
  <1>10. cuts \in Seq(CutPoint) /\ Len(cuts) = k
    BY DEF CutsOf
  <1> HIDE DEF cut
  <1> DEFINE u == Append(cuts, cut)
  <1>11. /\ u \in Seq(CutPoint) /\ Len(u) = i /\ u[i] = cut
         /\ \A j \in 1 .. k : u[j] = cuts[j]
    BY <1>2, <1>8, <1>10, AppendProperties
  <1> HIDE DEF u
  <1>12. \A j \in 1 .. i : /\ u[j].position = Len(P[m[j].end])
                          /\ u[j].removed = m[j].end - Len(P[m[j].end])
    <2>1. ASSUME NEW j \in 1 .. i
          PROVE  /\ u[j].position = Len(P[m[j].end])
                 /\ u[j].removed = m[j].end - Len(P[m[j].end])
      <3>1. CASE j = i
        BY <1>8, <1>11, <3>1 DEF b
      <3>2. CASE j # i
        <4>1. j \in 1 .. k
          BY <1>2, <3>2
        <4>2. u[j] = cuts[j]
          BY <1>11, <4>1
        <4>3. /\ cuts[j].position = Len(P[m[j].end])
              /\ cuts[j].removed = m[j].end - Len(P[m[j].end])
          BY <4>1 DEF CutsOf
        <4>4. QED
          BY <4>2, <4>3, Zenon
      <3>3. QED
        BY <3>1, <3>2
    <2>2. QED
      BY <2>1
  <1>13. CutsOf(m, P, u, i)
    BY <1>11, <1>12 DEF CutsOf
  <1>14. QED
    BY <1>9, <1>13 DEF u

(* So the removal map has one cut for each merged span.                    *)
LEMMA CutsCut ==
  ASSUME NEW T, NEW text, NEW m, NEW P, Stripping(T, text, m, P)
  PROVE  CutsOf(m, P, FoldLeft(CutStep, <<>>, m), Len(m))
PROOF
  <1> DEFINE n == Len(m)
             G == [i \in 0 .. n |-> {cuts \in Seq(CutPoint) : CutsOf(m, P, cuts, i)}]
  <1>1. n \in Nat /\ DOMAIN m = 1 .. n
    BY StripFacts
  <1>2. <<>> \in G[0]
    <2>1. CutsOf(m, P, <<>>, 0)
      BY DEF CutsOf
    <2>2. QED
      BY <1>1, <2>1
  <1>3. ASSUME NEW i \in 1 .. n, NEW cuts \in G[i - 1]
        PROVE  CutStep(cuts, m[i]) \in G[i]
    <2>1. CutsOf(m, P, cuts, i - 1) /\ i \in 0 .. n
      BY <1>1
    <2> DEFINE u == CutStep(cuts, m[i])
    <2>2. CutsOf(m, P, u, i)
      <3> HIDE DEF G
      <3>1. QED
        BY <2>1, CutStepCuts
    <2>3. u \in Seq(CutPoint)
      BY <2>2 DEF CutsOf
    <2> HIDE DEF u
    <2>4. u \in G[i]
      BY <2>1, <2>2, <2>3
    <2>5. QED
      BY <2>4 DEF u
  <1>4. Cutting!Folded(<<>>, m) \in G[n]
    <2> HIDE DEF G, n
    <2>1. QED
      BY <1>1, <1>2, <1>3, Cutting!FoldInvariant
  <1>5. FoldLeft(CutStep, <<>>, m) = Cutting!Folded(<<>>, m)
    BY DEF FoldLeft, MapThenFoldSet, Cutting!Folded, Cutting!FoldLeft,
           Cutting!MapThenFoldSet, Cutting!Max, Max
  <1>6. n \in 0 .. n
    BY <1>1
  <1>7. QED
    BY <1>4, <1>5, <1>6

-----------------------------------------------------------------------------
(* Looking an offset up among the cuts. *)
LEMMA Bisected ==
  ASSUME NEW n \in Nat, NEW A \in SUBSET (1 .. n)
  PROVE  /\ Max({0} \cup A) \in 0 .. n
         /\ Max({0} \cup A) > 0 => Max({0} \cup A) \in A
         /\ \A y \in A : y <= Max({0} \cup A)
PROOF
  <1>1. \E x \in {0} \cup A : \A y \in {0} \cup A : x >= y
    <2>1. CASE A = {}
      BY <2>1
    <2>2. CASE A # {}
      <3>1. Catenation!Max(A) \in A /\ \A y \in A : y <= Catenation!Max(A)
        BY <2>2, Catenation!Greatest
      <3>2. PICK x \in A : \A y \in A : y <= x
        BY <3>1
      <3>3. \A y \in {0} \cup A : x >= y
        BY <3>2
      <3>4. QED
        BY <3>3
    <2>3. QED
      BY <2>1, <2>2
  <1> DEFINE b == Max({0} \cup A)
  <1>2. b \in {0} \cup A /\ \A y \in {0} \cup A : b >= y
    BY <1>1 DEF Max
  <1> HIDE DEF b
  <1>3. b \in 0 .. n /\ (b > 0 => b \in A) /\ \A y \in A : y <= b
    BY <1>2
  <1>4. QED
    BY <1>3 DEF b

MapOf(text, m, P, map) == map.text = P[Len(text)] /\ CutsOf(m, P, map.cuts, Len(m))

(* The cuts and their positions are numbers, one for each span.            *)
LEMMA CutPlaces ==
  ASSUME NEW T, NEW text, NEW m, NEW P, Stripping(T, text, m, P), NEW map, MapOf(text, m, P, map)
  PROVE  /\ Len(m) \in Nat /\ map.cuts \in Seq(CutPoint) /\ DOMAIN map.cuts = 1 .. Len(m)
         /\ \A i \in 1 .. Len(m) : map.cuts[i].position \in Int
PROOF
  <1> DEFINE cuts == map.cuts
  <1>1. Len(m) \in Nat /\ cuts \in Seq(CutPoint) /\ Len(cuts) = Len(m)
    BY StripFacts DEF MapOf, CutsOf
  <1> HIDE DEF cuts
  <1>2. DOMAIN cuts = 1 .. Len(m) /\ \A i \in 1 .. Len(m) : cuts[i] \in CutPoint
    BY <1>1
  <1>3. ASSUME NEW i \in 1 .. Len(m)
        PROVE  cuts[i].position \in Int
    <2>1. cuts[i] \in CutPoint
      BY <1>2
    <2>2. QED
      BY <2>1 DEF CutPoint
  <1>4. QED
    BY <1>1, <1>2, <1>3 DEF cuts

(* bisect_right finds the cuts at or before a position.                    *)
LEMMA BisectedRight ==
  ASSUME NEW T, NEW text, NEW m, NEW P, Stripping(T, text, m, P), NEW map, MapOf(text, m, P, map),
         NEW q \in Nat
  PROVE  LET n == BisectRight(map, q)
         IN  /\ n \in 0 .. Len(m)
             /\ n > 0 => map.cuts[n].position <= q
             /\ n < Len(m) => q < map.cuts[n + 1].position
PROOF
  <1> DEFINE A == {i \in DOMAIN map.cuts : map.cuts[i].position <= q}
             n == Max({0} \cup A)
  <1>1. /\ Len(m) \in Nat /\ map.cuts \in Seq(CutPoint) /\ DOMAIN map.cuts = 1 .. Len(m)
        /\ \A i \in 1 .. Len(m) : map.cuts[i].position \in Int
    BY CutPlaces
  <1>2. A \in SUBSET (1 .. Len(m))
    BY <1>1
  <1>3. /\ n \in 0 .. Len(m) /\ (n > 0 => n \in A) /\ \A y \in A : y <= n
    <2> HIDE DEF A
    <2>1. QED
      BY <1>1, <1>2, Bisected
  <1>4. BisectRight(map, q) = n
    BY DEF BisectRight
  <1> HIDE DEF n
  <1>5. n > 0 => map.cuts[n].position <= q
    BY <1>3
  <1>6. n < Len(m) => q < map.cuts[n + 1].position
    <2>1. n < Len(m) => n + 1 \in 1 .. Len(m) /\ ~(n + 1 <= n)
      BY <1>1, <1>3
    <2>2. n < Len(m) => n + 1 \notin A
      BY <1>3, <2>1
    <2>3. QED
      BY <1>1, <2>1, <2>2
  <1>7. QED
    BY <1>3, <1>4, <1>5, <1>6

(* bisect_left finds the cuts before a position.                           *)
LEMMA BisectedLeft ==
  ASSUME NEW T, NEW text, NEW m, NEW P, Stripping(T, text, m, P), NEW map, MapOf(text, m, P, map),
         NEW q \in Nat
  PROVE  LET n == BisectLeft(map, q)
         IN  /\ n \in 0 .. Len(m)
             /\ n > 0 => map.cuts[n].position <= q
             /\ n < Len(m) => q <= map.cuts[n + 1].position
PROOF
  <1> DEFINE A == {i \in DOMAIN map.cuts : map.cuts[i].position < q}
             n == Max({0} \cup A)
  <1>1. /\ Len(m) \in Nat /\ map.cuts \in Seq(CutPoint) /\ DOMAIN map.cuts = 1 .. Len(m)
        /\ \A i \in 1 .. Len(m) : map.cuts[i].position \in Int
    BY CutPlaces
  <1>2. A \in SUBSET (1 .. Len(m))
    BY <1>1
  <1>3. /\ n \in 0 .. Len(m) /\ (n > 0 => n \in A) /\ \A y \in A : y <= n
    <2> HIDE DEF A
    <2>1. QED
      BY <1>1, <1>2, Bisected
  <1>4. BisectLeft(map, q) = n
    BY DEF BisectLeft
  <1> HIDE DEF n
  <1>5. n > 0 => map.cuts[n].position <= q
    <2>1. n > 0 => n \in 1 .. Len(m)
      BY <1>1, <1>3
    <2>2. QED
      BY <1>1, <1>3, <2>1
  <1>6. n < Len(m) => q <= map.cuts[n + 1].position
    <2>1. n < Len(m) => n + 1 \in 1 .. Len(m) /\ ~(n + 1 <= n)
      BY <1>1, <1>3
    <2>2. n < Len(m) => n + 1 \notin A
      BY <1>3, <2>1
    <2>3. QED
      BY <1>1, <2>1, <2>2
  <1>7. QED
    BY <1>3, <1>4, <1>5, <1>6

(* After the removals that far, an offset is back in the text between two  *)
(* removed spans, and it is where it came from.                            *)
LEMMA LookedUp ==
  ASSUME NEW T, NEW text, NEW m, NEW P, Stripping(T, text, m, P), NEW map, MapOf(text, m, P, map),
         NEW q \in 0 .. Len(P[Len(text)]), NEW n \in 0 .. Len(m),
         n > 0 => map.cuts[n].position <= q,
         n < Len(m) => q <= map.cuts[n + 1].position
  PROVE  LET o == q + Removed(map, n)
         IN  /\ BeforeNext(text, m, n, o) /\ Len(P[o]) = q
             /\ n < Len(m) /\ q < map.cuts[n + 1].position => o < m[n + 1].start
PROOF
  <1> DEFINE c == CursorAfter(m, n)
             o == q + Removed(map, n)
             next == IF n < Len(m) THEN m[n + 1].start ELSE Len(text)
  <1>1. Len(m) \in Nat /\ Len(text) \in Nat /\ P[0] = <<>> /\ q \in Nat
    <2>1. P[Len(text)] \in Seq(T)
      <3>1. Len(text) \in 0 .. Len(text)
        BY StripFacts
      <3>2. QED
        BY <3>1, StripIs
    <2>2. QED
      BY <2>1, StripFacts
  <1>2. n # 0 => n \in 1 .. Len(m)
    BY <1>1
  <1>3. Removed(map, n) = c - Len(P[c]) /\ Len(P[c]) <= q
    <2>1. CASE n = 0
      BY <1>1, <2>1 DEF Removed, CursorAfter
    <2>2. CASE n # 0
      <3>1. /\ map.cuts[n].position = Len(P[m[n].end])
            /\ map.cuts[n].removed = m[n].end - Len(P[m[n].end])
        BY <1>2, <2>2 DEF MapOf, CutsOf
      <3>2. n > 0
        BY <1>1, <2>2
      <3>3. QED
        BY <2>2, <3>1, <3>2 DEF Removed, CursorAfter
    <2>3. QED
      BY <2>1, <2>2
  <1>4. BeforeNext(text, m, n, next)
    BY <1>1, NextStarts
  <1>5. /\ next \in 0 .. Len(text) /\ c \in 0 .. Len(text)
        /\ Len(P[next]) = Len(P[c]) + (next - c)
    <2>1. next \in 0 .. Len(text)
      <3> HIDE DEF next
      <3>1. QED
        BY <1>4 DEF BeforeNext
    <2>2. c \in 0 .. Len(text) /\ Len(P[next]) = Len(P[c]) + (next - c)
      <3> HIDE DEF next
      <3>1. QED
        BY <1>4, StripGap
    <2>3. QED
      BY <2>1, <2>2
  <1>6. Len(P[c]) \in Nat
    <2> HIDE DEF c
    <2>1. P[c] \in Seq(T)
      BY <1>5, StripIs
    <2>2. QED
      BY <2>1
  <1>7. n < Len(m) => map.cuts[n + 1].position = Len(P[next])
    <2>1. ASSUME n < Len(m)
          PROVE  map.cuts[n + 1].position = Len(P[next])
      <3> DEFINE i == n + 1
      <3>1. i \in 1 .. Len(m)
        BY <1>1, <2>1
      <3> HIDE DEF i
      <3>2. map.cuts[i].position = Len(P[m[i].end])
        BY <3>1 DEF MapOf, CutsOf
      <3>3. P[m[i].end] = P[m[i].start]
        BY <3>1, StripSpan
      <3>4. QED
        BY <2>1, <3>2, <3>3 DEF i
    <2>2. QED
      BY <2>1
  <1>8. q <= Len(P[next])
    <2>1. CASE n < Len(m)
      BY <1>7, <2>1
    <2>2. CASE ~(n < Len(m))
      BY <1>1, <2>2
    <2>3. QED
      BY <2>1, <2>2
  <1> HIDE DEF next, c
  <1>9. o = c + (q - Len(P[c])) /\ o \in 0 .. Len(text) /\ c <= o /\ o <= next
    BY <1>1, <1>3, <1>5, <1>6, <1>8
  <1>10. n < Len(m) /\ q < map.cuts[n + 1].position => o < next
    BY <1>1, <1>3, <1>5, <1>6, <1>7
  <1>11. BeforeNext(text, m, n, o)
    BY <1>9 DEF BeforeNext, c, next
  <1> HIDE DEF o
  <1>12. Len(P[o]) = Len(P[c]) + (o - c)
    BY <1>11, StripGap DEF c
  <1>13. Len(P[o]) = q
    BY <1>1, <1>5, <1>6, <1>9, <1>12
  <1>14. QED
    BY <1>10, <1>11, <1>13 DEF o, next

(* A removal map moves offsets as Moves says. *)
GoneOf(text, m) == {o \in 0 .. Len(text) - 1 : Inside(m, o)}

PlaceOf(text, P) == [o \in 0 .. Len(text) |-> Len(P[o])]

BeginOf(map, k) == [q \in 0 .. k |-> q + Removed(map, BisectRight(map, q))]

EndOf(map, k) == [q \in 0 .. k |-> q + Removed(map, BisectLeft(map, q))]

(* The removal map is exact: it moves the offsets of what remains to where *)
(* their characters came from, and what it leaves out is what was removed. *)
LEMMA MapMoves ==
  ASSUME NEW T, NEW text, NEW m, NEW P, Stripping(T, text, m, P), NEW map, MapOf(text, m, P, map)
  PROVE  /\ Moves(Len(text), Len(map.text), GoneOf(text, m), PlaceOf(text, P),
                  BeginOf(map, Len(map.text)), EndOf(map, Len(map.text)))
         /\ Leaves(T, text, map.text, Len(map.text), GoneOf(text, m), PlaceOf(text, P))
PROOF
  <1> DEFINE n == Len(text)
             u == map.text
             k == Len(u)
             Gone == GoneOf(text, m)
             place == PlaceOf(text, P)
             begin == BeginOf(map, k)
             end == EndOf(map, k)
  <1>1. n \in Nat /\ n \in 0 .. n /\ 0 \in 0 .. n /\ text \in Seq(T) /\ P[0] = <<>>
    BY StripFacts
  <1>2. \A o \in 0 .. n : P[o] \in Seq(T) /\ Len(P[o]) \in Nat
    <2>1. ASSUME NEW o \in 0 .. n
          PROVE  P[o] \in Seq(T)
      BY StripIs
    <2>2. QED
      BY <2>1
  <1>3. u = P[n] /\ u \in Seq(T) /\ k \in Nat /\ k = Len(P[n])
    BY <1>1, <1>2 DEF MapOf
  <1>4. Gone \in SUBSET (0 .. n - 1)
    BY DEF GoneOf
  <1>5. \A o \in 0 .. n : place[o] = Len(P[o])
    BY DEF PlaceOf
  <1>6. \A o, h \in 0 .. n : o <= h => place[o] <= place[h]
    <2>1. ASSUME NEW o \in 0 .. n, NEW h \in 0 .. n, o <= h
          PROVE  Len(P[o]) <= Len(P[h])
      <3>1. h \in o .. Len(text)
        BY <1>1, <2>1
      <3>2. QED
        BY <3>1, StripGrows
    <2>2. QED
      BY <1>5, <2>1
  <1>7. place \in [0 .. n -> 0 .. k] /\ place[0] = 0 /\ place[n] = k
    <2>1. place[0] = 0 /\ place[n] = k
      BY <1>1, <1>3, <1>5
    <2>2. \A o \in 0 .. n : place[o] \in 0 .. k
      <3> HIDE DEF place, k, n
      <3>1. QED
        BY <1>1, <1>2, <1>3, <1>5, <1>6, <2>1
    <2>3. QED
      BY <2>1, <2>2 DEF PlaceOf
  <1>8. ASSUME NEW o \in 0 .. n - 1
        PROVE  place[o + 1] = IF o \in Gone THEN place[o] ELSE place[o] + 1
    <2>1. o \in 0 .. n /\ o + 1 \in 0 .. n
      BY <1>1
    <2>2. o \in Gone <=> Inside(m, o)
      BY DEF GoneOf
    <2>3. Inside(m, o) => P[o + 1] = P[o]
      BY <2>1, StripOver
    <2>4. ~Inside(m, o) => Len(P[o + 1]) = Len(P[o]) + 1
      BY StripLonger
    <2> HIDE DEF place, Gone
    <2>5. QED
      BY <1>5, <2>1, <2>2, <2>3, <2>4
  <1>9. ASSUME NEW o \in 0 .. n - 1, o \notin Gone
        PROVE  u[place[o] + 1] = text[o + 1]
    <2>1. o \in 0 .. n /\ o + 1 \in 0 .. n /\ ~Inside(m, o) /\ n \in o + 1 .. Len(text)
      BY <1>1, <1>9 DEF GoneOf
    <2>2. Len(P[o + 1]) = Len(P[o]) + 1 /\ P[o + 1][Len(P[o]) + 1] = text[o + 1]
      BY <2>1, StripLonger
    <2> DEFINE s == P[o + 1]
               i == Len(P[o]) + 1
    <2>3. \A j \in 1 .. Len(s) : P[n][j] = s[j]
      <3> DEFINE h == o + 1
      <3>1. h \in 0 .. Len(text) /\ n \in h .. Len(text)
        BY <2>1
      <3> HIDE DEF h
      <3>2. \A j \in 1 .. Len(P[h]) : P[n][j] = P[h][j]
        BY <3>1, StripGrows
      <3>3. QED
        BY <3>2 DEF h
    <2>4. i \in 1 .. i /\ Len(s) = i /\ s[i] = text[o + 1]
      BY <1>2, <2>1, <2>2
    <2> HIDE DEF s, i
    <2>5. P[n][i] = text[o + 1]
      BY <2>3, <2>4
    <2>6. place[o] = Len(P[o])
      BY <1>5, <2>1
    <2>7. QED
      BY <1>3, <2>5, <2>6 DEF i
  <1>10. ASSUME NEW q \in 0 .. k
         PROVE  begin[q] \in 0 .. n /\ place[begin[q]] = q /\ begin[q] \notin Gone
    <2> DEFINE r == BisectRight(map, q)
               o == q + Removed(map, r)
    <2>1. q \in Nat /\ q \in 0 .. Len(P[Len(text)])
      BY <1>3
    <2>2. /\ r \in 0 .. Len(m) /\ (r > 0 => map.cuts[r].position <= q)
          /\ r < Len(m) => q < map.cuts[r + 1].position
      BY <2>1, BisectedRight
    <2>3. r < Len(m) => q <= map.cuts[r + 1].position
      <3>1. r < Len(m) => r + 1 \in 1 .. Len(m)
        BY <2>2, StripFacts
      <3> HIDE DEF r
      <3>2. r < Len(m) => map.cuts[r + 1].position \in Int
        BY <3>1, CutPlaces
      <3>3. QED
        BY <2>1, <2>2, <3>2
    <2>4. /\ BeforeNext(text, m, r, o) /\ Len(P[o]) = q
          /\ r < Len(m) /\ q < map.cuts[r + 1].position => o < m[r + 1].start
      <3> HIDE DEF r
      <3>1. QED
        BY <2>1, <2>2, <2>3, LookedUp
    <2> HIDE DEF r, o
    <2>5. o \in 0 .. n /\ CursorAfter(m, r) <= o /\ (r < Len(m) => o < m[r + 1].start)
      BY <2>2, <2>4 DEF BeforeNext
    <2>6. ~Inside(m, o)
      <3>1. m \in Seq(Operation) /\ Apart(m) /\ o \in Nat
        BY <2>5, StripFacts
      <3>2. QED
        BY <2>2, <2>5, <3>1, Gap
    <2>7. begin[q] = o
      BY DEF BeginOf, o, r
    <2>8. place[o] = q
      BY <1>5, <2>4, <2>5
    <2>9. o \notin Gone
      BY <2>6 DEF GoneOf
    <2> HIDE DEF begin, place, Gone
    <2>10. QED
      BY <2>5, <2>7, <2>8, <2>9
  <1>11. ASSUME NEW q \in 0 .. k
         PROVE  end[q] \in 0 .. n /\ place[end[q]] = q
    <2> DEFINE r == BisectLeft(map, q)
               o == q + Removed(map, r)
    <2>1. q \in Nat /\ q \in 0 .. Len(P[Len(text)])
      BY <1>3
    <2>2. /\ r \in 0 .. Len(m) /\ (r > 0 => map.cuts[r].position <= q)
          /\ r < Len(m) => q <= map.cuts[r + 1].position
      BY <2>1, BisectedLeft
    <2>3. BeforeNext(text, m, r, o) /\ Len(P[o]) = q
      <3> HIDE DEF r
      <3>1. QED
        BY <2>1, <2>2, LookedUp
    <2> HIDE DEF r, o
    <2>4. o \in 0 .. n
      BY <2>3 DEF BeforeNext
    <2>5. end[q] = o
      BY DEF EndOf, o, r
    <2>6. place[o] = q
      BY <1>5, <2>3, <2>4
    <2> HIDE DEF end, place
    <2>7. QED
      BY <2>4, <2>5, <2>6
  <1>12. begin \in [0 .. k -> 0 .. n] /\ end \in [0 .. k -> 0 .. n]
    BY <1>10, <1>11 DEF BeginOf, EndOf
  <1> HIDE DEF Gone, place, begin, end, u, k, n
  <1>13. Moves(n, k, Gone, place, begin, end)
    BY <1>1, <1>3, <1>4, <1>6, <1>7, <1>8, <1>10, <1>11, <1>12 DEF Moves
  <1>14. Leaves(T, text, u, k, Gone, place)
    BY <1>1, <1>3, <1>9 DEF Leaves, n, k
  <1>15. QED
    BY <1>13, <1>14 DEF n, k, u, Gone, place, begin, end

-----------------------------------------------------------------------------
(* What the removals take out of a text, as one layout of it. *)
LEMMA RemovalsStrip ==
  ASSUME NEW T, Marker \in T, NEW text \in Seq(T), NEW e, SpansFit(e, text)
  PROVE  \E m, P : /\ Stripping(T, text, m, P) /\ MapOf(text, m, P, RemoveFindings(text, e))
                   /\ \A o \in Nat : Inside(m, o) <=> CoveredBy(Range(Removals(e)), o)
PROOF
  <1> DEFINE R == Range(Removals(e))
             m == MergeSpans(Operations(Removals(e)))
             map == RemoveFindings(text, e)
  <1>1. /\ m \in Seq(Operation) /\ Merges(m, {SpanOf(f) : f \in R})
        /\ \A j \in DOMAIN m : m[j].end <= Len(text)
        /\ \A f \in R : f.start \in Nat /\ f.end \in Nat
    BY RemovalsFit, MergedFits
  <1>2. \A f \in R : f.action = "REMOVE"
    <2>1. e \in Seq(Finding)
      BY DEF SpansFit
    <2>2. QED
      BY <2>1, RemovalsKeep
  <1>3. map = [text |-> Rebuild(text, m), cuts |-> FoldLeft(CutStep, <<>>, m)]
    BY DEF RemoveFindings
  <1> HIDE DEF R, m, map
  <1>4. \A j \in DOMAIN m : ~m[j].redact
    <2>1. ASSUME NEW f \in R
          PROVE  ~SpanOf(f).redact
      BY <1>2, Zenon DEF SpanOf
    <2>2. QED
      BY <1>1, <2>1 DEF Merges, RedactionsFrom
  <1>5. PICK P : Layout(T, text, m, P)
    BY <1>1, LayoutExists DEF Merges
  <1>6. Stripping(T, text, m, P)
    BY <1>4, <1>5 DEF Stripping
  <1>7. Rebuild(text, m) = P[Len(text)]
    <2>1. Rebuild(text, m) = P[Len(text) + 1]
      BY <1>5, RebuildLays
    <2> DEFINE o == Len(text)
    <2>2. o \in 0 .. Len(text) /\ o = Len(text)
      OBVIOUS
    <2> HIDE DEF o
    <2>3. P[o + 1] = P[o]
      BY <1>6, <2>2, StripOver
    <2>4. QED
      BY <2>1, <2>3 DEF o
  <1>8. CutsOf(m, P, FoldLeft(CutStep, <<>>, m), Len(m))
    BY <1>6, CutsCut
  <1>9. MapOf(text, m, P, map)
    <2> DEFINE cuts == FoldLeft(CutStep, <<>>, m)
               u == Rebuild(text, m)
    <2>1. map.text = u /\ map.cuts = cuts
      BY <1>3
    <2> HIDE DEF cuts, u
    <2>2. QED
      BY <1>7, <1>8, <2>1 DEF MapOf, cuts, u
  <1>10. \A o \in Nat : Inside(m, o) <=> CoveredBy(R, o)
    <2>1. \A o \in Int : Inside(m, o) <=> CoveredBy(R, o)
      BY <1>1, SameInside
    <2>2. QED
      BY <2>1
  <1>11. QED
    BY <1>6, <1>9, <1>10 DEF map, R

(* The finding a policy makes of one. *)
Effective(policy, f) == [f EXCEPT !.action = ActionFor(policy, f.rule, f.action)]

(* The effective findings are the findings, each with its action.          *)
LEMMA EffectiveRange ==
  ASSUME NEW policy, NEW findings \in Seq(Finding)
  PROVE  Range(EffectiveFindings(policy, findings)) =
            {Effective(policy, f) : f \in Range(findings)}
PROOF
  <1>1. DOMAIN EffectiveFindings(policy, findings) = DOMAIN findings
    BY DEF EffectiveFindings
  <1>2. \A i \in DOMAIN findings : EffectiveFindings(policy, findings)[i] = Effective(policy, findings[i])
    BY DEF EffectiveFindings, Effective
  <1>3. QED
    BY <1>1, <1>2, Zenon DEF Range

(* An effective finding has the span and the rule of the finding, and the  *)
(* action that the policy gives it.                                        *)
LEMMA EffectiveIs ==
  ASSUME NEW policy, NEW f \in Finding
  PROVE  /\ Effective(policy, f).start = f.start /\ Effective(policy, f).end = f.end
         /\ Effective(policy, f).rule = f.rule
         /\ Effective(policy, f).action = ActionFor(policy, f.rule, f.action)
         /\ ActionFor(policy, f.rule, f.action) = f.action => Effective(policy, f) = f
PROOF
  BY DEF Effective, Finding

(* A finding that the policy has judged keeps its action when it is judged again. *)
LEMMA JudgedTwice ==
  ASSUME NEW policy, NEW findings \in Seq(Finding),
         NEW f \in Range(EffectiveFindings(policy, findings)), f \in Finding
  PROVE  Effective(policy, f) = f
PROOF
  <1>1. PICK g \in Range(findings) : f = Effective(policy, g)
    BY EffectiveRange
  <1>2. g \in Finding
    BY DEF Range
  <1>3. f.rule = g.rule /\ f.action = ActionFor(policy, g.rule, g.action)
    BY <1>1, <1>2, EffectiveIs
  <1>4. ActionFor(policy, f.rule, f.action) = f.action
    BY <1>3 DEF ActionFor
  <1>5. QED
    BY <1>4, EffectiveIs

(* The findings of the second scan, moved. *)
MovesFindings(findings, moved, begin, end) ==
    /\ DOMAIN moved = DOMAIN findings
    /\ \A i \in DOMAIN findings :
          /\ moved[i].start = begin[findings[i].start] /\ moved[i].end = end[findings[i].end]
          /\ moved[i].rule = findings[i].rule /\ moved[i].action = findings[i].action

(* Findings mapped back are moved each by the map, start and end.          *)
LEMMA MapBackRange ==
  ASSUME NEW map, NEW k \in Nat, NEW findings \in Seq(Finding),
         \A i \in DOMAIN findings : findings[i].start <= k /\ findings[i].end <= k
  PROVE  MovesFindings(findings, MapBack(map, findings), BeginOf(map, k), EndOf(map, k))
PROOF
  <1> DEFINE u == MapBack(map, findings)
  <1>1. DOMAIN u = DOMAIN findings
    BY DEF MapBack
  <1>2. ASSUME NEW i \in DOMAIN findings
        PROVE  /\ u[i].start = BeginOf(map, k)[findings[i].start]
               /\ u[i].end = EndOf(map, k)[findings[i].end]
               /\ u[i].rule = findings[i].rule /\ u[i].action = findings[i].action
    <2> DEFINE f == findings[i]
               a == f.start + Removed(map, BisectRight(map, f.start))
               b == f.end + Removed(map, BisectLeft(map, f.end))
    <2>1. f \in Finding /\ f.start <= k /\ f.end <= k
      OBVIOUS
    <2>2. u[i] = [f EXCEPT !.start = a, !.end = b]
      BY DEF MapBack, OriginalSpan
    <2> HIDE DEF f, u
    <2>3. f.start \in 0 .. k /\ f.end \in 0 .. k
      <3>1. f.start \in Nat /\ f.end \in Nat
        BY <2>1 DEF Finding
      <3>2. QED
        BY <2>1, <3>1
    <2>4. BeginOf(map, k)[f.start] = a /\ EndOf(map, k)[f.end] = b
      BY <2>3 DEF BeginOf, EndOf
    <2> HIDE DEF a, b
    <2>5. u[i].start = a /\ u[i].end = b /\ u[i].rule = f.rule /\ u[i].action = f.action
      BY <2>1, <2>2 DEF Finding
    <2>6. QED
      BY <2>4, <2>5 DEF f
  <1>3. QED
    BY <1>1, <1>2 DEF MovesFindings

(* What the second scan found and the removals before it cover, together, *)
(* what the removals cover and, of what remains, what the second scan did. *)
LEMMA CombinedMoves ==
  ASSUME NEW text, NEW m, NEW map, NEW k, k = Len(map.text), k \in Nat, Len(text) \in Nat,
         NEW policy, \A r \in DOMAIN policy : policy[r] \in Actions,
         NEW raw, SpansFit(raw, text), NEW found, SpansFit(found, map.text),
         SpansFit(MapBack(map, found), text),
         \A o \in Nat : Inside(m, o) <=>
            CoveredBy(Range(Removals(EffectiveFindings(policy, raw))), o)
  PROVE  Moved(Len(text), k, GoneOf(text, m), BeginOf(map, k), EndOf(map, k),
               Changing(EffectiveFindings(policy, found)),
               Changing(EffectiveFindings(policy,
                   Combined(EffectiveFindings(policy, raw), MapBack(map, found)))))
PROOF
  <1> DEFINE e == EffectiveFindings(policy, raw)
             R == Range(Removals(e))
             moved == MapBack(map, found)
             all == Combined(e, moved)
             S == Changing(EffectiveFindings(policy, found))
             F == Changing(EffectiveFindings(policy, all))
             begin == BeginOf(map, k)
             end == EndOf(map, k)
             Gone == GoneOf(text, m)
  <1>1. /\ SpansFit(e, text) /\ SpansFit(Removals(e), text) /\ SpansFit(all, text)
        /\ SpansFit(EffectiveFindings(policy, all), text)
        /\ SpansFit(EffectiveFindings(policy, found), map.text)
    <2>1. SpansFit(e, text)
      BY EffectiveFits
    <2>2. SpansFit(Removals(e), text)
      BY <2>1, RemovalsFit
    <2>3. SpansFit(all, text)
      BY <2>2, ConcatFits, SortFits DEF Combined
    <2>4. SpansFit(EffectiveFindings(policy, all), text)
      <3> HIDE DEF all
      <3>1. QED
        BY <2>3, EffectiveFits
    <2>5. SpansFit(EffectiveFindings(policy, found), map.text)
      BY EffectiveFits
    <2>6. QED
      BY <2>1, <2>2, <2>3, <2>4, <2>5
  <1>2. raw \in Seq(Finding) /\ e \in Seq(Finding) /\ all \in Seq(Finding)
        /\ found \in Seq(Finding) /\ moved \in Seq(Finding) /\ Removals(e) \in Seq(Finding)
    BY <1>1 DEF SpansFit
  <1>3. Range(all) = R \cup Range(moved)
    <2> DEFINE joined == Removals(e) \o moved
    <2>1. joined \in Seq(Finding) /\ Range(joined) = R \cup Range(moved)
      BY <1>2, RangeConcatenation
    <2> HIDE DEF joined
    <2>2. Range(SortFindings(joined)) = Range(joined)
      BY <2>1, FindingsSorted
    <2>3. QED
      BY <2>1, <2>2 DEF Combined, joined
  <1>4. ASSUME NEW f \in R
        PROVE  f \in Finding /\ f.action = "REMOVE" /\ Effective(policy, f) = f
    <2>1. Range(Removals(e)) = {g \in Range(e) : g.action = "REMOVE"}
      BY <1>2, RemovalsKeep
    <2>2. f \in Range(e) /\ f.action = "REMOVE"
      BY <2>1
    <2>3. f \in Finding
      <3> HIDE DEF e
      <3>1. QED
        BY <1>2, <2>2 DEF Range
    <2>4. Effective(policy, f) = f
      BY <1>2, <2>2, <2>3, JudgedTwice
    <2>5. QED
      BY <2>2, <2>3, <2>4
  <1>5. \A i \in DOMAIN found : found[i] \in Finding /\ found[i].start <= k /\ found[i].end <= k
                               /\ found[i].start \in Nat /\ found[i].end \in Nat
    <2>1. \A i \in DOMAIN found : found[i] \in Finding /\ found[i].start <= found[i].end
                                 /\ found[i].end <= k
      BY <1>2, InsideText
    <2>2. ASSUME NEW i \in DOMAIN found
          PROVE  found[i].start \in Nat /\ found[i].end \in Nat
      BY <2>1 DEF Finding
    <2>3. QED
      BY <2>1, <2>2
  <1>6. /\ DOMAIN moved = DOMAIN found
        /\ \A i \in DOMAIN found :
              /\ moved[i].start = begin[found[i].start]
              /\ moved[i].end = end[found[i].end]
              /\ moved[i].rule = found[i].rule
              /\ moved[i].action = found[i].action
    <2>1. \A i \in DOMAIN found : found[i].start <= k /\ found[i].end <= k
      BY <1>5
    <2>2. MovesFindings(found, moved, begin, end)
      BY <1>2, <2>1, MapBackRange
    <2>3. QED
      BY <2>2, Zenon DEF MovesFindings
  <1>7. \A i \in DOMAIN moved : moved[i] \in Finding
    <2> HIDE DEF moved
    <2>1. QED
      BY <1>2
  <1> HIDE DEF all, moved, begin, end, R, e
  <1> DEFINE Judged(x) == Effective(policy, x)
             Changes(x) == x.action \in {"REMOVE", "REDACT"}
  <1>8. ASSUME NEW i \in DOMAIN found
        PROVE  /\ Judged(moved[i]).start = begin[Judged(found[i]).start]
               /\ Judged(moved[i]).end = end[Judged(found[i]).end]
               /\ Judged(moved[i]).action = Judged(found[i]).action
               /\ Judged(found[i]).start = found[i].start /\ Judged(found[i]).end = found[i].end
    <2> DEFINE x == moved[i]
               y == found[i]
    <2>1. x \in Finding /\ y \in Finding
      BY <1>5, <1>6, <1>7
    <2>2. /\ x.start = begin[y.start] /\ x.end = end[y.end] /\ x.rule = y.rule
          /\ x.action = y.action
      BY <1>6
    <2> HIDE DEF x, y
    <2>3. /\ Effective(policy, x).start = x.start /\ Effective(policy, x).end = x.end
          /\ Effective(policy, x).action = ActionFor(policy, x.rule, x.action)
      BY <2>1, EffectiveIs
    <2>4. /\ Effective(policy, y).start = y.start /\ Effective(policy, y).end = y.end
          /\ Effective(policy, y).action = ActionFor(policy, y.rule, y.action)
      BY <2>1, EffectiveIs
    <2>5. QED
      BY <2>2, <2>3, <2>4, Zenon DEF x, y
  <1>9. /\ Range(EffectiveFindings(policy, found)) = {Judged(x) : x \in Range(found)}
        /\ Range(EffectiveFindings(policy, all)) = {Judged(x) : x \in R \cup Range(moved)}
    BY <1>2, <1>3, EffectiveRange
  <1>10. \A f \in R : Judged(f) = f
    BY <1>4
  <1> HIDE DEF Judged
  <1>11. S = {x \in {Judged(found[i]) : i \in DOMAIN found} : Changes(x)}
    BY <1>9 DEF Changing, Range
  <1>12. F = {x \in R \cup {Judged(moved[i]) : i \in DOMAIN found} : Changes(x)}
    <2>1. {Judged(x) : x \in R \cup Range(moved)} = R \cup {Judged(moved[i]) : i \in DOMAIN found}
      BY <1>6, <1>10 DEF Range
    <2>2. QED
      BY <1>9, <2>1 DEF Changing
  <1>13. \A f \in F : f.start \in Nat
    <2>1. ASSUME NEW f \in Range(EffectiveFindings(policy, all)) PROVE f.start \in Nat
      <3> DEFINE E == EffectiveFindings(policy, all)
      <3>1. E \in Seq(Finding)
        BY <1>1 DEF SpansFit
      <3> HIDE DEF E
      <3>2. f \in Finding
        BY <3>1 DEF Range, E
      <3>3. QED
        BY <3>2 DEF Finding
    <2>2. QED
      BY <2>1 DEF Changing
  <1> HIDE DEF S, F
  <1>14. \A g \in S : g.start \in 0 .. k /\ g.end \in 0 .. k
    <2>1. ASSUME NEW g \in S PROVE g.start \in 0 .. k /\ g.end \in 0 .. k
      <3>1. PICK i \in DOMAIN found : g = Judged(found[i])
        BY <1>11
      <3>2. g.start = found[i].start /\ g.end = found[i].end
        BY <1>8, <3>1
      <3>3. QED
        BY <1>5, <3>2
    <2>2. QED
      BY <2>1
  (* The findings that change the text: the removals and, moved, those of the second scan. *)
  <1>15. ASSUME NEW f \in F
         PROVE  f \in R \/ \E g \in S : /\ f.start = begin[g.start] /\ f.end = end[g.end]
                                        /\ f.action = g.action
    <2>1. CASE f \notin R
      <3>1. PICK i \in DOMAIN found : f = Judged(moved[i])
        BY <1>12, <2>1
      <3>2. Changes(f)
        BY <1>12
      <3> DEFINE g == Judged(found[i])
      <3>3. f.start = begin[g.start] /\ f.end = end[g.end] /\ f.action = g.action
        BY <1>8, <3>1
      <3>4. g \in S
        BY <1>11, <3>2, <3>3
      <3> HIDE DEF g
      <3>5. QED
        BY <3>3, <3>4
    <2>2. QED
      BY <2>1
  <1>16. ASSUME NEW g \in S
         PROVE  \E f \in F : /\ f.start = begin[g.start] /\ f.end = end[g.end]
                             /\ f.action = g.action
    <2>1. PICK i \in DOMAIN found : g = Judged(found[i])
      BY <1>11
    <2>2. Changes(g)
      BY <1>11
    <2> DEFINE f == Judged(moved[i])
    <2>3. f.start = begin[g.start] /\ f.end = end[g.end] /\ f.action = g.action
      BY <1>8, <2>1
    <2>4. f \in F
      BY <1>12, <2>2, <2>3
    <2> HIDE DEF f
    <2>5. QED
      BY <2>3, <2>4
  <1>17. R \subseteq F
    BY <1>4, <1>12
  <1>18. ASSUME NEW o \in 0 .. Len(text) - 1
         PROVE  CoveredBy(F, o) <=>
                   o \in Gone \/ \E g \in S : begin[g.start] <= o /\ o < end[g.end]
    <2>1. o \in Gone <=> CoveredBy(R, o)
      <3>1. o \in Nat
        OBVIOUS
      <3>2. QED
        BY <3>1 DEF GoneOf, R, e
    <2>2. CoveredBy(F, o) => CoveredBy(R, o) \/ \E g \in S : begin[g.start] <= o /\ o < end[g.end]
      BY <1>15 DEF CoveredBy
    <2>3. CoveredBy(R, o) => CoveredBy(F, o)
      BY <1>17 DEF CoveredBy
    <2>4. (\E g \in S : begin[g.start] <= o /\ o < end[g.end]) => CoveredBy(F, o)
      BY <1>16 DEF CoveredBy
    <2>5. QED
      BY <2>1, <2>2, <2>3, <2>4
  <1>19. \A f \in F : f.action = "REDACT" => \E g \in S : g.action = "REDACT" /\ f.start = begin[g.start]
    BY <1>4, <1>15
  <1>20. \A g \in S : g.action = "REDACT" => \E f \in F : f.action = "REDACT" /\ f.start = begin[g.start]
    BY <1>16
  <1> HIDE DEF Gone
  <1>21. Moved(Len(text), k, Gone, begin, end, S, F)
    BY <1>13, <1>14, <1>18, <1>19, <1>20 DEF Moved
  <1>22. QED
    BY <1>21 DEF Gone, begin, end, S, F, all, moved, e

(* Removing what the first scan found and enforcing what the second one    *)
(* finds in the rest comes to enforcing both on the original text.         *)
THEOREM RemovalsCompose ==
  ASSUME NEW T, Marker \in T, NEW text \in Seq(T),
         NEW policy, \A r \in DOMAIN policy : policy[r] \in Actions,
         NEW raw, SpansFit(raw, text), NEW map,
         map = RemoveFindings(text, EffectiveFindings(policy, raw)),
         NEW found, SpansFit(found, map.text), SpansFit(MapBack(map, found), text)
  PROVE  Uncovered(text, EffectiveFindings(policy,
                       Combined(EffectiveFindings(policy, raw), MapBack(map, found))))
            = SanitizeFindings(map.text, EffectiveFindings(policy, found))
PROOF
  <1> DEFINE e == EffectiveFindings(policy, raw)
             E == EffectiveFindings(policy, Combined(e, MapBack(map, found)))
             G == EffectiveFindings(policy, found)
             u == map.text
             k == Len(u)
             S == Changing(G)
             F == Changing(E)
  <1>1. SpansFit(e, text) /\ SpansFit(G, u)
    BY EffectiveFits
  <1>2. PICK m, P : /\ Stripping(T, text, m, P) /\ MapOf(text, m, P, map)
                    /\ \A o \in Nat : Inside(m, o) <=> CoveredBy(Range(Removals(e)), o)
    <2> HIDE DEF e
    <2>1. map = RemoveFindings(text, e)
      BY DEF e
    <2>2. QED
      BY <1>1, <2>1, RemovalsStrip
  <1>3. /\ Moves(Len(text), k, GoneOf(text, m), PlaceOf(text, P), BeginOf(map, k), EndOf(map, k))
        /\ Leaves(T, text, u, k, GoneOf(text, m), PlaceOf(text, P))
    BY <1>2, MapMoves
  <1>4. k \in Nat /\ Len(text) \in Nat /\ u \in Seq(T)
    BY <1>3 DEF Moves, Leaves
  <1>5. Moved(Len(text), k, GoneOf(text, m), BeginOf(map, k), EndOf(map, k), S, F)
    BY <1>2, <1>4, CombinedMoves
  <1> HIDE DEF S, F, u, k
  <1>6. PICK W : Prints(T, text, F, W) /\ Uncovered(text, E) = W[Len(text) + 1]
    BY UncoveredPrints DEF F
  <1>7. PICK Q : Prints(T, u, S, Q) /\ Uncovered(u, G) = Q[Len(u) + 1]
    BY <1>4, UncoveredPrints DEF S
  <1>8. W[Len(text) + 1] = Q[Len(u) + 1]
    BY <1>3, <1>5, <1>6, <1>7, PrintsTheSame
  <1>9. SanitizeFindings(u, G) = Uncovered(u, G)
    BY <1>1, <1>4, SanitizedIsUncovered
  <1>10. QED
    BY <1>6, <1>7, <1>8, <1>9, Zenon DEF u

=============================================================================
