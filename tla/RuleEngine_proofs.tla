--------------------------- MODULE RuleEngine_proofs ---------------------------
(***************************************************************************)
(* What one call of RuleEngine.process guarantees for every engine, every  *)
(* text and whatever its rules find.                                       *)
(***************************************************************************)
EXTENDS RuleEngine, Redaction_proofs

Normalizing == INSTANCE Folding WITH Op <- NormalizeStep
Decoding == INSTANCE Folding WITH Op <- Decode
Preflighting == INSTANCE Folding WITH Op <- PreflightStep

-----------------------------------------------------------------------------
(* normalize_text has a way back for every offset of what it returns: its  *)
(* boundaries are one more than the characters, do not decrease and lie in *)
(* the original text.                                                      *)
LeadsBack(normal, n) ==
    /\ Len(normal.text) \in Nat
    /\ normal.boundaries \in Seq(Nat)
    /\ Len(normal.boundaries) = Len(normal.text) + 1
    /\ \A j, k \in DOMAIN normal.boundaries :
          j <= k => normal.boundaries[j] <= normal.boundaries[k]
    /\ Last(normal.boundaries) = n

(* The second character of a CRLF moves the last boundary.                 *)
LEMMA BoundaryMoves ==
  ASSUME NEW b \in Seq(Nat), NEW len \in Nat, Len(b) = len + 1,
         \A j, k \in DOMAIN b : j <= k => b[j] <= b[k]
  PROVE  LET c == [b EXCEPT ![Len(b)] = @ + 1]
         IN  /\ c \in Seq(Nat) /\ Len(c) = len + 1 /\ Last(c) = Last(b) + 1
             /\ \A j, k \in DOMAIN c : j <= k => c[j] <= c[k]
PROOF
  <1> DEFINE n == Len(b)
             c == [b EXCEPT ![n] = b[n] + 1]
  <1>1. n \in Nat /\ n \in 1 .. n /\ DOMAIN b = 1 .. n /\ \A j \in 1 .. n : b[j] \in Nat
    OBVIOUS
  <1>2. /\ c \in Seq(Nat) /\ Len(c) = n /\ DOMAIN c = 1 .. n /\ c[n] = b[n] + 1
        /\ \A j \in 1 .. n : j # n => c[j] = b[j]
    BY <1>1
  <1> HIDE DEF c, n
  <1>3. ASSUME NEW j \in 1 .. n, NEW k \in 1 .. n, j <= k
        PROVE  c[j] <= c[k]
    <2>1. b[j] <= b[k] /\ b[j] \in Nat /\ b[k] \in Nat
      BY <1>1, <1>3
    <2>2. k = n => c[k] = b[k] + 1
      BY <1>2
    <2>3. k # n => c[k] = b[k] /\ c[j] = b[j]
      BY <1>1, <1>2, <1>3
    <2>4. j # n => c[j] = b[j]
      BY <1>2
    <2>5. j = n => k = n
      BY <1>1, <1>3
    <2>6. QED
      BY <2>1, <2>2, <2>3, <2>4, <2>5
  <1>4. Last(c) = Last(b) + 1
    BY <1>1, <1>2 DEF Last, n
  <1>5. QED
    BY <1>1, <1>2, <1>3, <1>4 DEF c, n

(* Any other character adds one.                                           *)
LEMMA BoundaryAppended ==
  ASSUME NEW b \in Seq(Nat), NEW len \in Nat, Len(b) = len + 1,
         \A j, k \in DOMAIN b : j <= k => b[j] <= b[k]
  PROVE  LET c == Append(b, Last(b) + 1)
         IN  /\ c \in Seq(Nat) /\ Len(c) = (len + 1) + 1 /\ Last(c) = Last(b) + 1
             /\ \A j, k \in DOMAIN c : j <= k => c[j] <= c[k]
PROOF
  <1> DEFINE n == Len(b)
             c == Append(b, Last(b) + 1)
  <1>1. /\ n \in Nat /\ n \in 1 .. n /\ DOMAIN b = 1 .. n /\ \A j \in 1 .. n : b[j] \in Nat
        /\ Last(b) = b[n]
    BY DEF Last
  <1>2. /\ c \in Seq(Nat) /\ Len(c) = n + 1 /\ DOMAIN c = 1 .. n + 1 /\ c[n + 1] = b[n] + 1
        /\ \A j \in 1 .. n : c[j] = b[j]
    BY <1>1, AppendProperties
  <1> HIDE DEF c, n
  <1>3. ASSUME NEW j \in 1 .. n + 1, NEW k \in 1 .. n + 1, j <= k
        PROVE  c[j] <= c[k]
    <2>1. CASE k \in 1 .. n
      <3>1. j \in 1 .. n
        BY <1>1, <1>3, <2>1
      <3>2. b[j] <= b[k]
        BY <1>1, <1>3, <2>1, <3>1
      <3>3. QED
        BY <1>2, <2>1, <3>1, <3>2
    <2>2. CASE k = n + 1 /\ j \in 1 .. n
      <3>1. b[j] <= b[n] /\ b[j] \in Nat /\ b[n] \in Nat
        BY <1>1, <2>2
      <3>2. c[j] = b[j] /\ c[k] = b[n] + 1
        BY <1>2, <2>2
      <3>3. QED
        BY <3>1, <3>2
    <2>3. CASE k = n + 1 /\ j = n + 1
      BY <1>1, <1>2, <2>3
    <2>4. QED
      BY <1>1, <1>3, <2>1, <2>2, <2>3
  <1>4. Last(c) = Last(b) + 1
    BY <1>1, <1>2 DEF Last
  <1>5. QED
    BY <1>1, <1>2, <1>3, <1>4 DEF c, n

(* One round of normalize_text's loop keeps the way back.                  *)
LEMMA NormalizeStepLeadsBack ==
  ASSUME NEW T, NEW acc \in [text : Seq(T), boundaries : Seq(Nat), afterCR : BOOLEAN],
         NEW c \in T, "LF" \in T, NEW n \in Nat, LeadsBack(acc, n)
  PROVE  /\ NormalizeStep(acc, c) \in [text : Seq(T), boundaries : Seq(Nat), afterCR : BOOLEAN]
         /\ LeadsBack(NormalizeStep(acc, c), n + 1)
PROOF
  <1> DEFINE b == acc.boundaries
             len == Len(acc.text)
             moved == [b EXCEPT ![Len(b)] = @ + 1]
             longer == Append(b, Last(b) + 1)
             u == NormalizeStep(acc, c)
  <1>1. /\ acc.text \in Seq(T) /\ b \in Seq(Nat) /\ len \in Nat /\ Len(b) = len + 1 /\ Last(b) = n
        /\ \A j, k \in DOMAIN b : j <= k => b[j] <= b[k]
    BY DEF LeadsBack
  <1>2. CASE c = "LF" /\ acc.afterCR
    <2>1. u = [text |-> acc.text, boundaries |-> moved, afterCR |-> FALSE]
      BY <1>2, Zenon DEF NormalizeStep
    <2>2. /\ moved \in Seq(Nat) /\ Len(moved) = len + 1 /\ Last(moved) = Last(b) + 1
          /\ \A j, k \in DOMAIN moved : j <= k => moved[j] <= moved[k]
      <3> HIDE DEF b, len
      <3>1. QED
        BY <1>1, BoundaryMoves
    <2> HIDE DEF moved, u
    <2>3. u.text = acc.text /\ u.boundaries = moved
      BY <2>1
    <2>4. LeadsBack(u, n + 1)
      BY <1>1, <2>2, <2>3 DEF LeadsBack
    <2>5. QED
      BY <1>1, <2>1, <2>2, <2>4 DEF u
  <1>3. CASE ~(c = "LF" /\ acc.afterCR)
    <2> DEFINE new == Append(acc.text, IF c = "CR" THEN "LF" ELSE c)
    <2>1. u = [text |-> new, boundaries |-> longer, afterCR |-> c = "CR"]
      BY <1>3, Zenon DEF NormalizeStep
    <2>2. /\ longer \in Seq(Nat) /\ Len(longer) = (len + 1) + 1 /\ Last(longer) = Last(b) + 1
          /\ \A j, k \in DOMAIN longer : j <= k => longer[j] <= longer[k]
      <3> HIDE DEF b, len
      <3>1. QED
        BY <1>1, BoundaryAppended
    <2>3. new \in Seq(T) /\ Len(new) = len + 1
      BY <1>1, AppendProperties
    <2> HIDE DEF longer, u, new
    <2>4. u.text = new /\ u.boundaries = longer
      BY <2>1
    <2>5. LeadsBack(u, n + 1)
      BY <1>1, <2>2, <2>3, <2>4 DEF LeadsBack
    <2>6. QED
      BY <2>1, <2>2, <2>3, <2>5 DEF u
  <1>4. QED
    BY <1>2, <1>3

(* So there is one for the whole of every text.                            *)
LEMMA NormalizeLeadsBack ==
  ASSUME NEW T, "LF" \in T, NEW t \in Seq(T)
  PROVE  LeadsBack(Normalize(t), Len(t))
PROOF
  <1> DEFINE n == Len(t)
             Acc == [text : Seq(T), boundaries : Seq(Nat), afterCR : BOOLEAN]
             G == [i \in 0 .. n |-> {acc \in Acc : LeadsBack(acc, i)}]
             base == [text |-> <<>>, boundaries |-> <<0>>, afterCR |-> FALSE]
  <1>1. n \in Nat /\ DOMAIN t = 1 .. n
    OBVIOUS
  <1>2. base \in G[0]
    <2>1. base \in Acc
      OBVIOUS
    <2>2. LeadsBack(base, 0)
      BY DEF LeadsBack, Last
    <2> HIDE DEF base, Acc
    <2>3. QED
      BY <1>1, <2>1, <2>2
  <1>3. ASSUME NEW i \in 1 .. n, NEW acc \in G[i - 1]
        PROVE  NormalizeStep(acc, t[i]) \in G[i]
    <2>1. acc \in Acc /\ LeadsBack(acc, i - 1) /\ t[i] \in T /\ i - 1 \in Nat /\ (i - 1) + 1 = i
      BY <1>1
    <2> DEFINE u == NormalizeStep(acc, t[i])
               c == t[i]
               k == i - 1
    <2>2. u \in Acc /\ LeadsBack(u, i)
      <3>1. acc \in Acc /\ LeadsBack(acc, k) /\ c \in T /\ k \in Nat /\ k + 1 = i
        BY <2>1
      <3> HIDE DEF c, k, G, n
      <3>2. NormalizeStep(acc, c) \in Acc /\ LeadsBack(NormalizeStep(acc, c), k + 1)
        BY <3>1, NormalizeStepLeadsBack
      <3>3. QED
        BY <3>1, <3>2 DEF c
    <2> HIDE DEF u, Acc
    <2>3. u \in G[i]
      BY <2>2
    <2>4. QED
      BY <2>3 DEF u
  <1>4. Normalizing!Folded(base, t) \in G[n]
    <2> HIDE DEF G, n, base
    <2>1. QED
      BY <1>1, <1>2, <1>3, Normalizing!FoldInvariant
  <1>5. Normalize(t) = Normalizing!Folded(base, t)
    BY DEF Normalize, FoldLeft, MapThenFoldSet, Normalizing!Folded, Normalizing!FoldLeft,
           Normalizing!MapThenFoldSet, Normalizing!Max, Max
  <1>6. n \in 0 .. n
    BY <1>1
  <1> HIDE DEF base, Acc
  <1>7. QED
    BY <1>4, <1>5, <1>6

-----------------------------------------------------------------------------
(* What a rule found is at its place in the text as it was given. *)
LEMMA OriginalsFit ==
  ASSUME NEW t, NEW normal, LeadsBack(normal, Len(t)), NEW matches,
         SpansFit(matches, normal.text)
  PROVE  SpansFit(Originals(normal, matches), t)
PROOF
  <1> DEFINE b == normal.boundaries
             len == Len(normal.text)
             u == Originals(normal, matches)
  <1>1. /\ len \in Nat /\ b \in Seq(Nat) /\ Len(b) = len + 1 /\ b[len + 1] = Len(t)
        /\ \A j, k \in DOMAIN b : j <= k => b[j] <= b[k]
    BY DEF LeadsBack, Last
  <1>2. /\ matches \in Seq(Finding) /\ DOMAIN matches = 1 .. Len(matches)
        /\ Len(matches) \in Nat
        /\ \A i \in DOMAIN matches : matches[i].start <= matches[i].end
                                     /\ matches[i].end <= len
    BY InsideText
  <1> HIDE DEF b, len
  <1>3. ASSUME NEW i \in 1 .. Len(matches)
        PROVE  u[i] \in Finding /\ u[i].start <= u[i].end /\ u[i].end <= Len(t)
    <2> DEFINE f == matches[i]
               s == f.start + 1
               e == f.end + 1
    <2>1. f \in Finding /\ f.start \in Nat /\ f.end \in Nat /\ f.start <= f.end /\ f.end <= len
      <3>1. f \in Finding /\ f.start <= f.end /\ f.end <= len
        BY <1>2
      <3> HIDE DEF f, u
      <3>2. f.start \in Nat /\ f.end \in Nat
        BY <3>1 DEF Finding
      <3>3. QED
        BY <3>1, <3>2
    <2>2. s \in DOMAIN b /\ e \in DOMAIN b /\ len + 1 \in DOMAIN b /\ s <= e /\ e <= len + 1
      <3> DEFINE x == f.start
                 y == f.end
      <3>1. x \in Nat /\ y \in Nat /\ x <= y /\ y <= len /\ len \in Nat
        BY <1>1, <2>1
      <3>2. DOMAIN b = 1 .. len + 1
        BY <1>1
      <3> HIDE DEF x, y, f
      <3>3. x + 1 \in 1 .. len + 1 /\ y + 1 \in 1 .. len + 1 /\ x + 1 <= y + 1
        BY <3>1
      <3>4. QED
        BY <3>1, <3>2, <3>3 DEF x, y
    <2>3. b[s] \in Nat /\ b[e] \in Nat /\ b[s] <= b[e] /\ b[e] <= Len(t)
      BY <1>1, <2>2
    <2>4. u[i] = [f EXCEPT !.start = b[s], !.end = b[e]]
      BY <1>2 DEF Originals, Original, b
    <2> HIDE DEF s, e, f, u
    <2>5. u[i] \in Finding /\ u[i].start = b[s] /\ u[i].end = b[e]
      BY <2>1, <2>3, <2>4 DEF Finding
    <2>6. QED
      BY <2>3, <2>5
  <1>4. u = [i \in 1 .. Len(matches) |-> u[i]]
    BY <1>2 DEF Originals
  <1> HIDE DEF u
  <1>5. u \in Seq(Finding) /\ DOMAIN u = 1 .. Len(matches)
    BY <1>2, <1>3, <1>4
  <1>6. SpansFit(u, t)
    BY <1>3, <1>5, InsideText
  <1>7. QED
    BY <1>6 DEF u

(* Findings of several rules fit together when those of each do.           *)
LEMMA PartsFit ==
  ASSUME NEW t, NEW n \in Nat, NEW parts \in [1 .. n -> Seq(Finding)],
         \A k \in 1 .. n : SpansFit(parts[k], t)
  PROVE  /\ SpansFit(FlattenSeq(parts), t)
         /\ Range(FlattenSeq(parts)) = UNION {Range(parts[k]) : k \in 1 .. n}
PROOF
  <1>1. \A u, v : Cat(u, v) = u \o v
    BY DEF Cat
  <1>2. FlattenSeq(parts) = Catenation!FlattenSeq(parts)
    BY DEF FlattenSeq, Catenation!FlattenSeq
  <1>3. /\ Catenation!FlattenSeq(parts) \in Seq(Finding)
        /\ Catenation!Range(Catenation!FlattenSeq(parts)) =
              UNION {Catenation!Range(parts[k]) : k \in 1 .. n}
    BY <1>1, Catenation!FlattenRange
  <1>4. \A v : Catenation!Range(v) = Range(v)
    BY DEF Range, Catenation!Range
  <1>5. /\ FlattenSeq(parts) \in Seq(Finding)
        /\ Range(FlattenSeq(parts)) = UNION {Range(parts[k]) : k \in 1 .. n}
    BY <1>2, <1>3, <1>4
  <1>6. \A f \in Range(FlattenSeq(parts)) : IsSpan(f) /\ f.end <= Len(t)
    BY <1>5 DEF SpansFit
  <1>7. QED
    BY <1>5, <1>6 DEF SpansFit

(* A scan that returns has placed and sorted what its rules matched, and   *)
(* left out nothing of it.                                                 *)
LEMMA ScanPlaces ==
  ASSUME NEW T, NEW t \in Seq(T), NEW c, NEW rules, Scan(c, rules, t) # <<>>
  PROVE  \E matches :
            /\ SpansFit(matches, Normalize(t).text)
            /\ Scan(c, rules, t) = <<SortFindings(Originals(Normalize(t), matches))>>
            /\ \A r \in rules \cap c.rules \cap Range(RuleOrder) :
                  c.scope \in Scopes[r] =>
                     Range(RuleScan(c, r, Normalize(t).text)) \subseteq Range(matches)
PROOF
  <1> DEFINE normal == Normalize(t)
             active == {r \in rules \cap c.rules : c.scope \in Scopes[r]}
             matched == Matched(c, active, normal.text)
             n == Len(RuleOrder)
             matches == FlattenSeq(matched)
  <1>1. Scan(c, rules, t) = Located(normal, matched)
    BY DEF Scan, ScanNormalized
  <1>2. n \in Nat /\ DOMAIN RuleOrder = 1 .. n
    BY DEF RuleOrder
  <1>3. /\ matched = [k \in 1 .. n |-> matched[k]] /\ DOMAIN matched = 1 .. n
        /\ \A k \in 1 .. n : RuleOrder[k] \in active =>
              matched[k] = RuleScan(c, RuleOrder[k], normal.text)
    BY <1>2 DEF Matched
  <1> HIDE DEF normal, matched, n
  <1>4. /\ \A k \in DOMAIN matched : SpansFit(matched[k], normal.text)
        /\ Located(normal, matched) = <<SortFindings(Originals(normal, matches))>>
    BY <1>1 DEF Located
  <1>5. matched \in [1 .. n -> Seq(Finding)]
    <2>1. \A k \in 1 .. n : matched[k] \in Seq(Finding)
      BY <1>3, <1>4 DEF SpansFit
    <2>2. QED
      BY <1>3, <2>1
  <1>6. /\ SpansFit(matches, normal.text)
        /\ Range(matches) = UNION {Range(matched[k]) : k \in 1 .. n}
    <2>1. \A k \in 1 .. n : SpansFit(matched[k], normal.text)
      BY <1>3, <1>4
    <2>2. n \in Nat
      BY <1>2
    <2>3. QED
      BY <1>5, <2>1, <2>2, PartsFit
  <1> HIDE DEF matches
  <1>7. ASSUME NEW r \in rules \cap c.rules \cap Range(RuleOrder), c.scope \in Scopes[r]
        PROVE  Range(RuleScan(c, r, normal.text)) \subseteq Range(matches)
    <2>1. PICK k \in 1 .. n : RuleOrder[k] = r
      BY <1>2 DEF Range
    <2>2. matched[k] = RuleScan(c, r, normal.text)
      BY <1>3, <1>7, <2>1
    <2>3. QED
      BY <1>6, <2>2
  <1>8. QED
    BY <1>1, <1>4, <1>6, <1>7 DEF normal

(* What a scan finds fits the text it was made of, whatever its rules do.  *)
LEMMA ScanFits ==
  ASSUME NEW T, "LF" \in T, NEW t \in Seq(T), NEW c, NEW rules
  PROVE  Scan(c, rules, t) # <<>> => SpansFit(Scan(c, rules, t)[1], t)
PROOF
  <1> SUFFICES ASSUME Scan(c, rules, t) # <<>>
               PROVE  SpansFit(Scan(c, rules, t)[1], t)
    OBVIOUS
  <1> DEFINE normal == Normalize(t)
  <1>1. PICK matches : /\ SpansFit(matches, normal.text)
                       /\ Scan(c, rules, t) = <<SortFindings(Originals(normal, matches))>>
    BY ScanPlaces
  <1>2. LeadsBack(normal, Len(t))
    BY NormalizeLeadsBack
  <1> HIDE DEF normal
  <1>3. SpansFit(SortFindings(Originals(normal, matches)), t)
    BY <1>1, <1>2, OriginalsFit, SortFits
  <1>4. QED
    BY <1>1, <1>3

(* What a rule matches is reported by the scan, with its action.           *)
LEMMA ScanReports ==
  ASSUME NEW T, "LF" \in T, NEW t \in Seq(T), NEW c, NEW rules, Scan(c, rules, t) # <<>>,
         NEW r \in rules \cap c.rules \cap Range(RuleOrder), c.scope \in Scopes[r],
         NEW m \in Range(RuleScan(c, r, Normalize(t).text))
  PROVE  \E f \in Range(Scan(c, rules, t)[1]) : f.rule = m.rule /\ f.action = m.action
PROOF
  <1> DEFINE normal == Normalize(t)
  <1>1. PICK matches :
            /\ SpansFit(matches, normal.text)
            /\ Scan(c, rules, t) = <<SortFindings(Originals(normal, matches))>>
            /\ m \in Range(matches)
    BY ScanPlaces
  <1>2. LeadsBack(normal, Len(t))
    BY NormalizeLeadsBack
  <1> HIDE DEF normal
  <1>3. SpansFit(Originals(normal, matches), t)
    BY <1>1, <1>2, OriginalsFit
  <1> DEFINE placed == Originals(normal, matches)
  <1>4. PICK k \in DOMAIN matches : m = matches[k]
    BY <1>1 DEF Range
  <1>5. k \in DOMAIN placed /\ placed[k] = Original(normal, m)
    BY <1>4 DEF Originals
  <1>6. m \in Finding
    BY <1>1, <1>4 DEF SpansFit
  <1>7. placed[k].rule = m.rule /\ placed[k].action = m.action
    BY <1>5, <1>6 DEF Original, Finding
  <1> HIDE DEF placed
  <1>8. placed[k] \in Range(SortFindings(placed))
    <2>1. placed \in Seq(Finding) /\ placed[k] \in Range(placed)
      BY <1>3, <1>5 DEF SpansFit, Range, placed
    <2>2. QED
      BY <2>1, FindingsSorted
  <1>9. Scan(c, rules, t)[1] = SortFindings(placed)
    BY <1>1 DEF placed
  <1>10. QED
    BY <1>7, <1>8, <1>9

-----------------------------------------------------------------------------
(* What the decoder of a JSON document has of it.                          *)
Modes == {"value", "first", "after", "string", "number"}
Decoder == [mode : Modes, depth : Int, from : Nat, at : Nat, error : Int]

(* What the decoder takes the next character for. *)
Expected(mode, c) == IF mode = "number" /\ c \notin JSONDigits THEN "after" ELSE mode

(* Where it goes on from there. *)
Unreadable == [mode |-> "error", depth |-> 0]

Reads(mode, depth, c) ==
    LET m == Expected(mode, c) IN
    IF m = "number" THEN [mode |-> "number", depth |-> depth]
    ELSE IF m = "string"
    THEN IF c = Quote THEN [mode |-> "after", depth |-> depth]
         ELSE IF c \in LineEnds THEN Unreadable ELSE [mode |-> "string", depth |-> depth]
    ELSE IF c \in LineEnds \cup {" "} THEN [mode |-> m, depth |-> depth]
    ELSE IF m \in {"value", "first"} /\ c \in JSONDigits THEN [mode |-> "number", depth |-> depth]
    ELSE IF m \in {"value", "first"} /\ c = Quote THEN [mode |-> "string", depth |-> depth]
    ELSE IF m \in {"value", "first"} /\ c = "[" THEN [mode |-> "first", depth |-> depth + 1]
    ELSE IF depth > 0 /\ m \in {"first", "after"} /\ c = "]" THEN [mode |-> "after", depth |-> depth - 1]
    ELSE IF depth > 0 /\ m = "after" /\ c = "," THEN [mode |-> "value", depth |-> depth]
    ELSE Unreadable

(* One field of a decoder changes. *)
LEMMA DecoderUpdated ==
  ASSUME NEW s \in Decoder, NEW x
  PROVE  /\ /\ x \in Nat => [s EXCEPT !.at = x] \in Decoder
            /\ [s EXCEPT !.at = x].mode = s.mode /\ [s EXCEPT !.at = x].depth = s.depth
            /\ [s EXCEPT !.at = x].error = s.error
         /\ /\ x \in Nat => [s EXCEPT !.from = x] \in Decoder
            /\ [s EXCEPT !.from = x].mode = s.mode /\ [s EXCEPT !.from = x].depth = s.depth
            /\ [s EXCEPT !.from = x].error = s.error
         /\ /\ x \in Int => [s EXCEPT !.error = x] \in Decoder
            /\ [s EXCEPT !.error = x].error = x
         /\ /\ x \in Modes => [s EXCEPT !.mode = x] \in Decoder
            /\ [s EXCEPT !.mode = x].mode = x /\ [s EXCEPT !.mode = x].depth = s.depth
            /\ [s EXCEPT !.mode = x].error = s.error
PROOF
  BY DEF Decoder

(* The same of the depth of the brackets that are open.                    *)
LEMMA DecoderDeeper ==
  ASSUME NEW s \in Decoder, NEW x \in Int
  PROVE  /\ [s EXCEPT !.depth = x] \in Decoder
         /\ [s EXCEPT !.depth = x].mode = s.mode /\ [s EXCEPT !.depth = x].depth = x
         /\ [s EXCEPT !.depth = x].error = s.error
PROOF
  BY DEF Decoder

(* What the decoder makes of a character: it stays where it was told, and  *)
(* an error it has met stays; otherwise it goes where Reads says.          *)
LEMMA DecodeReads ==
  ASSUME NEW s \in Decoder, NEW c
  PROVE  /\ Decode(s, c) \in Decoder
         /\ s.error # Valid => Decode(s, c).error # Valid
         /\ s.error = Valid =>
              LET r == Reads(s.mode, s.depth, c)
              IN  IF r.mode = "error" THEN Decode(s, c).error # Valid
                  ELSE /\ Decode(s, c).error = Valid
                       /\ Decode(s, c).mode = r.mode /\ Decode(s, c).depth = r.depth
PROOF
  <1> DEFINE m == Expected(s.mode, c)
             r == Reads(s.mode, s.depth, c)
             next == [s EXCEPT !.at = s.at + 1]
             to(k) == [next EXCEPT !.mode = k]
             fail(p) == [next EXCEPT !.error = p]
             number == [to("number") EXCEPT !.from = s.at]
             string == [to("string") EXCEPT !.from = s.at]
             array == [to("first") EXCEPT !.depth = to("first").depth + 1]
             end == [to("after") EXCEPT !.depth = to("after").depth - 1]
             more == [to("value") EXCEPT !.from = s.at]
             place == m \in {"value", "first"}
             inside == s.depth > 0
             d == Decode(s, c)
             Is(u, k, dep) == u \in Decoder /\ u.mode = k /\ u.depth = dep /\ u.error = s.error
  <1>1. /\ s.mode \in Modes /\ s.depth \in Int /\ s.from \in Nat /\ s.at \in Nat /\ s.error \in Int
        /\ s.from # Valid /\ s.at # Valid /\ Valid \in Int /\ s.from \in Int /\ s.at \in Int
        /\ m \in Modes /\ s.at + 1 \in Nat
        /\ "number" \in Modes /\ "after" \in Modes /\ "string" \in Modes /\ "first" \in Modes
        /\ "value" \in Modes /\ "error" \notin Modes /\ s.depth + 1 \in Int /\ s.depth - 1 \in Int
    BY DEF Decoder, Valid, Expected, Modes
  <1>2. Is(next, s.mode, s.depth)
    BY <1>1, DecoderUpdated
  <1>8. d = IF s.error # Valid \/ m = "number" THEN next
            ELSE IF m = "string"
            THEN IF c = Quote THEN to("after") ELSE IF c \in LineEnds THEN fail(s.at) ELSE next
            ELSE IF c \in LineEnds \cup {" "} THEN to(m)
            ELSE CASE place /\ c \in JSONDigits -> number
                   [] place /\ c = Quote -> string
                   [] place /\ c = "[" -> array
                   [] inside /\ m \in {"first", "after"} /\ c = "]" -> end
                   [] inside /\ m = "after" /\ c = "," -> more
                   [] inside /\ m = "value" /\ c = "]" -> fail(s.from)
                   [] OTHER -> fail(s.at)
    BY Zenon DEF Decode, Expected
  <1> HIDE DEF next
  <1>3. \A k \in Modes : Is(to(k), k, s.depth)
    BY <1>2, DecoderUpdated
  <1>4. \A p \in Int : fail(p) \in Decoder /\ fail(p).error = p
    BY <1>2, DecoderUpdated
  <1> HIDE DEF to, fail
  <1> DEFINE from(u) == [u EXCEPT !.from = s.at]
             deeper(u, x) == [u EXCEPT !.depth = x]
  <1>5. ASSUME NEW u, NEW k, Is(u, k, s.depth)
        PROVE  Is(from(u), k, s.depth) /\ \A x \in Int : Is(deeper(u, x), k, x)
    <2>1. Is(from(u), k, s.depth)
      BY <1>1, <1>5, DecoderUpdated
    <2>2. ASSUME NEW x \in Int
          PROVE  Is(deeper(u, x), k, x)
      BY <1>5, DecoderDeeper
    <2>3. QED
      BY <2>1, <2>2
  <1>6. /\ number = from(to("number")) /\ string = from(to("string")) /\ more = from(to("value"))
        /\ array = deeper(to("first"), s.depth + 1) /\ end = deeper(to("after"), s.depth - 1)
    <2>1. to("first").depth = s.depth /\ to("after").depth = s.depth
      BY <1>1, <1>3
    <2>2. QED
      BY <2>1
  <1> HIDE DEF from, deeper
  <1>7. /\ Is(number, "number", s.depth) /\ Is(string, "string", s.depth)
        /\ Is(more, "value", s.depth) /\ Is(array, "first", s.depth + 1)
        /\ Is(end, "after", s.depth - 1)
    <2>1. /\ Is(to("number"), "number", s.depth) /\ Is(to("string"), "string", s.depth)
          /\ Is(to("value"), "value", s.depth) /\ Is(to("first"), "first", s.depth)
          /\ Is(to("after"), "after", s.depth)
      BY <1>1, <1>3
    <2> HIDE DEF number, string, more, array, end, Is
    <2>2. QED
      BY <1>1, <1>5, <1>6, <2>1
  <1> HIDE DEF d, r, number, string, array, end, more
  <1>10. d \in Decoder /\ (s.error # Valid => d.error # Valid)
    BY <1>1, <1>2, <1>3, <1>4, <1>7, <1>8
  <1>11. ASSUME s.error = Valid
         PROVE  IF r.mode = "error" THEN d.error # Valid
                ELSE d.error = Valid /\ d.mode = r.mode /\ d.depth = r.depth
    <2>1. m = "number" => d = next /\ s.mode = "number"
      BY <1>8, <1>11 DEF Expected
    <2>2. m = "string" => s.mode = "string"
      BY DEF Expected
    <2> HIDE DEF m
    <2>3. CASE m = "number"
      <3>1. r = [mode |-> "number", depth |-> s.depth]
        BY <2>3 DEF Reads, Unreadable, m, r
      <3>2. QED
        BY <1>2, <1>11, <2>1, <2>3, <3>1
    <2>4. CASE m = "string"
      <3>1. r = IF c = Quote THEN [mode |-> "after", depth |-> s.depth]
                ELSE IF c \in LineEnds THEN Unreadable ELSE [mode |-> "string", depth |-> s.depth]
        BY <2>4 DEF Reads, Unreadable, m, r
      <3>2. d = IF c = Quote THEN to("after") ELSE IF c \in LineEnds THEN fail(s.at) ELSE next
        BY <1>8, <1>11, <2>4
      <3>3. QED
        BY <1>1, <1>2, <1>3, <1>4, <1>11, <2>2, <2>4, <3>1, <3>2 DEF Unreadable
    <2>5. CASE m \notin {"number", "string"} /\ c \in LineEnds \cup {" "}
      <3>1. r = [mode |-> m, depth |-> s.depth]
        BY <2>5 DEF Reads, Unreadable, m, r
      <3>2. d = to(m)
        BY <1>8, <1>11, <2>5
      <3>3. QED
        BY <1>1, <1>3, <1>11, <3>1, <3>2
    <2>6. CASE m \notin {"number", "string"} /\ c \notin LineEnds \cup {" "}
      <3>1. r = IF place /\ c \in JSONDigits THEN [mode |-> "number", depth |-> s.depth]
                ELSE IF place /\ c = Quote THEN [mode |-> "string", depth |-> s.depth]
                ELSE IF place /\ c = "[" THEN [mode |-> "first", depth |-> s.depth + 1]
                ELSE IF inside /\ m \in {"first", "after"} /\ c = "]" THEN [mode |-> "after", depth |-> s.depth - 1]
                ELSE IF inside /\ m = "after" /\ c = "," THEN [mode |-> "value", depth |-> s.depth]
                ELSE Unreadable
        BY <2>6 DEF Reads, Unreadable, m, r
      <3>2. d = CASE place /\ c \in JSONDigits -> number
                   [] place /\ c = Quote -> string
                   [] place /\ c = "[" -> array
                   [] inside /\ m \in {"first", "after"} /\ c = "]" -> end
                   [] inside /\ m = "after" /\ c = "," -> more
                   [] inside /\ m = "value" /\ c = "]" -> fail(s.from)
                   [] OTHER -> fail(s.at)
        BY <1>8, <1>11, <2>6
      <3>3. CASE r.mode = "error"
        <4>1. d = fail(s.from) \/ d = fail(s.at)
          BY <3>1, <3>2, <3>3 DEF Modes
        <4>2. QED
          BY <1>1, <1>4, <3>3, <4>1
      <3>4. CASE r.mode # "error"
        <4>1. /\ place /\ c \in JSONDigits => d = number /\ r = [mode |-> "number", depth |-> s.depth]
              /\ place /\ c = Quote => d = string /\ r = [mode |-> "string", depth |-> s.depth]
              /\ place /\ c = "[" => d = array /\ r = [mode |-> "first", depth |-> s.depth + 1]
              /\ inside /\ m \in {"first", "after"} /\ c = "]" => d = end /\ r = [mode |-> "after", depth |-> s.depth - 1]
              /\ inside /\ m = "after" /\ c = "," => d = more /\ r = [mode |-> "value", depth |-> s.depth]
          BY <3>1, <3>2 DEF JSONDigits, Quote, Unreadable
        <4>2. \/ place /\ c \in JSONDigits
              \/ place /\ c = Quote
              \/ place /\ c = "["
              \/ inside /\ m \in {"first", "after"} /\ c = "]"
              \/ inside /\ m = "after" /\ c = ","
          BY <3>1, <3>4 DEF Unreadable
        <4>3. ASSUME NEW u, NEW k, NEW dep, Is(u, k, dep), d = u, r = [mode |-> k, depth |-> dep]
              PROVE  d.error = Valid /\ d.mode = r.mode /\ d.depth = r.depth
          BY <1>11, <4>3
        <4>4. d.error = Valid /\ d.mode = r.mode /\ d.depth = r.depth
          <5> HIDE DEF Is
          <5>1. CASE place /\ c \in JSONDigits
            BY <1>7, <4>1, <4>3, <5>1
          <5>2. CASE place /\ c = Quote
            BY <1>7, <4>1, <4>3, <5>2
          <5>3. CASE place /\ c = "["
            BY <1>7, <4>1, <4>3, <5>3
          <5>4. CASE inside /\ m \in {"first", "after"} /\ c = "]"
            BY <1>7, <4>1, <4>3, <5>4
          <5>5. CASE inside /\ m = "after" /\ c = ","
            BY <1>7, <4>1, <4>3, <5>5
          <5>6. QED
            BY <4>2, <5>1, <5>2, <5>3, <5>4, <5>5
        <4>5. QED
          BY <3>4, <4>4
      <3>5. QED
        BY <3>3, <3>4
    <2>7. QED
      BY <2>3, <2>4, <2>5, <2>6
  <1>12. QED
    BY <1>10, <1>11 DEF d, r

(* What the check of the brackets has of a document. *)
Checker(L) == [limits : L, quoted : BOOLEAN, depth : Int, structure : Int, at : Nat, error : Int]

Opened(s, c) == ~s.quoted /\ c = "["

Deeper(s, c) ==
    IF Opened(s, c) THEN s.depth + 1 ELSE IF ~s.quoted /\ c = "]" THEN s.depth - 1 ELSE s.depth

Longer(s, c) == IF Opened(s, c) \/ (~s.quoted /\ c = ",") THEN s.structure + 1 ELSE s.structure

TooMuch(s, c) == \/ Opened(s, c) /\ Deeper(s, c) > s.limits.depth
                 \/ Longer(s, c) > s.limits.structure

(* What the check of the brackets (JSONOutputRule._preflight) makes of a   *)
(* character, as a record.                                                 *)
LEMMA PreflightReads ==
  ASSUME NEW L, NEW s \in Checker(L), NEW c
  PROVE  LET u == PreflightStep(s, c)
         IN  /\ u \in Checker(L) /\ u.limits = s.limits
             /\ u.quoted = (IF c = Quote THEN ~s.quoted ELSE s.quoted)
             /\ u.depth = Deeper(s, c) /\ u.structure = Longer(s, c)
             /\ u.error = Valid <=> s.error = Valid /\ ~TooMuch(s, c)
PROOF
  <1> DEFINE quoted == IF c = Quote THEN ~s.quoted ELSE s.quoted
             error == IF s.error = Valid /\ TooMuch(s, c) THEN s.at ELSE s.error
             d == Deeper(s, c)
             n == Longer(s, c)
             u == [s EXCEPT !.at = s.at + 1, !.quoted = quoted, !.depth = d, !.structure = n,
                            !.error = error]
  <1>1. PreflightStep(s, c) = u
    BY DEF PreflightStep, Opened, Deeper, Longer, TooMuch
  <1>2. /\ s.limits \in L /\ s.quoted \in BOOLEAN /\ s.depth \in Int /\ s.structure \in Int
        /\ s.at \in Nat /\ s.error \in Int /\ s.at # Valid
    BY DEF Checker, Valid
  <1>3. quoted \in BOOLEAN
    BY <1>2
  <1>7. error \in Int /\ s.at + 1 \in Nat
    BY <1>2
  <1>8. error = Valid <=> s.error = Valid /\ ~TooMuch(s, c)
    BY <1>2
  <1>6. d \in Int
    BY <1>2 DEF Deeper
  <1>9. n \in Int
    <2>1. n = s.structure + 1 \/ n = s.structure
      BY Zenon DEF Longer
    <2>2. QED
      BY <1>2, <2>1
  <1> HIDE DEF quoted, error, d, n
  <1>4. /\ u \in Checker(L) /\ u.limits = s.limits /\ u.quoted = quoted /\ u.depth = d
        /\ u.structure = n /\ u.error = error
    BY <1>2, <1>3, <1>6, <1>7, <1>9 DEF Checker
  <1>5. QED
    BY <1>1, <1>4, <1>8 DEF quoted, d, n

-----------------------------------------------------------------------------
(* A line ending is read alike in each form, and not inside a string.      *)
LEMMA LineEndsRead ==
  ASSUME NEW mode \in Modes, NEW depth
  PROVE  /\ Reads(mode, depth, "CR") = Reads(mode, depth, "LF")
         /\ Reads(mode, depth, "CR").mode \notin {"string", "number"}
         /\ mode \notin {"string", "number"} =>
               Reads(mode, depth, "LF") = [mode |-> mode, depth |-> depth]
PROOF
  <1>1. /\ "CR" \notin JSONDigits /\ "LF" \notin JSONDigits /\ "CR" # Quote /\ "LF" # Quote
        /\ "CR" \in LineEnds /\ "LF" \in LineEnds
    BY DEF JSONDigits, Quote, LineEnds
  <1>2. CASE mode = "string"
    BY <1>1, <1>2 DEF Reads, Expected, Unreadable
  <1>3. CASE mode = "number"
    BY <1>1, <1>3 DEF Reads, Expected, Unreadable
  <1>4. CASE mode \notin {"string", "number"}
    BY <1>1, <1>4 DEF Reads, Expected, Unreadable
  <1>5. QED
    BY <1>2, <1>3, <1>4

(* What a decoder that reads a text and one that reads it with other line  *)
(* endings have in common.                                                 *)
Alike(d, e) == d.error = Valid => e.error = Valid /\ e.mode = d.mode /\ e.depth = d.depth

(* They go on alike; c is the next character, x what it is normalised to.  *)
LEMMA DecodeAlike ==
  ASSUME NEW d \in Decoder, NEW e \in Decoder, Alike(d, e), NEW c, NEW x,
         x = IF c = "CR" THEN "LF" ELSE c
  PROVE  /\ Alike(Decode(d, c), Decode(e, x))
         /\ c = "CR" /\ Decode(d, c).error = Valid => Decode(d, c).mode \notin {"string", "number"}
PROOF
  <1> SUFFICES ASSUME Decode(d, c).error = Valid
               PROVE  /\ Alike(Decode(d, c), Decode(e, x))
                      /\ c = "CR" => Decode(d, c).mode \notin {"string", "number"}
    BY DEF Alike
  <1>1. d.error = Valid /\ e.error = Valid /\ e.mode = d.mode /\ e.depth = d.depth /\ d.mode \in Modes
    BY DecodeReads DEF Alike, Decoder
  <1> DEFINE r == Reads(d.mode, d.depth, c)
             q == Reads(e.mode, e.depth, x)
  <1>2. q = r /\ (c = "CR" => r.mode \notin {"string", "number"})
    BY <1>1, LineEndsRead
  <1>3. /\ r.mode # "error" /\ Decode(d, c).mode = r.mode /\ Decode(d, c).depth = r.depth
    BY <1>1, DecodeReads
  <1>4. q.mode # "error" => Decode(e, x).error = Valid /\ Decode(e, x).mode = q.mode /\ Decode(e, x).depth = q.depth
    BY <1>1, DecodeReads
  <1> HIDE DEF q, r
  <1>5. QED
    BY <1>2, <1>3, <1>4 DEF Alike

(* The second character of a line ending changes nothing.                  *)
LEMMA DecodePast ==
  ASSUME NEW d \in Decoder, NEW e, Alike(d, e),
         d.error = Valid => d.mode \notin {"string", "number"}
  PROVE  Alike(Decode(d, "LF"), e)
PROOF
  <1> SUFFICES ASSUME Decode(d, "LF").error = Valid
               PROVE  Alike(Decode(d, "LF"), e)
    BY DEF Alike
  <1>1. d.error = Valid /\ d.mode \in Modes
    BY DecodeReads DEF Decoder
  <1>2. Reads(d.mode, d.depth, "LF") = [mode |-> d.mode, depth |-> d.depth]
    BY <1>1, LineEndsRead
  <1>3. Decode(d, "LF").mode = d.mode /\ Decode(d, "LF").depth = d.depth
    BY <1>1, <1>2, DecodeReads DEF Modes
  <1>4. QED
    BY <1>1, <1>3 DEF Alike

(* The same of the check of the brackets.                                  *)
Level(s, u) ==
    /\ u.limits = s.limits /\ u.quoted = s.quoted /\ u.depth = s.depth /\ u.structure = s.structure
    /\ s.error = Valid => u.error = Valid

(* Two checks that stand alike still do once one has read a character and  *)
(* the other what NormalizeText puts in its place.                         *)
LEMMA PreflightAlike ==
  ASSUME NEW L, NEW s \in Checker(L), NEW u \in Checker(L), Level(s, u), NEW c, NEW x,
         x = IF c = "CR" THEN "LF" ELSE c
  PROVE  Level(PreflightStep(s, c), PreflightStep(u, x))
PROOF
  <1> DEFINE v == PreflightStep(s, c)
             w == PreflightStep(u, x)
  <1>1. x # c => x = "LF" /\ c = "CR"
    OBVIOUS
  <1>2. (x = "[" <=> c = "[") /\ (x = "]" <=> c = "]") /\ (x = "," <=> c = ",") /\ (x = Quote <=> c = Quote)
    BY <1>1 DEF Quote
  <1>3. s.quoted \in BOOLEAN /\ u.quoted = s.quoted
    BY DEF Checker, Level
  <1>4. Opened(u, x) <=> Opened(s, c)
    BY <1>2, <1>3 DEF Opened
  <1>5. Deeper(u, x) = Deeper(s, c)
    BY <1>2, <1>3, <1>4 DEF Deeper, Level
  <1>6. Longer(u, x) = Longer(s, c)
    BY <1>2, <1>3, <1>4 DEF Longer, Level
  <1>7. TooMuch(u, x) <=> TooMuch(s, c)
    BY <1>4, <1>5, <1>6 DEF TooMuch, Level
  <1>8. /\ v.limits = s.limits
        /\ v.quoted = (IF c = Quote THEN ~s.quoted ELSE s.quoted)
        /\ v.depth = Deeper(s, c) /\ v.structure = Longer(s, c)
        /\ v.error = Valid <=> s.error = Valid /\ ~TooMuch(s, c)
    BY PreflightReads
  <1>9. /\ w.limits = u.limits
        /\ w.quoted = (IF x = Quote THEN ~u.quoted ELSE u.quoted)
        /\ w.depth = Deeper(u, x) /\ w.structure = Longer(u, x)
        /\ w.error = Valid <=> u.error = Valid /\ ~TooMuch(u, x)
    BY PreflightReads
  <1> HIDE DEF v, w
  <1>10. w.quoted = v.quoted
    BY <1>2, <1>3, <1>8, <1>9
  <1>11. Level(v, w)
    BY <1>5, <1>6, <1>7, <1>8, <1>9, <1>10 DEF Level
  <1>12. QED
    BY <1>11 DEF v, w

(* A line feed that NormalizeText drops changes nothing for the check.      *)
LEMMA PreflightPast ==
  ASSUME NEW L, NEW s \in Checker(L), NEW u, Level(s, u)
  PROVE  Level(PreflightStep(s, "LF"), u)
PROOF
  <1> DEFINE v == PreflightStep(s, "LF")
  <1>1. "LF" # Quote
    BY DEF Quote
  <1>2. ~Opened(s, "LF") /\ Deeper(s, "LF") = s.depth /\ Longer(s, "LF") = s.structure
    BY DEF Opened, Deeper, Longer
  <1>3. /\ v.limits = s.limits /\ v.quoted = s.quoted
        /\ v.depth = s.depth /\ v.structure = s.structure
        /\ v.error = Valid => s.error = Valid
    BY <1>1, <1>2, PreflightReads
  <1> HIDE DEF v
  <1>4. Level(v, u)
    BY <1>3 DEF Level
  <1>5. QED
    BY <1>4 DEF v

-----------------------------------------------------------------------------
(* What the loops over a text and over its normalised form have after as   *)
(* many characters.                                                        *)
Beginning == [mode |-> "value", depth |-> 0, from |-> 0, at |-> 0, error |-> Valid]

Unchecked(json) == [limits |-> json, quoted |-> FALSE, depth |-> 0, structure |-> 0,
                    at |-> 0, error |-> Valid]

Decoded(w) == Decoding!Folded(Beginning, w)
Checked(json, w) == Preflighting!Folded(Unchecked(json), w)

InStep(T, json, acc, d, s, k) ==
    /\ acc.text \in Seq(T) /\ Len(acc.text) <= k
    /\ d \in Decoder /\ Decoded(acc.text) \in Decoder /\ Alike(d, Decoded(acc.text))
    /\ acc.afterCR /\ d.error = Valid => d.mode \notin {"string", "number"}
    /\ s \in Checker({json}) /\ Checked(json, acc.text) \in Checker({json})
    /\ Level(s, Checked(json, acc.text))

(* They are in step at the beginning.                                      *)
LEMMA InStepFirst ==
  ASSUME NEW T, NEW json
  PROVE  InStep(T, json, [text |-> <<>>, boundaries |-> <<0>>, afterCR |-> FALSE], Beginning,
                Unchecked(json), 0)
PROOF
  <1> DEFINE empty == <<>>
             acc == [text |-> empty, boundaries |-> <<0>>, afterCR |-> FALSE]
             n == 0
  <1>1. n \in Nat /\ empty \in Seq(T) /\ DOMAIN empty = 1 .. n /\ Len(empty) = 0
    OBVIOUS
  <1>2. acc.text = empty /\ acc.afterCR = FALSE
    OBVIOUS
  <1> HIDE DEF empty, n, acc
  <1>3. Decoded(empty) = Beginning
    <2>1. PICK f : Decoding!IsTrace(f, Beginning, empty, n)
      BY <1>1, Decoding!FoldTrace, Zenon
    <2>2. QED
      BY <2>1 DEF Decoding!IsTrace, Decoded, n
  <1>4. Checked(json, empty) = Unchecked(json)
    <2>1. PICK f : Preflighting!IsTrace(f, Unchecked(json), empty, n)
      BY <1>1, Preflighting!FoldTrace, Zenon
    <2>2. QED
      BY <2>1 DEF Preflighting!IsTrace, Checked, n
  <1>5. Beginning \in Decoder
    BY DEF Beginning, Decoder, Valid, Modes
  <1>6. Unchecked(json) \in Checker({json})
    BY DEF Unchecked, Checker, Valid
  <1>7. Alike(Beginning, Beginning) /\ Level(Unchecked(json), Unchecked(json))
    BY DEF Alike, Level
  <1>8. InStep(T, json, acc, Beginning, Unchecked(json), 0)
    BY <1>1, <1>2, <1>3, <1>4, <1>5, <1>6, <1>7 DEF InStep
  <1>9. QED
    BY <1>8 DEF acc, empty

(* And stay so with each character.                                        *)
LEMMA InStepNext ==
  ASSUME NEW T, "LF" \in T, NEW json, NEW acc, NEW d, NEW s, NEW k \in Nat, NEW c \in T,
         InStep(T, json, acc, d, s, k)
  PROVE  InStep(T, json, NormalizeStep(acc, c), Decode(d, c), PreflightStep(s, c), k + 1)
PROOF
  <1> DEFINE w == acc.text
             e == Decoded(w)
             u == Checked(json, w)
             d2 == Decode(d, c)
             s2 == PreflightStep(s, c)
             next == NormalizeStep(acc, c)
  <1>1. /\ w \in Seq(T) /\ Len(w) <= k /\ Len(w) \in Nat
        /\ d \in Decoder /\ e \in Decoder /\ Alike(d, e)
        /\ acc.afterCR /\ d.error = Valid => d.mode \notin {"string", "number"}
        /\ s \in Checker({json}) /\ u \in Checker({json}) /\ Level(s, u)
    BY DEF InStep
  <1>2. d2 \in Decoder /\ s2 \in Checker({json}) /\ (d2.error = Valid => d.error = Valid)
    BY <1>1, DecodeReads, PreflightReads
  <1>3. CASE c = "LF" /\ acc.afterCR
    <2>1. next.text = w /\ next.afterCR = FALSE
      BY <1>3 DEF NormalizeStep
    <2>2. Alike(d2, e) /\ Level(s2, u)
      BY <1>1, <1>3, DecodePast, PreflightPast
    <2> HIDE DEF d2, s2, next
    <2>3. InStep(T, json, next, d2, s2, k + 1)
      BY <1>1, <1>2, <2>1, <2>2 DEF InStep
    <2>4. QED
      BY <2>3 DEF d2, s2, next
  <1>4. CASE ~(c = "LF" /\ acc.afterCR)
    <2> DEFINE x == IF c = "CR" THEN "LF" ELSE c
               v == Append(w, x)
               e2 == Decode(e, x)
               u2 == PreflightStep(u, x)
    <2>1. next.text = v /\ next.afterCR = (c = "CR") /\ x \in T
      BY <1>4 DEF NormalizeStep
    <2>2. v \in Seq(T) /\ Len(v) <= k + 1
      BY <1>1, <2>1, AppendProperties
    <2>3. Alike(d2, e2) /\ (c = "CR" /\ d2.error = Valid => d2.mode \notin {"string", "number"})
      BY <1>1, DecodeAlike
    <2>4. Level(s2, u2)
      BY <1>1, PreflightAlike
    <2>5. e2 \in Decoder /\ u2 \in Checker({json})
      BY <1>1, DecodeReads, PreflightReads
    <2>6. Decoded(v) = e2
      BY <1>1, <2>1, Decoding!FoldMore DEF Decoded
    <2>7. Checked(json, v) = u2
      BY <1>1, <2>1, Preflighting!FoldMore DEF Checked
    <2> HIDE DEF d2, s2, next, e2, u2, v, x
    <2>8. InStep(T, json, next, d2, s2, k + 1)
      BY <1>2, <2>1, <2>2, <2>3, <2>4, <2>5, <2>6, <2>7 DEF InStep
    <2>9. QED
      BY <2>8 DEF d2, s2, next
  <1>5. QED
    BY <1>3, <1>4

(* A document is read without an error exactly when the loops end so.      *)
LEMMA JSONScanIs ==
  ASSUME NEW json, json.document \in Nat, NEW T, NEW w \in Seq(T), Decoded(w) \in Decoder
  PROVE  JSONScan(json, w) = <<>> <=>
            /\ Len(w) <= json.document /\ Checked(json, w).error = Valid
            /\ Decoded(w).error = Valid /\ Decoded(w).mode \in {"after", "number"}
            /\ Decoded(w).depth = 0
PROOF
  <1> DEFINE d == Decoded(w)
             p == Preflight(json, w)
             position == CASE Len(w) > json.document -> json.document
                           [] Len(w) <= json.document /\ p # Valid -> p
                           [] OTHER -> DecodeError(w)
  <1>1. p = Checked(json, w).error
    BY DEF Preflight, Checked, Unchecked, FoldLeft, MapThenFoldSet, Preflighting!Folded,
           Preflighting!FoldLeft, Preflighting!MapThenFoldSet, Preflighting!Max, Max
  <1>2. DecodeError(w) =
            (CASE d.error # Valid -> d.error
               [] d.error = Valid /\ d.mode = "string" -> d.from
               [] d.error = Valid /\ d.mode \in {"after", "number"} /\ d.depth = 0 -> Valid
               [] OTHER -> Len(w))
    BY DEF DecodeError, Decoded, Beginning, FoldLeft, MapThenFoldSet, Decoding!Folded,
           Decoding!FoldLeft, Decoding!MapThenFoldSet, Decoding!Max, Max
  <1>3. /\ d.from # Valid /\ Len(w) # Valid /\ json.document # Valid /\ Len(w) \in Nat
    BY DEF Decoder, Valid
  <1>4. JSONScan(json, w) = <<>> <=> position = Valid
    BY DEF JSONScan
  <1> HIDE DEF d, p
  <1>5. DecodeError(w) = Valid <=>
            d.error = Valid /\ d.mode \in {"after", "number"} /\ d.depth = 0
    BY <1>2, <1>3
  <1>6. position = Valid <=> Len(w) <= json.document /\ p = Valid /\ DecodeError(w) = Valid
    BY <1>3
  <1>7. QED
    BY <1>1, <1>4, <1>5, <1>6 DEF d

(* Text that is valid JSON still is when its line endings are normalised.  *)
LEMMA NormalizedIsJSON ==
  ASSUME NEW T, "LF" \in T, NEW t \in Seq(T), NEW json, json.document \in Nat,
         JSONScan(json, t) = <<>>
  PROVE  JSONScan(json, Normalize(t).text) = <<>>
PROOF
  <1> DEFINE n == Len(t)
             base == [text |-> <<>>, boundaries |-> <<0>>, afterCR |-> FALSE]
             normal == Normalizing!Folded(base, t)
  <1>1. n \in Nat /\ DOMAIN t = 1 .. n /\ \A i \in 1 .. n : t[i] \in T
    OBVIOUS
  <1>2. Normalize(t) = normal
    BY DEF Normalize, FoldLeft, MapThenFoldSet, Normalizing!Folded, Normalizing!FoldLeft,
           Normalizing!MapThenFoldSet, Normalizing!Max, Max
  <1>3. InStep(T, json, base, Beginning, Unchecked(json), 0)
    BY InStepFirst
  <1> HIDE DEF n, base
  <1>4. PICK f : Normalizing!IsTrace(f, base, t, n)
    BY <1>1, Normalizing!FoldTrace, Zenon
  <1>5. PICK g : Decoding!IsTrace(g, Beginning, t, n)
    BY <1>1, Decoding!FoldTrace, Zenon
  <1>6. PICK h : Preflighting!IsTrace(h, Unchecked(json), t, n)
    BY <1>1, Preflighting!FoldTrace, Zenon
  <1> DEFINE S == {k \in 0 .. n : InStep(T, json, f[k], g[k], h[k], k)}
  <1>7. 0 \in S
    BY <1>1, <1>3, <1>4, <1>5, <1>6
    DEF Normalizing!IsTrace, Decoding!IsTrace, Preflighting!IsTrace
  <1>8. \A k \in 1 .. n : k - 1 \in S => k \in S
    <2>1. ASSUME NEW k \in 1 .. n, InStep(T, json, f[k - 1], g[k - 1], h[k - 1], k - 1)
          PROVE  InStep(T, json, f[k], g[k], h[k], k)
      <3>1. k - 1 \in Nat /\ (k - 1) + 1 = k /\ t[k] \in T
        BY <1>1
      <3>2. /\ f[k] = NormalizeStep(f[k - 1], t[k]) /\ g[k] = Decode(g[k - 1], t[k])
            /\ h[k] = PreflightStep(h[k - 1], t[k])
        BY <1>4, <1>5, <1>6 DEF Normalizing!IsTrace, Decoding!IsTrace, Preflighting!IsTrace
      <3>3. InStep(T, json, NormalizeStep(f[k - 1], t[k]), Decode(g[k - 1], t[k]),
                   PreflightStep(h[k - 1], t[k]), (k - 1) + 1)
        BY <2>1, <3>1, InStepNext
      <3>4. QED
        BY <3>1, <3>2, <3>3
    <2>2. QED
      BY <2>1
  <1>9. InStep(T, json, normal, Decoded(t), Checked(json, t), n)
    <2>1. n \in S
      <3>1. \A k \in 0 .. n : k \in S
        <4> HIDE DEF S
        <4>1. QED
          BY <1>1, <1>7, <1>8, Normalizing!InductionTo
      <3>2. n \in 0 .. n
        BY <1>1
      <3> HIDE DEF S
      <3>3. QED
        BY <3>1, <3>2
    <2>2. normal = f[n] /\ Decoded(t) = g[n] /\ Checked(json, t) = h[n]
      BY <1>4, <1>5, <1>6
      DEF Normalizing!IsTrace, Decoding!IsTrace, Preflighting!IsTrace, Decoded, Checked
    <2> HIDE DEF normal
    <2>3. QED
      BY <2>1, <2>2
  <1> HIDE DEF normal
  <1>10. /\ Len(t) <= json.document /\ Checked(json, t).error = Valid
         /\ Decoded(t).error = Valid /\ Decoded(t).mode \in {"after", "number"}
         /\ Decoded(t).depth = 0
    BY <1>9, JSONScanIs DEF InStep
  <1>11. /\ Len(normal.text) <= json.document /\ Checked(json, normal.text).error = Valid
         /\ Decoded(normal.text).error = Valid /\ Decoded(normal.text).mode \in {"after", "number"}
         /\ Decoded(normal.text).depth = 0
    <2>1. Len(normal.text) <= Len(t) /\ Len(normal.text) \in Nat /\ Len(t) \in Nat
      BY <1>1, <1>9 DEF InStep, n
    <2>2. QED
      BY <1>9, <1>10, <2>1 DEF InStep, Alike, Level
  <1>12. normal.text \in Seq(T) /\ Decoded(normal.text) \in Decoder
    BY <1>9 DEF InStep
  <1>13. QED
    BY <1>2, <1>11, <1>12, JSONScanIs

-----------------------------------------------------------------------------
(* The strongest action of a set: it is one of them, or ALLOW, and blocks  *)
(* exactly when one of them does; below that, a removal or a redaction     *)
(* among them is seen in it.                                               *)
LEMMA StrongestAction ==
  ASSUME NEW S \in SUBSET Actions
  PROVE  /\ Strongest(S) \in Actions
         /\ \A b \in S : Priority[b] <= Priority[Strongest(S)]
         /\ Strongest(S) = "BLOCK" <=> "BLOCK" \in S
         /\ Strongest(S) \in {"ALLOW", "REVIEW"} => "REMOVE" \notin S /\ "REDACT" \notin S
PROOF
  <1> DEFINE P(a) == a \in S \cup {"ALLOW"} /\ \A b \in S : Priority[b] <= Priority[a]
             s == Strongest(S)
  <1>1. /\ Priority["ALLOW"] = 0 /\ Priority["REVIEW"] = 1 /\ Priority["REMOVE"] = 2
        /\ Priority["REDACT"] = 3 /\ Priority["BLOCK"] = 4
    BY DEF Priority, Actions
  <1>2. \A b \in S : b \in {"ALLOW", "REVIEW", "REMOVE", "REDACT", "BLOCK"}
    BY DEF Actions
  <1>3. \E a : P(a)
    <2>1. CASE "BLOCK" \in S
      <3>1. P("BLOCK")
        BY <1>1, <1>2, <2>1
      <3>2. QED
        BY <3>1
    <2>2. CASE "BLOCK" \notin S /\ "REDACT" \in S
      <3>1. P("REDACT")
        BY <1>1, <1>2, <2>2
      <3>2. QED
        BY <3>1
    <2>3. CASE "BLOCK" \notin S /\ "REDACT" \notin S /\ "REMOVE" \in S
      <3>1. P("REMOVE")
        BY <1>1, <1>2, <2>3
      <3>2. QED
        BY <3>1
    <2>4. CASE "BLOCK" \notin S /\ "REDACT" \notin S /\ "REMOVE" \notin S /\ "REVIEW" \in S
      <3>1. P("REVIEW")
        BY <1>1, <1>2, <2>4
      <3>2. QED
        BY <3>1
    <2>5. CASE S \subseteq {"ALLOW"}
      <3>1. P("ALLOW")
        BY <1>1, <2>5
      <3>2. QED
        BY <3>1
    <2>6. QED
      BY <1>2, <2>1, <2>2, <2>3, <2>4, <2>5
  <1>4. P(s)
    <2>1. s = CHOOSE a \in S \cup {"ALLOW"} : \A b \in S : Priority[b] <= Priority[a]
      BY DEF Strongest
    <2> HIDE DEF s
    <2>2. QED
      BY <1>3, <2>1
  <1> HIDE DEF s
  <1>5. s \in {"ALLOW", "REVIEW", "REMOVE", "REDACT", "BLOCK"}
    BY <1>2, <1>4
  <1>6. s = "BLOCK" <=> "BLOCK" \in S
    <2>1. "BLOCK" \in S => Priority["BLOCK"] <= Priority[s]
      BY <1>4
    <2>2. "BLOCK" \in S => s = "BLOCK"
      BY <1>1, <1>5, <2>1
    <2>3. s = "BLOCK" => "BLOCK" \in S
      BY <1>4
    <2>4. QED
      BY <2>2, <2>3
  <1>7. s \in {"ALLOW", "REVIEW"} => "REMOVE" \notin S /\ "REDACT" \notin S
    <2>1. Priority[s] <= 1 \/ s \notin {"ALLOW", "REVIEW"}
      BY <1>1
    <2>2. QED
      BY <1>1, <1>4, <2>1
  <1>8. s \in Actions
    BY <1>5 DEF Actions
  <1>9. QED
    BY <1>4, <1>6, <1>7, <1>8 DEF s

(* A result blocks exactly when its text is withheld, and otherwise its    *)
(* text is the given one as its findings leave it.                         *)
LEMMA Enforced ==
  ASSUME NEW t \in Seq(Characters), NEW e, SpansFit(e, t)
  PROVE  LET r == ApplyEffective(t, e)
         IN  /\ r.findings = e
             /\ r.decision = Strongest(ActionsOf(e))
             /\ r.decision = "BLOCK" <=> r.text = Blocked
             /\ r.text # Blocked => r.text = Uncovered(t, e)
PROOF
  <1> DEFINE T == Characters \cup {Marker}
             d == Strongest(ActionsOf(e))
             r == ApplyEffective(t, e)
             z == SanitizeFindings(t, e)
  <1>1. /\ e \in Seq(Finding) /\ \A f \in Range(e) : f \in Finding
        /\ \A f \in Range(e) : f.action \in Actions
    <2>1. e \in Seq(Finding) /\ \A f \in Range(e) : f \in Finding
      BY DEF SpansFit, Range
    <2>2. QED
      BY <2>1 DEF Finding
  <1>2. ActionsOf(e) \in SUBSET Actions
    BY <1>1 DEF ActionsOf
  <1>3. d \in Actions /\ (d \in {"ALLOW", "REVIEW"} => Changing(e) = {})
    <2>1. d \in {"ALLOW", "REVIEW"} => "REMOVE" \notin ActionsOf(e) /\ "REDACT" \notin ActionsOf(e)
      BY <1>2, StrongestAction
    <2>2. d \in Actions
      BY <1>2, StrongestAction
    <2> HIDE DEF d
    <2>3. QED
      BY <2>1, <2>2 DEF Changing, ActionsOf
  <1>4. t \in Seq(T) /\ Marker \in T
    OBVIOUS
  <1>5. z \in Seq(T) /\ z = Uncovered(t, e)
    <2> HIDE DEF T
    <2>1. QED
      BY <1>4, SanitizedText, SanitizedIsUncovered
  <1>6. d \in {"ALLOW", "REVIEW"} => t = Uncovered(t, e)
    <2>1. d \in {"ALLOW", "REVIEW"} => z = t
      BY <1>3, SanitizedOfNothing
    <2> HIDE DEF z, d
    <2>2. QED
      BY <1>5, <2>1
  <1>7. Blocked \notin Seq(T)
    <2>1. "blocked" \notin T /\ Blocked[1] = "blocked" /\ Len(Blocked) = 1
      BY DEF Characters, Blocked, Marker, Range
    <2> HIDE DEF T
    <2>2. QED
      BY <2>1
  <1>8. r.findings = e /\ r.decision = d
    BY DEF ApplyEffective
  <1>9. /\ d = "BLOCK" => r.text = Blocked
        /\ d \in {"REMOVE", "REDACT"} => r.text = z
        /\ d \in {"ALLOW", "REVIEW"} => r.text = t
    BY DEF ApplyEffective
  <1> HIDE DEF d, r, z, T
  <1>10. d \in {"BLOCK", "REMOVE", "REDACT", "ALLOW", "REVIEW"}
    BY <1>3 DEF Actions
  <1>11. d # "BLOCK" => r.text \in Seq(T) /\ r.text = Uncovered(t, e)
    BY <1>4, <1>5, <1>6, <1>9, <1>10
  <1>12. QED
    BY <1>7, <1>8, <1>9, <1>11 DEF d, r

(* What remains after the removals is made of the same characters. *)
LEMMA RemovedFits ==
  ASSUME NEW T, NEW t \in Seq(T), NEW e, SpansFit(e, t)
  PROVE  RemoveFindings(t, e).text \in Seq(T \cup {Marker})
PROOF
  <1> DEFINE m == MergeSpans(Operations(Removals(e)))
             U == T \cup {Marker}
  <1>1. /\ m \in Seq(Operation) /\ Merges(m, {SpanOf(f) : f \in Range(Removals(e))})
        /\ \A j \in DOMAIN m : m[j].end <= Len(t)
    BY RemovalsFit, MergedFits
  <1>2. t \in Seq(U) /\ Marker \in U
    OBVIOUS
  <1>3. RemoveFindings(t, e).text = Rebuild(t, m)
    BY DEF RemoveFindings
  <1> HIDE DEF m, U
  <1>4. Rebuild(t, m) \in Seq(U)
    BY <1>1, <1>2, LaidOut DEF Merges
  <1>5. QED
    BY <1>3, <1>4 DEF U

-----------------------------------------------------------------------------
(* A text from which characters are left out, one after the other: it gets *)
(* shorter, or stays the same.                                             *)
LEMMA LeavingOut ==
  ASSUME NEW T, NEW t \in Seq(T), NEW W, W[0] = <<>>,
         \A o \in 0 .. Len(t) - 1 : \/ W[o + 1] = W[o]
                                    \/ W[o + 1] = W[o] \o <<t[o + 1]>>
  PROVE  /\ W[Len(t)] \in Seq(T) /\ Len(W[Len(t)]) <= Len(t)
         /\ Len(W[Len(t)]) = Len(t) => W[Len(t)] = t
PROOF
  <1> DEFINE n == Len(t)
             Left(k) == /\ W[k] \in Seq(T) /\ Len(W[k]) <= k
                        /\ Len(W[k]) = k => \A i \in 1 .. k : W[k][i] = t[i]
             S == {k \in 0 .. n : Left(k)}
  <1>1. n \in Nat /\ \A i \in 1 .. n : t[i] \in T
    OBVIOUS
  <1>2. 0 \in S
    <2>1. Left(0)
      OBVIOUS
    <2> HIDE DEF Left
    <2>2. QED
      BY <1>1, <2>1
  <1>3. ASSUME NEW k \in 1 .. n, Left(k - 1)
        PROVE  Left(k)
    <2> DEFINE s == W[k - 1]
               c == t[k]
    <2>1. k - 1 \in 0 .. n - 1 /\ (k - 1) + 1 = k /\ c \in T /\ k - 1 \in Nat
      BY <1>1
    <2>2. W[k] = s \/ W[k] = s \o <<c>>
      BY <2>1
    <2>3. s \in Seq(T) /\ Len(s) \in Nat /\ Len(s) <= k - 1
      BY <1>3
    <2>4. CASE W[k] = s
      BY <2>1, <2>3, <2>4
    <2>5. CASE W[k] = s \o <<c>>
      <3>1. \A i \in 1 .. k - 1 : Len(s) = k - 1 => s[i] = t[i]
        BY <1>3
      <3> HIDE DEF s, c
      <3>2. /\ s \o <<c>> \in Seq(T) /\ Len(s \o <<c>>) = Len(s) + 1
            /\ (s \o <<c>>)[Len(s) + 1] = c
            /\ \A i \in 1 .. Len(s) : (s \o <<c>>)[i] = s[i]
        BY <2>1, <2>3
      <3>3. W[k] \in Seq(T) /\ Len(W[k]) <= k
        BY <2>1, <2>3, <2>5, <3>2
      <3>4. ASSUME Len(W[k]) = k, NEW i \in 1 .. k
            PROVE  W[k][i] = t[i]
        <4>1. Len(s) = k - 1
          BY <2>1, <2>3, <2>5, <3>2, <3>4
        <4>2. CASE i = k
          BY <2>1, <2>5, <3>2, <4>1, <4>2 DEF c
        <4>3. CASE i # k
          <5>1. i \in 1 .. k - 1 /\ i \in 1 .. Len(s)
            BY <2>1, <4>1, <4>3
          <5>2. QED
            BY <2>5, <3>1, <3>2, <4>1, <5>1
        <4>4. QED
          BY <4>2, <4>3
      <3>5. QED
        BY <3>3, <3>4
    <2>6. QED
      BY <2>2, <2>4, <2>5
  <1>4. n \in S
    <2>1. \A k \in 1 .. n : k - 1 \in S => k \in S
      <3> HIDE DEF Left
      <3>1. QED
        BY <1>3
    <2>2. \A k \in 0 .. n : k \in S
      <3> HIDE DEF S
      <3>1. QED
        BY <1>1, <1>2, <2>1, Normalizing!InductionTo
    <2>3. n \in 0 .. n
      BY <1>1
    <2> HIDE DEF S
    <2>4. QED
      BY <2>2, <2>3
  <1>5. Left(n)
    BY <1>4
  <1> DEFINE u == W[n]
  <1>6. u \in Seq(T) /\ Len(u) <= n /\ (Len(u) = n => \A i \in 1 .. n : u[i] = t[i])
    BY <1>5
  <1> HIDE DEF u, n
  <1>7. Len(u) = n => u = t
    <2>1. t \in Seq(T) /\ Len(t) = n
      BY DEF n
    <2>2. QED
      BY <1>6, <2>1
  <1>8. QED
    BY <1>6, <1>7 DEF u, n

(* What is removed makes a text shorter, unless it is nothing.             *)
LEMMA RemovedIsShorter ==
  ASSUME NEW T, Marker \in T, NEW t \in Seq(T), NEW e, SpansFit(e, t)
  PROVE  LET u == RemoveFindings(t, e).text
         IN  /\ u \in Seq(T) /\ Len(u) <= Len(t)
             /\ Len(u) = Len(t) => u = t
PROOF
  <1>1. PICK m, P : Stripping(T, t, m, P) /\ MapOf(t, m, P, RemoveFindings(t, e))
    BY RemovalsStrip
  <1>2. RemoveFindings(t, e).text = P[Len(t)]
    BY <1>1, Zenon DEF MapOf
  <1>3. P[0] = <<>> /\ Len(t) \in Nat
    BY <1>1, StripFacts
  <1>4. ASSUME NEW o \in 0 .. Len(t) - 1
        PROVE  P[o + 1] = P[o] \/ P[o + 1] = P[o] \o <<t[o + 1]>>
    <2>1. o \in 0 .. Len(t)
      BY <1>3
    <2>2. QED
      BY <1>1, <2>1, StripOver, StripAdds
  <1>5. /\ P[Len(t)] \in Seq(T) /\ Len(P[Len(t)]) <= Len(t)
        /\ Len(P[Len(t)]) = Len(t) => P[Len(t)] = t
    BY <1>3, <1>4, LeavingOut
  <1>6. QED
    BY <1>2, <1>5

(* So does a rewriting that leaves no marker.                              *)
LEMMA UnmarkedIsShorter ==
  ASSUME NEW T, Marker \in T, NEW t \in Seq(T), NEW e, SpansFit(e, t),
         Marker \notin Range(SanitizeFindings(t, e))
  PROVE  Len(SanitizeFindings(t, e)) <= Len(t)
PROOF
  <1> DEFINE n == Len(t)
             F == Changing(e)
             z == SanitizeFindings(t, e)
  <1>1. z = Uncovered(t, e)
    BY SanitizedIsUncovered
  <1>2. PICK W : Prints(T, t, F, W) /\ Uncovered(t, e) = W[Len(t) + 1]
    BY UncoveredPrints
  <1>3. n \in Nat /\ n + 1 \in Nat
    OBVIOUS
  <1> HIDE DEF F
  <1>4. /\ W \in [0 .. n + 1 -> Seq(T)] /\ W[0] = <<>>
        /\ \A i \in 1 .. n + 1 : W[i] = W[i - 1] \o (MarkBy(F, i - 1) \o CharBy(t, F, i - 1))
    BY <1>2, Zenon DEF Prints
  <1>5. Marker \notin Range(W[n + 1])
    BY <1>1, <1>2
  <1>6. ASSUME NEW i \in 1 .. n + 1
        PROVE  /\ Range(W[i]) = Range(W[i - 1]) \cup Range(MarkBy(F, i - 1) \o CharBy(t, F, i - 1))
               /\ MarkBy(F, i - 1) # <<>> => Marker \in Range(W[i])
               /\ MarkBy(F, i - 1) = <<>> =>
                    \/ i - 1 = n /\ W[i] = W[i - 1]
                    \/ i - 1 # n /\ (W[i] = W[i - 1] \/ W[i] = W[i - 1] \o <<t[i]>>)
    <2> DEFINE s == W[i - 1]
               a == MarkBy(F, i - 1)
               b == CharBy(t, F, i - 1)
    <2>1. i - 1 \in 0 .. n + 1 /\ (i - 1) + 1 = i
      BY <1>3
    <2>2. s \in Seq(T) /\ W[i] = s \o (a \o b)
      BY <1>4, <2>1
    <2>3. a = <<>> \/ a = <<Marker>>
      BY Zenon DEF MarkBy
    <2>4. b = <<>> \/ (i - 1 # n /\ b = <<t[i]>> /\ t[i] \in T)
      <3>1. CASE i - 1 = n
        BY <3>1, Zenon DEF CharBy
      <3>2. CASE i - 1 # n
        <4>1. t[i] \in T
          BY <1>3, <3>2
        <4>2. b = <<>> \/ b = <<t[(i - 1) + 1]>>
          BY Zenon DEF CharBy
        <4>3. b = <<>> \/ b = <<t[i]>>
          BY <2>1, <4>2
        <4>4. QED
          BY <3>2, <4>1, <4>3
      <3>3. QED
        BY <3>1, <3>2
    <2> HIDE DEF s, a, b
    <2>5. a \in Seq(T) /\ b \in Seq(T)
      <3>1. \A x \in T : <<x>> \in Seq(T)
        OBVIOUS
      <3>2. <<>> \in Seq(T)
        OBVIOUS
      <3>3. QED
        BY <2>3, <2>4, <3>1, <3>2
    <2>6. a \o b \in Seq(T)
      BY <2>5
    <2>7. Range(W[i]) = Range(s) \cup Range(a \o b) /\ Range(a \o b) = Range(a) \cup Range(b)
      <3>1. s \in Seq(T)
        BY <2>2
      <3>2. Range(s \o (a \o b)) = Range(s) \cup Range(a \o b)
        <4> DEFINE g == a \o b
        <4>1. g \in Seq(T)
          BY <2>6
        <4> HIDE DEF g
        <4>2. Range(s \o g) = Range(s) \cup Range(g)
          BY <3>1, <4>1, RangeConcatenation
        <4>3. QED
          BY <4>2 DEF g
      <3>3. Range(a \o b) = Range(a) \cup Range(b)
        BY <2>5, RangeConcatenation
      <3>4. QED
        BY <2>2, <3>2, <3>3
    <2>8. a # <<>> => Marker \in Range(a)
      BY <2>3 DEF Range
    <2>9. a = <<>> => a \o b = b
      BY <2>5
    <2>10. b = <<>> => s \o b = s
      BY <2>2
    <2>11. a # <<>> => Marker \in Range(W[i])
      BY <2>7, <2>8
    <2>12. a = <<>> => W[i] = s \/ (i - 1 # n /\ W[i] = s \o <<t[i]>>)
      BY <2>2, <2>4, <2>9, <2>10
    <2>13. Range(W[i]) = Range(s) \cup Range(a \o b)
      BY <2>7
    <2>14. QED
      BY <2>11, <2>12, <2>13, Zenon DEF s, a, b
  <1> DEFINE S == {k \in 0 .. n + 1 : Marker \notin Range(W[n + 1 - k])}
  <1>7. \A k \in 0 .. n + 1 : k \in S
    <2>1. 0 \in S
      BY <1>3, <1>5
    <2>2. \A k \in 1 .. n + 1 : k - 1 \in S => k \in S
      <3>1. ASSUME NEW k \in 1 .. n + 1, Marker \notin Range(W[n + 1 - (k - 1)])
            PROVE  Marker \notin Range(W[n + 1 - k])
        <4> DEFINE i == n + 1 - (k - 1)
        <4>1. i \in 1 .. n + 1 /\ i - 1 = n + 1 - k
          BY <1>3
        <4> HIDE DEF i
        <4>2. Range(W[i - 1]) \subseteq Range(W[i])
          BY <1>6, <4>1
        <4>3. QED
          BY <3>1, <4>1, <4>2 DEF i
      <3>2. QED
        BY <3>1
    <2> HIDE DEF S
    <2>3. QED
      BY <1>3, <2>1, <2>2, Normalizing!InductionTo
  <1>8. ASSUME NEW i \in 1 .. n + 1
        PROVE  MarkBy(F, i - 1) = <<>>
    <2>1. n + 1 - i \in 0 .. n + 1 /\ n + 1 - (n + 1 - i) = i
      BY <1>3
    <2>2. Marker \notin Range(W[i])
      BY <1>7, <2>1
    <2>3. QED
      BY <1>6, <2>2
  <1>9. W[n + 1] = W[n]
    <2>1. n + 1 \in 1 .. n + 1 /\ (n + 1) - 1 = n
      BY <1>3
    <2>2. QED
      BY <1>6, <1>8, <2>1
  <1>10. ASSUME NEW o \in 0 .. n - 1
         PROVE  W[o + 1] = W[o] \/ W[o + 1] = W[o] \o <<t[o + 1]>>
    <2>1. o + 1 \in 1 .. n + 1 /\ (o + 1) - 1 = o /\ o # n
      BY <1>3
    <2>2. QED
      BY <1>6, <1>8, <2>1
  <1>11. Len(W[n]) <= n
    BY <1>4, <1>10, LeavingOut
  <1>12. QED
    BY <1>1, <1>2, <1>9, <1>11

-----------------------------------------------------------------------------
(* The inductive invariant.  TypeOK says nothing of where a result comes   *)
(* from: that it is what the policy makes of findings that fit the text is *)
(* what makes its text follow from its findings, and the text of the       *)
(* second scan has to be known to be one, for the findings of that scan to *)
(* fit it.  After a second scan, the result is made of the removals and    *)
(* what that scan found.                                                   *)
Engine == config \in Configurations

Findings ==
    /\ text \in Seq(Characters)
    /\ phase = "text" => first = <<>>
    /\ SpansFit(first, text)

RemovalMap ==
    /\ removal = <<>> \/ removal = <<RemoveFindings(text, EffectiveFindings(config.policy, first))>>
    /\ phase \in {"text", "canonical", "scanned"} => removal = <<>> /\ second = <<>>
    /\ phase \in {"removed", "rescanned"} => removal # <<>>
    /\ removal # <<>> => SpansFit(second, removal[1].text)

Result ==
    /\ phase \in {"enforced", "done"} =>
          \E e : SpansFit(e, text) /\ result = <<ApplyEffective(text, e)>>
    /\ phase \notin {"enforced", "done"} => result = <<>>

SecondResult ==
    phase = "enforced" /\ removal # <<>> =>
        /\ SpansFit(MapBack(removal[1], second), text)
        /\ result = <<Apply(config.policy, text,
                            Combined(EffectiveFindings(config.policy, first),
                                     MapBack(removal[1], second)))>>

IInv ==
    /\ Engine
    /\ phase \in {"text", "canonical", "scanned", "removed", "rescanned", "enforced",
                  "done", "raised"}
    /\ Findings /\ RemovalMap /\ Result /\ SecondResult

(* The policy of an engine gives actions, and its alphabet texts.          *)
LEMMA PolicyActs ==
  ASSUME Engine
  PROVE  /\ \A r \in DOMAIN config.policy : config.policy[r] \in Actions
         /\ config.alphabet \subseteq Seq(Characters)
PROOF
  BY EngineAssumption DEF Engine, IsConfiguration

(* What the policy makes of the findings fits the text.                    *)
LEMMA FindingsAct ==
  ASSUME Engine, Findings
  PROVE  SpansFit(EffectiveFindings(config.policy, first), text)
PROOF
  BY PolicyActs, EffectiveFits DEF Findings

(* A result is made of findings that fit the text.                         *)
LEMMA ApplyFits ==
  ASSUME Engine, NEW findings, SpansFit(findings, text)
  PROVE  \E e : SpansFit(e, text) /\ Apply(config.policy, text, findings) = ApplyEffective(text, e)
PROOF
  <1> DEFINE e == EffectiveFindings(config.policy, findings)
  <1>1. SpansFit(e, text)
    BY PolicyActs, EffectiveFits
  <1>2. Apply(config.policy, text, findings) = ApplyEffective(text, e)
    BY DEF Apply
  <1> HIDE DEF e
  <1>3. QED
    BY <1>1, <1>2

(* The findings of a scan fit a text of characters and markers.            *)
LEMMA TextScan ==
  ASSUME NEW t \in Seq(Characters \cup {Marker}), NEW c, NEW rules, Scan(c, rules, t) # <<>>
  PROVE  SpansFit(Scan(c, rules, t)[1], t)
PROOF
  <1> DEFINE T == (Characters \cup {Marker}) \cup {"LF"}
  <1>1. "LF" \in T /\ t \in Seq(T)
    OBVIOUS
  <1> HIDE DEF T
  <1>2. QED
    BY <1>1, ScanFits

(* The text of a call is such a text.                                      *)
LEMMA TextIsText ==
  ASSUME Findings
  PROVE  text \in Seq(Characters \cup {Marker})
PROOF
  BY DEF Findings

(* What a removal leaves is a text.                                        *)
LEMMA RemainderIsText ==
  ASSUME IInv, phase = "removed"
  PROVE  removal[1].text \in Seq(Characters \cup {Marker})
PROOF
  <1> DEFINE e == EffectiveFindings(config.policy, first)
             map == RemoveFindings(text, e)
  <1>1. removal = <<map>>
    BY DEF IInv, RemovalMap
  <1>2. map.text \in Seq(Characters \cup {Marker})
    <2>1. SpansFit(e, text) /\ text \in Seq(Characters)
      BY FindingsAct DEF IInv, Findings
    <2> HIDE DEF e
    <2>2. QED
      BY <2>1, RemovedFits
  <1> HIDE DEF map
  <1>3. QED
    BY <1>1, <1>2

(* The invariant gives TypeOK, and that the text of a result is what its   *)
(* findings leave of the original.                                         *)
LEMMA ResultFollows ==
  ASSUME IInv, phase \in {"enforced", "done"}
  PROVE  /\ SpansFit(result[1].findings, text) /\ Len(result) = 1
         /\ result[1].decision = Strongest(ActionsOf(result[1].findings))
         /\ result[1].decision = "BLOCK" <=> result[1].text = Blocked
         /\ result[1].text # Blocked => result[1].text = Uncovered(text, result[1].findings)
PROOF
  <1>1. PICK e : SpansFit(e, text) /\ result = <<ApplyEffective(text, e)>>
    BY DEF IInv, Result
  <1> DEFINE r == ApplyEffective(text, e)
  <1>2. /\ r.findings = e /\ r.decision = Strongest(ActionsOf(e))
        /\ r.decision = "BLOCK" <=> r.text = Blocked
        /\ r.text # Blocked => r.text = Uncovered(text, e)
    BY <1>1, Enforced DEF IInv, Findings
  <1>3. result[1] = r /\ Len(result) = 1
    BY <1>1
  <1> HIDE DEF r
  <1>4. QED
    BY <1>1, <1>2, <1>3

(* The result of a second scan is what RemovalsCompose says.               *)
LEMMA EnforcedWhatWasScanned ==
  ASSUME IInv
  PROVE  EnforcesWhatWasScanned
PROOF
  <1> SUFFICES ASSUME phase = "enforced", removal # <<>>, result[1].text # Blocked
               PROVE  result[1].text =
                        SanitizeFindings(removal[1].text, EffectiveFindings(config.policy, second))
    BY DEF EnforcesWhatWasScanned
  <1> DEFINE policy == config.policy
             map == RemoveFindings(text, EffectiveFindings(policy, first))
             T == Characters \cup {Marker}
             E == EffectiveFindings(policy, Combined(EffectiveFindings(policy, first),
                                                     MapBack(map, second)))
  <1>1. removal[1] = map
    <2>1. removal = <<map>>
      BY DEF IInv, RemovalMap
    <2> HIDE DEF map
    <2>2. QED
      BY <2>1
  <1>2. /\ SpansFit(first, text) /\ SpansFit(second, map.text)
        /\ SpansFit(MapBack(map, second), text)
        /\ \A r \in DOMAIN policy : policy[r] \in Actions
    <2> HIDE DEF map
    <2>1. QED
      BY <1>1, PolicyActs DEF IInv, Findings, RemovalMap, SecondResult
  <1>3. Marker \in T /\ text \in Seq(T)
    BY DEF IInv, Findings
  <1>4. result = <<ApplyEffective(text, E)>>
    <2> HIDE DEF map
    <2>1. result = <<Apply(policy, text, Combined(EffectiveFindings(policy, first),
                                                  MapBack(map, second)))>>
      BY <1>1 DEF IInv, SecondResult
    <2>2. QED
      BY <2>1 DEF Apply
  <1>5. Uncovered(text, E) = SanitizeFindings(map.text, EffectiveFindings(policy, second))
    <2>1. \A found : SpansFit(found, map.text) /\ SpansFit(MapBack(map, found), text) =>
              Uncovered(text, EffectiveFindings(policy, Combined(EffectiveFindings(policy, first),
                                                                 MapBack(map, found)))) =
                SanitizeFindings(map.text, EffectiveFindings(policy, found))
      <3> HIDE DEF policy, T
      <3>1. QED
        BY <1>2, <1>3, RemovalsCompose, SMTT(30)
    <2> HIDE DEF map
    <2>2. QED
      BY <1>2, <2>1
  <1>6. result[1].findings = E
    <2> DEFINE r == ApplyEffective(text, E)
    <2>1. r.findings = E
      BY DEF ApplyEffective
    <2> HIDE DEF r
    <2>2. QED
      BY <1>4, <2>1 DEF r
  <1>7. result[1].text = Uncovered(text, result[1].findings)
    BY ResultFollows
  <1> HIDE DEF E, map, policy
  <1>8. QED
    BY <1>1, <1>5, <1>6, <1>7 DEF policy

(* The invariant gives the properties that the runs check.                 *)
LEMMA IInvImplies ==
  ASSUME IInv
  PROVE  TypeOK /\ KeepsUncoveredText /\ EnforcesWhatWasScanned
PROOF
  <1>1. KeepsUncoveredText
    BY ResultFollows DEF KeepsUncoveredText
  <1>2. Len(removal) <= 1
    <2>1. CASE removal = <<>>
      BY <2>1
    <2>2. CASE removal # <<>>
      <3> DEFINE map == RemoveFindings(text, EffectiveFindings(config.policy, first))
      <3>1. removal = <<map>>
        BY <2>2 DEF IInv, RemovalMap
      <3> HIDE DEF map
      <3>2. QED
        BY <3>1
    <2>3. QED
      BY <2>1, <2>2
  <1>3. Len(result) <= 1
    <2>1. CASE phase \in {"enforced", "done"}
      <3>1. Len(result) = 1
        BY <2>1, ResultFollows
      <3>2. QED
        BY <3>1
    <2>2. CASE phase \notin {"enforced", "done"}
      <3>1. result = <<>>
        BY <2>2 DEF IInv, Result
      <3>2. QED
        BY <3>1
    <2>3. QED
      BY <2>1, <2>2
  <1>4. phase \in {"enforced", "done"} =>
          /\ SpansFit(result[1].findings, text)
          /\ result[1].decision = Strongest(ActionsOf(result[1].findings))
          /\ result[1].decision = "BLOCK" <=> result[1].text = Blocked
    BY ResultFollows
  <1>5. TypeOK
    BY <1>2, <1>3, <1>4 DEF TypeOK, IInv, Engine, Findings, RemovalMap, SecondResult
  <1>6. QED
    BY <1>1, <1>5, EnforcedWhatWasScanned

(* A call begins with an empty text and no findings.                       *)
LEMMA IInvInit == Init => IInv
PROOF
  <1> SUFFICES ASSUME Init PROVE IInv
    OBVIOUS
  <1>1. text \in Seq(Characters)
    BY DEF Init
  <1>2. SpansFit(first, text)
    BY NoneFits DEF Init
  <1>3. QED
    BY <1>1, <1>2 DEF Init, IInv, Engine, Findings, RemovalMap, Result, SecondResult

(* One step per action. *)
LEMMA IInvNext == IInv /\ [Next]_vars => IInv'
PROOF
  <1> SUFFICES ASSUME IInv, [Next]_vars PROVE IInv'
    OBVIOUS
  <1> USE DEF IInv, Engine
  <1>1. ASSUME NEW piece \in config.alphabet, Write(piece) PROVE IInv'
    <2>1. piece \in Seq(Characters)
      BY PolicyActs
    <2>2. text' \in Seq(Characters)
      BY <1>1, <2>1 DEF Write, Findings
    <2>3. first = <<>> /\ SpansFit(first', text')
      BY <1>1, NoneFits DEF Write, Findings
    <2>4. Findings'
      BY <1>1, <2>2, <2>3 DEF Write, Findings
    <2>5. removal = <<>> /\ second = <<>> /\ result = <<>>
      BY <1>1 DEF Write, RemovalMap, Result, SecondResult
    <2>6. QED
      BY <1>1, <2>4, <2>5 DEF Write, RemovalMap, Result, SecondResult
  <1>2. CASE Refuse
    BY <1>2 DEF Refuse, Findings, RemovalMap, Result, SecondResult
  <1>3. ASSUME NEW rules, NEW all, NEW next \in {"canonical", "scanned"},
               phase \in {"text", "canonical"},
               Scan(config, rules, text) # <<>> => SpansFit(all, text),
               Proceed(Scan(config, rules, text), all, next),
               UNCHANGED <<config, text, removal, second, result>>
        PROVE  IInv'
    <2>1. Findings'
      <3>1. SpansFit(first', text)
        BY <1>3 DEF Proceed, Findings
      <3>2. phase' # "text"
        BY <1>3 DEF Proceed
      <3>3. QED
        BY <1>3, <3>1, <3>2 DEF Findings
    <2>2. removal = <<>> /\ second = <<>> /\ result = <<>> /\ phase' \in {"canonical", "scanned", "raised"}
      BY <1>3 DEF RemovalMap, Result, Proceed
    <2>3. RemovalMap' /\ Result' /\ SecondResult'
      BY <1>3, <2>2 DEF RemovalMap, Result, SecondResult
    <2>4. QED
      BY <1>3, <2>1, <2>2, <2>3
  <1>4. CASE ScanWhole
    <2>1. Proceed(Scan(config, AllRules, text), Scan(config, AllRules, text)[1], "scanned")
      BY <1>4 DEF ScanWhole
    <2>2. QED
      BY <1>3, <1>4, <2>1, TextScan, TextIsText DEF ScanWhole
  <1>5. CASE ScanCanonicalizers
    <2>1. Proceed(Scan(config, Canonicalizers, text), Scan(config, Canonicalizers, text)[1],
                  "canonical")
      BY <1>5 DEF ScanCanonicalizers
    <2>2. QED
      BY <1>3, <1>5, <2>1, TextScan, TextIsText DEF ScanCanonicalizers
  <1>6. CASE SkipRemaining
    BY <1>6 DEF SkipRemaining, Findings, RemovalMap, Result, SecondResult
  <1>7. CASE ScanRemaining
    <2> DEFINE rest == AllRules \ Canonicalizers
               all == SortFindings(first \o Scan(config, rest, text)[1])
    <2>1. Proceed(Scan(config, rest, text), all, "scanned")
      BY <1>7 DEF ScanRemaining
    <2>2. Scan(config, rest, text) # <<>> => SpansFit(all, text)
      BY TextScan, TextIsText, ConcatFits, SortFits DEF Findings
    <2> HIDE DEF rest, all
    <2>3. QED
      BY <1>3, <1>7, <2>1, <2>2 DEF ScanRemaining
  <1>8. CASE EnforceFirst
    <2>1. \E e : SpansFit(e, text) /\ Apply(config.policy, text, first) = ApplyEffective(text, e)
      BY ApplyFits DEF Findings
    <2>2. Result'
      BY <1>8, <2>1 DEF EnforceFirst, Result
    <2>3. QED
      BY <1>8, <2>2 DEF EnforceFirst, Findings, RemovalMap, SecondResult
  <1>9. CASE RemoveSpans
    <2> DEFINE map == RemoveFindings(text, EffectiveFindings(config.policy, first))
    <2>1. removal' = <<map>> /\ second' = <<>>
      BY <1>9 DEF RemoveSpans, RemovalMap
    <2>2. removal'[1] = map /\ removal' # <<>>
      <3> HIDE DEF map
      <3>1. QED
        BY <2>1
    <2>3. SpansFit(second', removal'[1].text)
      BY <2>1, NoneFits
    <2>4. RemovalMap'
      BY <1>9, <2>1, <2>2, <2>3 DEF RemoveSpans, RemovalMap
    <2>5. QED
      BY <1>9, <2>4 DEF RemoveSpans, Findings, Result, SecondResult
  <1>10. CASE Rescan
    <2>1. removal # <<>>
      BY <1>10 DEF Rescan, RemovalMap
    <2>2. removal[1].text \in Seq(Characters \cup {Marker})
      BY <1>10, RemainderIsText DEF Rescan
    <2>3. SpansFit(second', removal[1].text) /\ phase' \in {"raised", "rescanned"}
      BY <1>10, <2>1, <2>2, TextScan DEF Rescan, RemovalMap
    <2>4. RemovalMap'
      BY <1>10, <2>1, <2>3 DEF Rescan, RemovalMap
    <2>5. QED
      BY <1>10, <2>3, <2>4 DEF Rescan, Findings, Result, SecondResult
  <1>11. CASE RefuseSpan
    BY <1>11 DEF RefuseSpan, Findings, RemovalMap, Result, SecondResult
  <1>12. CASE EnforceSecond
    <2> DEFINE all == Combined(EffectiveFindings(config.policy, first), Mapped)
    <2>1. SpansFit(all, text)
      BY <1>12, FindingsAct, RemovalsFit, ConcatFits, SortFits DEF EnforceSecond, Combined
    <2>2. result' = <<Apply(config.policy, text, all)>>
      BY <1>12 DEF EnforceSecond
    <2> HIDE DEF all
    <2>3. \E e : SpansFit(e, text) /\ Apply(config.policy, text, all) = ApplyEffective(text, e)
      BY <2>1, ApplyFits
    <2>4. Result'
      BY <1>12, <2>2, <2>3 DEF EnforceSecond, Result
    <2>5. SecondResult'
      BY <1>12 DEF EnforceSecond, Mapped, SecondResult
    <2>6. QED
      BY <1>12, <2>4, <2>5 DEF EnforceSecond, Findings, RemovalMap
  <1>13. CASE Revalidate
    <2> DEFINE r == result[1]
               all == Append(r.findings, Match("json", "BLOCK", [start |-> 0, end |-> 0]))
    <2>1. result' = result \/ result' = <<Apply(config.policy, text, all)>>
      BY <1>13 DEF Revalidate
    <2>2. SpansFit(all, text)
      <3> DEFINE f == Match("json", "BLOCK", [start |-> 0, end |-> 0])
      <3>1. f \in Finding /\ f.start = 0 /\ f.end = 0
        BY DEF Match, Finding, Actions, Range, RuleOrder
      <3>2. SpansFit(r.findings, text)
        BY <1>13, ResultFollows DEF Revalidate
      <3>3. Len(text) \in Nat
        BY DEF Findings
      <3> HIDE DEF f, r
      <3>4. SpansFit(Append(r.findings, f), text)
        BY <3>1, <3>2, <3>3, AppendFits
      <3>5. QED
        BY <3>4 DEF f
    <2> HIDE DEF all
    <2>3. \E e : SpansFit(e, text) /\ Apply(config.policy, text, all) = ApplyEffective(text, e)
      BY <2>2, ApplyFits
    <2>4. \E e : SpansFit(e, text) /\ result = <<ApplyEffective(text, e)>>
      BY <1>13 DEF Revalidate, Result
    <2>5. Result'
      BY <1>13, <2>1, <2>3, <2>4 DEF Revalidate, Result
    <2>6. QED
      BY <1>13, <2>5 DEF Revalidate, Findings, RemovalMap, SecondResult
  <1>14. CASE UNCHANGED vars
    BY <1>14 DEF vars, Findings, RemovalMap, Result, SecondResult
  <1>15. QED
    BY <1>1, <1>2, <1>4, <1>5, <1>6, <1>7, <1>8, <1>9, <1>10, <1>11, <1>12, <1>13, <1>14
    DEF Next

-----------------------------------------------------------------------------
(* Output that must be JSON.  What carries the property through a call:    *)
(* whichever scan is the last has seen whether its text is JSON, a result  *)
(* that keeps the text reports what the scan saw, and a text that was      *)
(* rewritten is looked at again.                                           *)
JSONActive == "json" \in config.rules /\ config.scope = "OUTPUT"

IsJSON(t) == JSONScan(config.json, Normalize(t).text) = <<>>

JSONSeen(findings, t) ==
    IsJSON(t) \/ \E f \in Range(findings) : f.rule = "json" /\ f.action = "BLOCK"

Reviewed(r) == \E f \in Range(r.findings) : f.rule = "json" /\ f.action = "REVIEW"

JSONInv ==
    JSONActive =>
        /\ phase = "scanned" /\ ~Rescans(EffectiveFindings(config.policy, first)) =>
              JSONSeen(first, text)
        /\ phase = "rescanned" => JSONSeen(second, removal[1].text)
        /\ phase = "enforced" /\ result[1].text = text => IsJSON(text) \/ Reviewed(result[1])
        /\ PassedOutputIsValid

(* The rule that looks at it is one of the rules.                          *)
LEMMA JSONIsRule == "json" \in Range(RuleOrder)
PROOF
  <1>1. RuleOrder[3] = "json" /\ 3 \in DOMAIN RuleOrder
    BY DEF RuleOrder
  <1>2. QED
    BY <1>1 DEF Range

(* No text is the one of a blocked result.                                 *)
LEMMA BlockedIsNoText ==
  ASSUME NEW t \in Seq(Characters)
  PROVE  t # Blocked
PROOF
  <1>1. "blocked" \notin Characters /\ Blocked[1] = "blocked" /\ Len(Blocked) = 1
    BY DEF Characters, Blocked, Range
  <1>2. QED
    BY <1>1

(* A scan with the JSON rule reports that a text is no JSON.               *)
LEMMA ScanSeesJSON ==
  ASSUME NEW t \in Seq(Characters \cup {Marker}), JSONActive, NEW rules, "json" \in rules,
         Scan(config, rules, t) # <<>>
  PROVE  JSONSeen(Scan(config, rules, t)[1], t)
PROOF
  <1> DEFINE T == (Characters \cup {Marker}) \cup {"LF"}
             w == Normalize(t).text
             found == JSONScan(config.json, w)
  <1>1. "LF" \in T /\ t \in Seq(T)
    OBVIOUS
  <1>2. /\ "json" \in rules \cap config.rules \cap Range(RuleOrder)
        /\ config.scope \in Scopes["json"]
    <2>1. Scopes["json"] = {"OUTPUT"}
      BY JSONIsRule DEF Scopes
    <2>2. QED
      BY <2>1, JSONIsRule DEF JSONActive
  <1>3. RuleScan(config, "json", w) = found
    BY DEF RuleScan
  <1>4. found = <<>> \/ \E span : found = <<Match("json", "BLOCK", span)>>
    BY Zenon DEF JSONScan
  <1> HIDE DEF T, w, found
  <1>5. CASE found = <<>>
    BY <1>5 DEF JSONSeen, IsJSON, found, w
  <1>6. ASSUME NEW span, found = <<Match("json", "BLOCK", span)>>
        PROVE  JSONSeen(Scan(config, rules, t)[1], t)
    <2> DEFINE m == Match("json", "BLOCK", span)
    <2>1. m.rule = "json" /\ m.action = "BLOCK"
      BY DEF Match
    <2> HIDE DEF m
    <2>2. m \in Range(RuleScan(config, "json", Normalize(t).text))
      BY <1>3, <1>6 DEF Range, m, w
    <2>3. \E f \in Range(Scan(config, rules, t)[1]) : f.rule = m.rule /\ f.action = m.action
      BY <1>1, <1>2, <2>2, ScanReports
    <2>4. QED
      BY <2>1, <2>3 DEF JSONSeen
  <1>7. QED
    BY <1>4, <1>5, <1>6

(* More findings, in another order, say as much.                           *)
LEMMA SeenWithMore ==
  ASSUME NEW t, NEW findings, NEW more, JSONSeen(findings, t), Range(findings) \subseteq Range(more)
  PROVE  JSONSeen(more, t)
PROOF
  BY DEF JSONSeen

(* A policy blocks a text that is no JSON, or reports it.                  *)
LEMMA JSONEnforced ==
  ASSUME Engine, NEW t \in Seq(Characters), NEW findings, SpansFit(findings, t),
         NEW f \in Range(findings), f.rule = "json", f.action = "BLOCK"
  PROVE  LET r == Apply(config.policy, t, findings) IN r.text = Blocked \/ Reviewed(r)
PROOF
  <1> DEFINE e == EffectiveFindings(config.policy, findings)
             r == ApplyEffective(t, e)
             g == Effective(config.policy, f)
  <1>1. findings \in Seq(Finding) /\ f \in Finding
    BY DEF SpansFit, Range
  <1>2. g.rule = "json" /\ g.action = ActionFor(config.policy, "json", "BLOCK")
    BY <1>1, EffectiveIs
  <1>3. g.action \in {"BLOCK", "REVIEW"}
    <2>1. "json" \in DOMAIN config.policy => config.policy["json"] \in {"BLOCK", "REVIEW"}
      BY EngineAssumption DEF Engine, IsConfiguration
    <2> HIDE DEF g
    <2>2. QED
      BY <1>2, <2>1 DEF ActionFor
  <1>4. g \in Range(e)
    BY <1>1, EffectiveRange
  <1>5. SpansFit(e, t)
    BY PolicyActs, EffectiveFits
  <1> HIDE DEF e, g
  <1>6. /\ r.findings = e /\ r.decision = Strongest(ActionsOf(e))
        /\ r.decision = "BLOCK" <=> r.text = Blocked
    BY <1>5, Enforced
  <1> HIDE DEF r
  <1>7. CASE g.action = "REVIEW"
    BY <1>2, <1>4, <1>6, <1>7 DEF Reviewed, Apply, r, e
  <1>8. CASE g.action = "BLOCK"
    <2>1. ActionsOf(e) \in SUBSET Actions
      <3>1. \A x \in Range(e) : x \in Finding
        BY <1>5 DEF SpansFit, Range
      <3>2. \A x \in Finding : x.action \in Actions
        BY DEF Finding
      <3>3. QED
        BY <3>1, <3>2 DEF ActionsOf
    <2>2. "BLOCK" \in ActionsOf(e)
      BY <1>4, <1>8 DEF ActionsOf
    <2>3. r.text = Blocked
      BY <1>6, <2>1, <2>2, StrongestAction
    <2>4. QED
      BY <2>3 DEF Apply, r, e
  <1>9. QED
    BY <1>3, <1>7, <1>8

(* So a text that is let through is JSON, if it is the one that was seen.  *)
LEMMA SeenIsEnforced ==
  ASSUME Engine, NEW t \in Seq(Characters), NEW findings, SpansFit(findings, t), NEW u,
         JSONSeen(findings, u)
  PROVE  LET r == Apply(config.policy, t, findings) IN IsJSON(u) \/ r.text = Blocked \/ Reviewed(r)
PROOF
  BY JSONEnforced DEF JSONSeen

(* Removing and redacting nothing but what a first scan had removed leaves *)
(* the text as the second scan saw it.                                     *)
LEMMA KeptIsScanned ==
  ASSUME NEW t \in Seq(Characters), NEW e, SpansFit(e, t), NEW found,
         SpansFit(found, RemoveFindings(t, e).text),
         t = SanitizeFindings(RemoveFindings(t, e).text, found)
  PROVE  RemoveFindings(t, e).text = t
PROOF
  <1> DEFINE T == Characters \cup {Marker}
             u == RemoveFindings(t, e).text
  <1>1. Marker \in T /\ t \in Seq(T) /\ Marker \notin Range(t)
    <2>1. \A i \in DOMAIN t : t[i] \in Characters
      OBVIOUS
    <2>2. Marker \notin Characters
      BY DEF Characters
    <2>3. QED
      BY <2>1, <2>2 DEF Range
  <1> HIDE DEF T
  <1>2. u \in Seq(T) /\ Len(u) <= Len(t) /\ (Len(u) = Len(t) => u = t)
    BY <1>1, RemovedIsShorter
  <1> HIDE DEF u
  <1>3. Len(t) <= Len(u)
    <2>1. Marker \notin Range(SanitizeFindings(u, found))
      BY <1>1 DEF u
    <2>2. Len(SanitizeFindings(u, found)) <= Len(u)
      BY <1>1, <1>2, <2>1, UnmarkedIsShorter DEF u
    <2>3. QED
      BY <2>2 DEF u
  <1>4. Len(u) = Len(t)
    BY <1>2, <1>3
  <1>5. QED
    BY <1>2, <1>4 DEF u

(* The text of a result, unless withheld, is made of characters and markers. *)
LEMMA ResultIsText ==
  ASSUME NEW t \in Seq(Characters), NEW e, SpansFit(e, t), ApplyEffective(t, e).text # Blocked
  PROVE  ApplyEffective(t, e).text \in Seq(Characters \cup {Marker})
PROOF
  <1> DEFINE T == Characters \cup {Marker}
             d == Strongest(ActionsOf(e))
             r == ApplyEffective(t, e)
             z == SanitizeFindings(t, e)
  <1>1. Marker \in T /\ t \in Seq(T)
    OBVIOUS
  <1> HIDE DEF T
  <1>2. z \in Seq(T)
    BY <1>1, SanitizedText
  <1> HIDE DEF z
  <1>3. r.text \in {Blocked, z, t}
    BY DEF ApplyEffective, z
  <1> HIDE DEF r
  <1>4. r.text \in Seq(T)
    BY <1>1, <1>2, <1>3 DEF r
  <1>5. QED
    BY <1>4 DEF r, T

(* What the invariant gives, after a step.                                 *)
LEMMA EnforcedAfter == IInv' => EnforcesWhatWasScanned'
PROOF
  <1>1. IInv => EnforcesWhatWasScanned
    BY EnforcedWhatWasScanned
  <1>2. QED
    BY <1>1, PTL

(* A call begins without a scan.                                           *)
LEMMA JSONInvInit == Init => JSONInv
PROOF
  BY DEF Init, JSONInv, PassedOutputIsValid

(* A second scan that finds no fault with its text, or reports it, is      *)
(* enforced so: what is let through is that text, or reported.             *)
LEMMA SecondIsEnforced ==
  ASSUME IInv, IInv', JSONActive, JSONSeen(second, removal[1].text), EnforceSecond,
         result'[1].text = text
  PROVE  IsJSON(text) \/ Reviewed(result'[1])
PROOF
  <1> DEFINE e == EffectiveFindings(config.policy, first)
             all == Combined(e, Mapped)
             map == RemoveFindings(text, e)
             mapped == MapBack(map, second)
  <1>1. removal # <<>> /\ removal = <<map>>
    BY DEF EnforceSecond, IInv, RemovalMap
  <1>2. removal[1] = map
    <2> HIDE DEF map
    <2>1. QED
      BY <1>1
  <1>3. Mapped = mapped
    BY <1>2 DEF Mapped
  <1>4. text \in Seq(Characters) /\ SpansFit(e, text) /\ SpansFit(mapped, text)
    <2>1. SpansFit(Mapped, text)
      BY DEF EnforceSecond
    <2>2. QED
      BY <1>3, <2>1, FindingsAct DEF IInv, Findings
  <1>5. result' = <<Apply(config.policy, text, all)>>
    BY DEF EnforceSecond
  <1>6. result'[1] = Apply(config.policy, text, all)
    <2> DEFINE r == Apply(config.policy, text, all)
    <2>1. result' = <<r>>
      BY <1>5
    <2> HIDE DEF r
    <2>2. QED
      BY <2>1 DEF r
  <1>7. text # Blocked
    BY <1>4, BlockedIsNoText
  <1>8. SpansFit(second, map.text) /\ second \in Seq(Finding)
    BY <1>1, <1>2 DEF IInv, RemovalMap, SpansFit
  <1>9. CASE \E f \in Range(second) : f.rule = "json" /\ f.action = "BLOCK"
    <2>1. PICK i \in DOMAIN second : second[i].rule = "json" /\ second[i].action = "BLOCK"
      BY <1>9 DEF Range
    <2>2. second[i] \in Finding
      BY <1>8
    <2> DEFINE f == mapped[i]
    <2>3. f \in Range(mapped) /\ f.rule = "json" /\ f.action = "BLOCK"
      BY <2>1, <2>2 DEF MapBack, Finding, Range
    <2> HIDE DEF f, mapped, e
    <2>4. Range(mapped) \subseteq Range(all) /\ SpansFit(all, text)
      <3> DEFINE joined == Removals(e) \o mapped
      <3>1. SpansFit(Removals(e), text) /\ SpansFit(joined, text)
        BY <1>4, RemovalsFit, ConcatFits
      <3>2. Range(joined) = Range(Removals(e)) \cup Range(mapped)
        BY <1>4, <3>1, RangeConcatenation DEF SpansFit
      <3>3. all = SortFindings(joined)
        BY <1>3 DEF Combined
      <3> HIDE DEF joined, all
      <3>4. Range(all) = Range(joined) /\ SpansFit(all, text)
        BY <3>1, <3>3, FindingsSorted, SortFits DEF SpansFit
      <3>5. QED
        BY <3>2, <3>4
    <2> HIDE DEF all
    <2>5. f \in Range(all)
      BY <2>3, <2>4
    <2>6. Apply(config.policy, text, all).text = Blocked \/ Reviewed(Apply(config.policy, text, all))
      BY <1>4, <2>3, <2>4, <2>5, JSONEnforced DEF IInv
    <2>7. QED
      BY <1>6, <1>7, <2>6
  <1>10. CASE IsJSON(removal[1].text)
    <2> DEFINE found == EffectiveFindings(config.policy, second)
    <2>1. EnforcesWhatWasScanned'
      BY EnforcedAfter
    <2>2. text = SanitizeFindings(map.text, found)
      <3>1. /\ phase' = "enforced" /\ text' = text /\ removal' = removal /\ second' = second
            /\ config' = config
        BY DEF EnforceSecond
      <3>2. QED
        BY <1>1, <1>2, <1>7, <2>1, <3>1 DEF EnforcesWhatWasScanned
    <2>3. SpansFit(found, map.text)
      BY <1>8, PolicyActs, EffectiveFits DEF IInv
    <2> HIDE DEF found, e
    <2>4. map.text = text
      BY <1>4, <2>2, <2>3, KeptIsScanned
    <2>5. QED
      BY <1>2, <1>10, <2>4
  <1>11. QED
    BY <1>9, <1>10 DEF JSONSeen

(* A rewritten text that is JSON as it stands still is when its line       *)
(* endings are normalised, as the next reader's scan would.                *)
LEMMA RewrittenIsJSON ==
  ASSUME Engine, JSONActive, NEW t \in Seq(Characters \cup {Marker}), JSONScan(config.json, t) = <<>>
  PROVE  IsJSON(t)
PROOF
  <1> DEFINE T == (Characters \cup {Marker}) \cup {"LF"}
  <1>1. "LF" \in T /\ t \in Seq(T)
    OBVIOUS
  <1>2. config.json.document \in Nat
    BY EngineAssumption DEF Engine, IsConfiguration, JSONActive
  <1> HIDE DEF T
  <1>3. QED
    BY <1>1, <1>2, NormalizedIsJSON DEF IsJSON

(* The last step: a rewritten text is looked at again.                     *)
LEMMA RevalidatedIsJSON ==
  ASSUME IInv, IInv', JSONInv, JSONActive, Revalidate, result'[1].text # Blocked
  PROVE  IsJSON(result'[1].text) \/ Reviewed(result'[1])
PROOF
  <1> DEFINE r == result[1]
             f == Match("json", "BLOCK", [start |-> 0, end |-> 0])
             all == Append(r.findings, f)
             invalid == IF MustRevalidate(r) THEN JSONScan(config.json, r.text) ELSE <<>>
  <1>1. phase = "enforced" /\ text \in Seq(Characters)
    BY DEF Revalidate, IInv, Findings
  <1>2. \/ invalid = <<>> /\ result' = result
        \/ result' = <<Apply(config.policy, text, all)>>
    BY Zenon DEF Revalidate
  <1>3. /\ SpansFit(r.findings, text)
        /\ r.decision = "BLOCK" <=> r.text = Blocked
    BY <1>1, ResultFollows
  <1>4. r.text # Blocked => r.text \in Seq(Characters \cup {Marker})
    <2>1. PICK e : SpansFit(e, text) /\ result = <<ApplyEffective(text, e)>>
      BY <1>1 DEF IInv, Result
    <2> DEFINE applied == ApplyEffective(text, e)
    <2>2. applied.text # Blocked => applied.text \in Seq(Characters \cup {Marker})
      BY <1>1, <2>1, ResultIsText
    <2> HIDE DEF applied
    <2>3. r = applied
      BY <2>1 DEF applied
    <2> HIDE DEF r
    <2>4. QED
      BY <2>2, <2>3
  <1> HIDE DEF r
  <1>5. CASE invalid = <<>> /\ result' = result
    <2>1. result'[1] = r /\ r.text # Blocked
      BY <1>5 DEF r
    <2>2. CASE r.text = text
      BY <1>1, <2>1, <2>2 DEF JSONInv, r
    <2>3. CASE r.text # text
      <3>1. MustRevalidate(r)
        BY <1>3, <2>1, <2>3 DEF MustRevalidate, JSONActive
      <3>2. JSONScan(config.json, r.text) = <<>>
        BY <1>5, <3>1
      <3>3. IsJSON(r.text)
        BY <1>4, <2>1, <3>2, RewrittenIsJSON DEF IInv
      <3>4. QED
        BY <2>1, <3>3
    <2>4. QED
      BY <2>2, <2>3
  <1> HIDE DEF invalid
  <1>6. CASE result' = <<Apply(config.policy, text, all)>>
    <2> DEFINE applied == Apply(config.policy, text, all)
    <2>1. f \in Finding /\ f.start = 0 /\ f.end = 0 /\ f.rule = "json" /\ f.action = "BLOCK"
      BY DEF Match, Finding, Actions, Range, RuleOrder
    <2> HIDE DEF f
    <2>2. SpansFit(all, text)
      <3>1. Len(text) \in Nat
        BY <1>1
      <3>2. QED
        BY <1>3, <2>1, <3>1, AppendFits
    <2>3. f \in Range(all)
      BY <1>3, <2>1, RangeOfAppend DEF SpansFit
    <2> HIDE DEF all
    <2>4. applied.text = Blocked \/ Reviewed(applied)
      BY <1>1, <2>1, <2>2, <2>3, JSONEnforced DEF IInv
    <2> HIDE DEF applied
    <2>5. result'[1] = applied
      BY <1>6 DEF applied
    <2>6. QED
      BY <2>4, <2>5
  <1>7. QED
    BY <1>2, <1>5, <1>6

(* One step per action: those before the last scan say nothing of it.      *)
LEMMA JSONInvNext == IInv /\ IInv' /\ JSONInv /\ [Next]_vars => JSONInv'
PROOF
  <1> SUFFICES ASSUME IInv, IInv', JSONInv, [Next]_vars, JSONActive' PROVE JSONInv'
    BY DEF JSONInv
  <1> DEFINE effective == EffectiveFindings(config.policy, first)
  <1>1. config' = config
    BY DEF Next, vars, Write, Refuse, ScanWhole, ScanCanonicalizers, SkipRemaining, ScanRemaining,
           EnforceFirst, RemoveSpans, Rescan, RefuseSpan, EnforceSecond, Revalidate
  <1>2. JSONActive
    BY <1>1 DEF JSONActive
  <1>3. text \in Seq(Characters) /\ text \in Seq(Characters \cup {Marker})
    BY TextIsText DEF IInv, Findings
  <1>4. CASE phase' \notin {"scanned", "rescanned", "enforced", "done"}
    BY <1>4 DEF JSONInv, PassedOutputIsValid
  <1>5. ASSUME NEW piece, Write(piece) PROVE JSONInv'
    BY <1>4, <1>5 DEF Write
  <1>6. CASE Refuse
    BY <1>4, <1>6 DEF Refuse
  <1>7. CASE ScanWhole
    <2> DEFINE scan == Scan(config, AllRules, text)
    <2>1. phase' \in {"raised", "scanned"} /\ text' = text /\ (scan # <<>> => first' = scan[1])
          /\ (phase' = "scanned" => scan # <<>>)
      BY <1>7 DEF ScanWhole, Proceed
    <2>2. "json" \in AllRules
      BY JSONIsRule DEF AllRules
    <2>3. phase' = "scanned" => JSONSeen(first', text)
      BY <1>2, <1>3, <2>1, <2>2, ScanSeesJSON
    <2> HIDE DEF scan
    <2>4. phase' = "scanned" => JSONSeen(first, text)'
      BY <1>1, <2>1, <2>3 DEF JSONSeen, IsJSON
    <2>5. QED
      BY <1>4, <2>1, <2>4 DEF JSONInv, PassedOutputIsValid
  <1>8. CASE ScanCanonicalizers
    BY <1>4, <1>8 DEF ScanCanonicalizers, Proceed
  <1>9. CASE SkipRemaining
    <2>1. phase' = "scanned" /\ first' = first /\ Rescans(effective)
      BY <1>9 DEF SkipRemaining
    <2>2. QED
      BY <1>1, <2>1 DEF JSONInv, PassedOutputIsValid
  <1>10. CASE ScanRemaining
    <2> DEFINE rest == AllRules \ Canonicalizers
               scan == Scan(config, rest, text)
               all == SortFindings(first \o scan[1])
    <2>1. phase' \in {"raised", "scanned"} /\ text' = text /\ (scan # <<>> => first' = all)
          /\ (phase' = "scanned" => scan # <<>>)
      BY <1>10 DEF ScanRemaining, Proceed
    <2>2. "json" \in rest
      BY JSONIsRule DEF AllRules, Canonicalizers
    <2> HIDE DEF rest
    <2>3. scan # <<>> => JSONSeen(scan[1], text) /\ SpansFit(scan[1], text)
      BY <1>2, <1>3, <2>2, ScanSeesJSON, TextScan
    <2> HIDE DEF scan
    <2>4. scan # <<>> => Range(scan[1]) \subseteq Range(all)
      <3> DEFINE found == scan[1]
                 joined == first \o found
      <3>1. scan # <<>> => first \in Seq(Finding) /\ found \in Seq(Finding)
        BY <2>3 DEF IInv, Findings, SpansFit
      <3> HIDE DEF found
      <3>2. scan # <<>> => joined \in Seq(Finding) /\ Range(joined) = Range(first) \cup Range(found)
        BY <3>1, RangeConcatenation
      <3> HIDE DEF joined
      <3>3. scan # <<>> => Range(SortFindings(joined)) = Range(joined)
        BY <3>2, FindingsSorted
      <3>4. QED
        BY <3>2, <3>3 DEF joined, found
    <2> HIDE DEF all
    <2>5. phase' = "scanned" => JSONSeen(first', text)
      BY <2>1, <2>3, <2>4, SeenWithMore
    <2>6. phase' = "scanned" => JSONSeen(first, text)'
      BY <1>1, <2>1, <2>5 DEF JSONSeen, IsJSON
    <2>7. QED
      BY <1>4, <2>1, <2>6 DEF JSONInv, PassedOutputIsValid
  <1>11. CASE EnforceFirst
    <2> DEFINE r == Apply(config.policy, text, first)
    <2>1. phase = "scanned" /\ ~Rescans(effective) /\ phase' = "enforced" /\ text' = text
          /\ result' = <<r>>
      BY <1>11 DEF EnforceFirst
    <2>2. JSONSeen(first, text)
      BY <1>2, <2>1 DEF JSONInv
    <2>3. IsJSON(text) \/ r.text = Blocked \/ Reviewed(r)
      BY <1>3, <2>2, SeenIsEnforced DEF IInv, Findings
    <2> HIDE DEF r
    <2>4. result'[1] = r
      BY <2>1
    <2>5. r.text = text => IsJSON(text) \/ Reviewed(r)
      BY <1>3, <2>3, BlockedIsNoText
    <2>6. result'[1].text = text' => IsJSON(text)' \/ Reviewed(result[1])'
      BY <1>1, <2>1, <2>4, <2>5 DEF IsJSON, Reviewed
    <2>7. QED
      BY <2>1, <2>6 DEF JSONInv, PassedOutputIsValid
  <1>12. CASE RemoveSpans
    BY <1>4, <1>12 DEF RemoveSpans
  <1>13. CASE Rescan
    <2> DEFINE u == removal[1].text
               scan == Scan(config, AllRules, u)
    <2>1. phase = "removed" /\ phase' \in {"raised", "rescanned"} /\ removal' = removal
          /\ (phase' = "rescanned" => scan # <<>> /\ second' = scan[1])
      BY <1>13 DEF Rescan
    <2>2. u \in Seq(Characters \cup {Marker})
      BY <2>1, RemainderIsText
    <2>3. "json" \in AllRules
      BY JSONIsRule DEF AllRules
    <2>4. phase' = "rescanned" => JSONSeen(second', u)
      BY <1>2, <2>1, <2>2, <2>3, ScanSeesJSON
    <2> HIDE DEF scan
    <2>5. phase' = "rescanned" => JSONSeen(second, removal[1].text)'
      BY <1>1, <2>1, <2>4 DEF JSONSeen, IsJSON
    <2>6. QED
      BY <1>4, <2>1, <2>5 DEF JSONInv, PassedOutputIsValid
  <1>14. CASE RefuseSpan
    BY <1>4, <1>14 DEF RefuseSpan
  <1>15. CASE EnforceSecond
    <2>1. phase = "rescanned" /\ phase' = "enforced" /\ text' = text
      BY <1>15 DEF EnforceSecond
    <2>2. JSONSeen(second, removal[1].text)
      BY <1>2, <2>1 DEF JSONInv
    <2>3. result'[1].text = text => IsJSON(text) \/ Reviewed(result'[1])
      BY <1>2, <1>15, <2>2, SecondIsEnforced
    <2>4. result'[1].text = text' => IsJSON(text)' \/ Reviewed(result[1])'
      BY <1>1, <2>1, <2>3 DEF IsJSON, Reviewed
    <2>5. QED
      BY <2>1, <2>4 DEF JSONInv, PassedOutputIsValid
  <1>16. CASE Revalidate
    <2>1. phase' = "done"
      BY <1>16 DEF Revalidate
    <2>2. result'[1].text # Blocked => IsJSON(result'[1].text) \/ Reviewed(result'[1])
      BY <1>2, <1>16, RevalidatedIsJSON
    <2>3. result'[1].text # Blocked => IsJSON(result[1].text)' \/ Reviewed(result[1])'
      BY <1>1, <2>2 DEF IsJSON, Reviewed
    <2>4. QED
      BY <2>1, <2>3 DEF JSONInv, PassedOutputIsValid, IsJSON, Reviewed
  <1>17. CASE UNCHANGED vars
    BY <1>2, <1>17 DEF vars, JSONInv, JSONSeen, IsJSON, Reviewed, PassedOutputIsValid
  <1>18. QED
    BY <1>5, <1>6, <1>7, <1>8, <1>9, <1>10, <1>11, <1>12, <1>13, <1>14, <1>15, <1>16, <1>17
    DEF Next

-----------------------------------------------------------------------------
(* A call is at one place of its sequence of steps, what it has found      *)
(* always lies inside the text it was found in, and a result withholds its *)
(* text exactly when it blocks: for every engine, text and rule.           *)
THEOREM CallsAreWellFormed == Spec => []TypeOK
PROOF
  <1>1. Spec => []IInv
    BY IInvInit, IInvNext, PTL DEF Spec
  <1>2. IInv => TypeOK
    BY IInvImplies
  <1>3. QED
    BY <1>1, <1>2, PTL

(* The text of a result is the original without exactly the characters     *)
(* that a finding to remove or redact covers, and one marker in each gap   *)
(* with redacted characters, whichever scan the findings come from.        *)
THEOREM ResultsKeepUncoveredText == Spec => []KeepsUncoveredText
PROOF
  <1>1. Spec => []IInv
    BY IInvInit, IInvNext, PTL DEF Spec
  <1>2. IInv => KeepsUncoveredText
    BY IInvImplies
  <1>3. QED
    BY <1>1, <1>2, PTL

(* What the second scan found in the text without the removals is enforced *)
(* on the original text as if the scanned text had been rewritten: nothing *)
(* that was not scanned is in the result, and nothing is lost.             *)
THEOREM SecondScanIsEnforced == Spec => []EnforcesWhatWasScanned
PROOF
  <1>1. Spec => []IInv
    BY IInvInit, IInvNext, PTL DEF Spec
  <1>2. IInv => EnforcesWhatWasScanned
    BY IInvImplies
  <1>3. QED
    BY <1>1, <1>2, PTL

(* Output that must be JSON is JSON when it is let through, or the result  *)
(* reports that it is not: whatever was removed from the document or       *)
(* redacted in it, by the first or the second scan, for every engine,      *)
(* policy and text.                                                        *)
THEOREM PassedOutputIsJSON == Spec => []PassedOutputIsValid
PROOF
  <1>1. Spec => []IInv
    BY IInvInit, IInvNext, PTL DEF Spec
  <1>2. Spec => []JSONInv
    BY <1>1, JSONInvInit, JSONInvNext, PTL DEF Spec
  <1>3. JSONInv => PassedOutputIsValid
    BY DEF JSONInv, JSONActive, PassedOutputIsValid
  <1>4. QED
    BY <1>2, <1>3, PTL

=============================================================================
