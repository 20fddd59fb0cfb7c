------------------------------ MODULE Redaction ------------------------------
(***************************************************************************)
(* Spans, findings and the rewriting of a text along them: findings.py and *)
(* redaction.py.  A text is a sequence of characters.  A span is a record  *)
(* with the code's half-open, zero-based offsets start and end, so the     *)
(* character at offset o of text t is t[o + 1].  A finding is a span with  *)
(* its rule and action; severity, message, preview and metadata say        *)
(* nothing about where text is cut and are left out.                       *)
(***************************************************************************)
EXTENDS Integers, Sequences, SequencesExt

Actions == {"ALLOW", "REVIEW", "REMOVE", "REDACT", "BLOCK"}

(* The configured redaction text: one symbol that no text contains.        *)
Marker == "[REDACTED]"

(* text[a:b] *)
Slice(text, a, b) == SubSeq(text, a + 1, b)

(* Span.__post_init__ accepts exactly these offsets.                       *)
IsSpan(s) == /\ s.start >= 0
             /\ s.end >= s.start

(* What Finding.__post_init__ accepts, and the findings a text can have.   *)
RuleOrder == <<"content", "resource", "json", "card", "connection", "secret", "repetition",
               "bidi", "invisible", "tag", "url">>

Finding == [rule : Range(RuleOrder), action : Actions, start : Nat, end : Nat]

SpansFit(findings, text) ==
    /\ findings \in Seq(Finding)
    /\ \A f \in Range(findings) : IsSpan(f) /\ f.end <= Len(text)

(* A stable sort, as Python's sorted is: an element goes in front of the   *)
(* first one it comes before.                                              *)
InsertBy(Before(_, _), sorted, x) ==
    InsertAt(sorted,
             CHOOSE n \in 1 .. Len(sorted) + 1 :
                 /\ n = Len(sorted) + 1 \/ Before(x, sorted[n])
                 /\ \A m \in 1 .. n - 1 : ~Before(x, sorted[m]),
             x)

(* The order of findings that RuleScanner.scan, the policy and the stream  *)
(* all sort by; rule names are ranked by their position in RuleOrder,      *)
(* alphabetical as the code's identifiers are.                             *)
RuleRank(r) == CHOOSE i \in DOMAIN RuleOrder : RuleOrder[i] = r

FindingBefore(f, g) ==
    \/ f.start < g.start
    \/ f.start = g.start /\ f.end < g.end
    \/ f.start = g.start /\ f.end = g.end /\ RuleRank(f.rule) < RuleRank(g.rule)

InsertFinding(sorted, f) == InsertBy(FindingBefore, sorted, f)

SortFindings(findings) == FoldLeft(InsertFinding, <<>>, findings)

(* The order of spans, whatever else they carry.                           *)
SpanBefore(s, t) == s.start < t.start \/ (s.start = t.start /\ s.end < t.end)

InsertSpan(sorted, s) == InsertBy(SpanBefore, sorted, s)

SortSpans(spans) == FoldLeft(InsertSpan, <<>>, spans)

(* The elements of a sequence that are in a set, in their order: what the  *)
(* comprehensions over findings and spans select.                          *)
KeepMember(acc, x) == IF x \in acc.among THEN [acc EXCEPT !.kept = Append(@, x)] ELSE acc

Among(S, seq) == FoldLeft(KeepMember, [among |-> S, kept |-> <<>>], seq).kept

-----------------------------------------------------------------------------
(* The findings that change the text, and their spans as operations.       *)
KeepRewriting(kept, f) == IF f.action \in {"REMOVE", "REDACT"} THEN Append(kept, f) ELSE kept

Rewriting(findings) == FoldLeft(KeepRewriting, <<>>, findings)

Operations(findings) ==
    [i \in DOMAIN findings |-> [start  |-> findings[i].start,
                                end    |-> findings[i].end,
                                redact |-> findings[i].action = "REDACT"]]

(* Mutant of MergeStep: a merged span ends where its last part does, also  *)
(* when an earlier part goes on behind that.                               *)
MergeStepToTheLast(merged, s) ==
    IF merged # <<>> /\ s.start <= Last(merged).end
    THEN [merged EXCEPT ![Len(merged)] =
              [start |-> @.start, end |-> s.end, redact |-> @.redact \/ s.redact]]
    ELSE Append(merged, s)

(* Overlapping and touching spans become one; a merged span is redacted    *)
(* when one of its parts is.  The same loop stands in redact_findings,     *)
(* sanitize_findings, the policy's removal and the stream's engine.        *)
MergeStep(merged, s) ==
    IF merged # <<>> /\ s.start <= Last(merged).end
    THEN [merged EXCEPT ![Len(merged)] =
              [start  |-> @.start,
               end    |-> IF s.end > @.end THEN s.end ELSE @.end,
               redact |-> @.redact \/ s.redact]]
    ELSE Append(merged, s)

MergeSpans(spans) == FoldLeft(MergeStep, <<>>, SortSpans(spans))

(* The single left-to-right rebuild: the text between merged spans, and a  *)
(* marker for each redacted one.                                           *)
RebuildStep(acc, s) ==
    [text   |-> acc.text,
     cursor |-> s.end,
     parts  |-> acc.parts \o Slice(acc.text, acc.cursor, s.start)
                          \o (IF s.redact THEN <<Marker>> ELSE <<>>)]

Rebuild(text, merged) ==
    LET Closed(done) == done.parts \o Slice(text, done.cursor, Len(text))
    IN  Closed(FoldLeft(RebuildStep, [text |-> text, cursor |-> 0, parts |-> <<>>], merged))

(* sanitize_findings *)
SanitizeFindings(text, findings) ==
    Rebuild(text, MergeSpans(Operations(Rewriting(findings))))

-----------------------------------------------------------------------------
(* What that comes to, offset by offset: a character stays when no finding *)
(* that changes the text covers it, and a marker stands where a stretch of *)
(* covered text opens that holds a redaction, or at an empty one.          *)
Uncovered(text, findings) ==
    LET changing   == {f \in Range(findings) : f.action \in {"REMOVE", "REDACT"}}
        covered(o) == \E f \in changing : f.start <= o /\ o < f.end
        opens(o)   == /\ o = 0 \/ ~covered(o - 1)
                      /\ \E f \in changing : /\ f.action = "REDACT" /\ o <= f.start
                                             /\ \A i \in o .. f.start - 1 : covered(i)
        at(o)      == (IF opens(o) THEN <<Marker>> ELSE <<>>)
                      \o (IF o = Len(text) \/ covered(o) THEN <<>> ELSE <<text[o + 1]>>)
    IN  FlattenSeq([i \in 1 .. Len(text) + 1 |-> at(i - 1)])

==============================================================================
