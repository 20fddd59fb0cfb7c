----------------------------- MODULE Inspection ------------------------------
(***************************************************************************)
(* What the rules see of a text: line endings normalised with a way back   *)
(* to the original offsets (normalizers.py) and bounded runs of invisible  *)
(* characters (inspection.py), and the three rules that report those runs  *)
(* (rules/bidi_control.py, rules/invisible_characters.py and               *)
(* rules/unicode_tag_smuggling.py).                                        *)
(***************************************************************************)
EXTENDS Redaction

CONSTANT MaxRuns \* _MAX_REMOVAL_RUNS and _MAX_RUNS_PER_GROUP, 64 in the code

ASSUME RunsAssumption == MaxRuns \in Nat \ {0}

(* Characters, one or two of each class that inspection tells apart.       *)
TokenChars == {"A", "a", "b", "p", "s", "1", "8"}     \* _ASCII_TOKEN_CHARS
Invisibles == {"ZWSP", "WJ"}                 \* _CONTEXTUAL_INVISIBLE_CHARACTERS
Overrides  == {"RLO"}                                 \* LRO, RLO
Formats    == {"LRE"}                                 \* embeddings, isolates
Tags       == {"TAG", "END"}                          \* U+E0020 .. U+E007F
TagStarts  == Tags \cup {"LANG"}                      \* and U+E0001
FlagTags   == <<"TAG", "END">>                        \* _RGI_FLAG_TAG_RUNS
BlackFlag  == "FLAG"
Spaces     == {" ", "LF"}
Quote      == "quote"

-----------------------------------------------------------------------------
(* normalize_text: CRLF and CR become LF; boundaries[n + 1] is the         *)
(* original offset of the boundary n of the normalised text.               *)
NormalizeStep(acc, c) ==
    IF c = "LF" /\ acc.afterCR
    THEN [text       |-> acc.text,
          boundaries |-> [acc.boundaries EXCEPT ![Len(acc.boundaries)] = @ + 1],
          afterCR    |-> FALSE]
    ELSE [text       |-> Append(acc.text, IF c = "CR" THEN "LF" ELSE c),
          boundaries |-> Append(acc.boundaries, Last(acc.boundaries) + 1),
          afterCR    |-> c = "CR"]

Normalize(text) ==
    FoldLeft(NormalizeStep, [text |-> <<>>, boundaries |-> <<0>>, afterCR |-> FALSE], text)

(* NormalizedText.original_span of a match of a rule                       *)
Original(normal, match) ==
    [match EXCEPT !.start = normal.boundaries[@ + 1],
                  !.end   = normal.boundaries[@ + 1]]

Originals(normal, matches) == [n \in DOMAIN matches |-> Original(normal, matches[n])]

-----------------------------------------------------------------------------
(* The first offset from a on, before b, that a test holds of, or b.       *)
FirstWhere(Test(_), a, b) ==
    CHOOSE o \in a .. b : /\ o = b \/ Test(o)
                         /\ \A p \in a .. o - 1 : ~Test(p)

(* The end of the run of such characters that offset o is in.              *)
EndOfRun(text, chars, o) ==
    CHOOSE e \in o + 1 .. Len(text) :
        /\ e = Len(text) \/ text[e + 1] \notin chars
        /\ \A i \in o + 2 .. e : text[i] \in chars

(* Every maximal run of them, in order.                                    *)
RunsOf(text, chars) ==
    LET starts == SelectSeq([i \in DOMAIN text |-> i - 1],
                      LAMBDA o : /\ text[o + 1] \in chars
                                 /\ o = 0 \/ text[o] \notin chars)
    IN  [n \in DOMAIN starts |-> [start |-> starts[n],
                                  end   |-> EndOfRun(text, chars, starts[n])]]

Match(rule, action, span) ==
    [rule |-> rule, action |-> action, start |-> span.start, end |-> span.end]

Matches(rule, action, spans) == [n \in DOMAIN spans |-> Match(rule, action, spans[n])]

(* BidiControlRule.scan over _compute_bidi_control_runs: the search stops  *)
(* at the first run too many of one kind, and that run blocks.             *)
BidiScan(text) ==
    LET Limited(found) ==
            LET tooMany == {n \in DOMAIN found :
                    Cardinality({m \in 1 .. n : found[m].action = found[n].action}) > MaxRuns}
            IN  IF tooMany = {} THEN found ELSE <<Match("bidi", "BLOCK", found[Min(tooMany)])>>
    IN  Limited(SortSpans(Matches("bidi", "REMOVE", RunsOf(text, Overrides))
                          \o Matches("bidi", "REVIEW", RunsOf(text, Formats))))

-----------------------------------------------------------------------------
(* An emoji flag's own tag characters, which are left alone.               *)
IsFlagRun(text, start, end) ==
    /\ start > 0 /\ text[start] = BlackFlag
    /\ end <= Len(text) /\ Slice(text, start, end) = FlagTags

(* _INVALID_FLAG_TAG_RUN: where the search that leaves out flag runs       *)
(* itself may find a tag run.                                              *)
MayStartTagRun(text, o) ==
    /\ o > 0 => text[o] \notin TagStarts
    /\ LET past == o + Len(FlagTags)
       IN  IsFlagRun(text, o, past) => past < Len(text) /\ text[past + 1] \in TagStarts

Embedded(text, start, end) ==
    /\ start > 0 /\ text[start] \in TokenChars
    /\ end < Len(text) /\ text[end + 1] \in TokenChars

(* _compute_unicode_security: the runs of both kinds, in order.  After a   *)
(* flag the search leaves out flag runs until it has found another run.    *)
(* The code stops collecting a kind one run past MaxRuns; neither that nor *)
(* the choice of its regexes changes which runs come before.               *)
SecurityRuns(text) ==
    LET from[o \in 0 .. Len(text), skipFlags \in BOOLEAN] ==
        IF o = Len(text) THEN <<>>
        ELSE IF text[o + 1] \in Invisibles
        THEN LET end == EndOfRun(text, Invisibles, o)
             IN  (IF Embedded(text, o, end)
                  THEN <<[kind |-> "invisible", start |-> o, end |-> end]>> ELSE <<>>)
                 \o from[end, skipFlags]
        ELSE IF text[o + 1] \in TagStarts /\ (skipFlags => MayStartTagRun(text, o))
        THEN LET end == EndOfRun(text, Tags, o)
             IN  IF IsFlagRun(text, o, end) THEN from[end, TRUE]
                 ELSE <<[kind |-> "tag", start |-> o, end |-> end]>> \o from[end, FALSE]
        ELSE from[o + 1, skipFlags]
    IN  from[0, FALSE]

(* Mutant of RemovalScan: too many runs are cut off and not blocked.       *)
RemovalScanOfFirst(kind, text) ==
    LET runs == SelectSeq(SecurityRuns(text), LAMBDA r : r.kind = kind)
    IN  Matches(kind, "REMOVE", SubSeq(runs, 1, Min({MaxRuns, Len(runs)})))

(* InvisibleCharactersRule.scan, UnicodeTagSmugglingRule.scan: every run   *)
(* removed, or the first one too many blocked and nothing else reported.   *)
RemovalScan(kind, text) ==
    LET Limited(runs) == IF Len(runs) > MaxRuns
                         THEN <<Match(kind, "BLOCK", runs[MaxRuns + 1])>>
                         ELSE Matches(kind, "REMOVE", runs)
    IN  Limited(SelectSeq(SecurityRuns(text), LAMBDA r : r.kind = kind))

==============================================================================
