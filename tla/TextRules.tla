------------------------------ MODULE TextRules ------------------------------
(***************************************************************************)
(* Three rules over a whole normalised text: banned literals               *)
(* (literal_matcher.py, rules/banned_substrings.py), repetition            *)
(* (rules/repetition.py) and the validity of a JSON document               *)
(* (rules/json_output.py).                                                 *)
(***************************************************************************)
EXTENDS Inspection

CONSTANTS
    MinLiteral,   \* _MIN_LITERAL_LENGTH, 3 in the code
    MaxLiteral,   \* _MAX_LITERAL_LENGTH, 64
    MaxLiterals,  \* _MAX_FINDINGS of the banned-substring rule, 64
    MaxTracked    \* _MAX_TRACKED_TOKEN_CHARS and _MAX_TRACKED_LINE_CHARS

ASSUME LiteralAssumption ==
    /\ MinLiteral \in Nat \ {0} /\ MaxLiteral \in Nat /\ MinLiteral <= MaxLiteral
    /\ MaxLiterals \in Nat \ {0}
    /\ MaxTracked \in Nat

(* A literal is [value, word, sensitive, action]; case exists for one      *)
(* letter.  Characters of literals in the order of their code points.      *)
CodePoints == <<"1", "8", "A", "a", "b", "p", "s">>
CodePoint(c) == CHOOSE n \in DOMAIN CodePoints : CodePoints[n] = c
Lower(c) == IF c = "A" THEN "a" ELSE c
LowerAll(s) == [i \in DOMAIN s |-> Lower(s[i])]
WordChars == TokenChars \cup {"_"}

(* What LiteralDefinition and LiteralMatcher refuse at construction.       *)
AreLiterals(literals) ==
    /\ \A x \in literals : Len(x.value) \in MinLiteral .. MaxLiteral
    /\ \A x, y \in literals : LowerAll(x.value) = LowerAll(y.value) => x = y

(* The alternatives in the order a group's trie tries them: by character,  *)
(* the longer of two that begin alike first.                               *)
TriedBefore(v, w) ==
    \/ IsStrictPrefix(w, v)
    \/ \E n \in DOMAIN v \cap DOMAIN w :
        /\ SubSeq(v, 1, n - 1) = SubSeq(w, 1, n - 1)
        /\ CodePoint(v[n]) < CodePoint(w[n])

OccursAt(x, text, o) ==
    LET end  == o + Len(x.value)
        here == Slice(text, o, end)
    IN  /\ end <= Len(text)
        /\ IF x.sensitive THEN here = x.value ELSE LowerAll(here) = LowerAll(x.value)
        /\ x.word => /\ o = 0 \/ text[o] \notin WordChars
                     /\ end = Len(text) \/ text[end + 1] \notin WordChars

TriedFirst(here) == {x \in here : \A y \in here \ {x} : TriedBefore(x.value, y.value)}

(* The disjoint matches of one group, from left to right.                  *)
GroupMatches(group, text) ==
    LET from[o \in 0 .. Len(text)] ==
        LET Behind(x) == <<[start |-> o, end |-> o + Len(x.value), literal |-> x]>>
                         \o from[o + Len(x.value)]
            Next(here) == IF here = {} THEN from[o + 1] ELSE Behind(CHOOSE x \in here : TRUE)
        IN  IF o = Len(text) THEN <<>>
            ELSE Next(TriedFirst({x \in group : OccursAt(x, text, o)}))
    IN  from[0]

Groups(literals) ==
    {{x \in literals : x.word = w /\ x.sensitive = s} : w, s \in BOOLEAN}

(* Matches of different groups compete: the first, then the longest.  The  *)
(* same text is never two literals.                                        *)
Preferred(m, n) == m.start < n.start \/ (m.start = n.start /\ m.end > n.end)

SelectDisjoint(candidates) ==
    FoldLeft(LAMBDA chosen, m :
                 IF chosen # <<>> /\ m.start < Last(chosen).end THEN chosen
                 ELSE Append(chosen, m),
             <<>>, SortSeq(candidates, Preferred))

(* Mutant of RawLimit: one match more than are reported is taken for an     *)
(* overflow, as if the matches of a group did not hide behind longer ones.  *)
RawLimitOfOneGroup == MaxLiterals + 1

(* raw_limit: more matches of one group than can hide behind max_matches   *)
(* selected ones.                                                          *)
RawLimit == MaxLiterals * ((MaxLiteral + MinLiteral - 1) \div MinLiteral) + 1

(* LiteralMatcher.find                                                     *)
FindLiterals(literals, text) ==
    LET Capped(found) == SubSeq(found, 1, Min({RawLimit, Len(found)}))
        Limited(chosen) ==
            [matches  |-> SubSeq(chosen, 1, Min({MaxLiterals, Len(chosen)})),
             overflow |-> \/ Len(chosen) > MaxLiterals
                          \/ \E g \in Groups(literals) : Len(GroupMatches(g, text)) > RawLimit]
    IN  Limited(SelectDisjoint(FoldSet(LAMBDA g, all : all \o Capped(GroupMatches(g, text)),
                                       <<>>, Groups(literals))))

(* BannedSubstringsRule.scan: every match, or a block of the last one.     *)
LiteralScan(literals, text) ==
    LET Report(result) ==
            IF result.overflow THEN <<Match("content", "BLOCK", Last(result.matches))>>
            ELSE [n \in DOMAIN result.matches |->
                     Match("content", result.matches[n].literal.action, result.matches[n])]
    IN  Report(FindLiterals(literals, text))

-----------------------------------------------------------------------------
(* Runs of at least threshold equal units in a row; a unit is a span with  *)
(* a value, <<>> when it is not tracked.                                   *)
Repeats(units, threshold) ==
    LET last(n)  == CHOOSE m \in n .. Len(units) :
                        /\ \A i \in n .. m : units[i].value = units[n].value
                        /\ m < Len(units) => units[m + 1].value # units[n].value
        starts   == SelectSeq([n \in DOMAIN units |-> n],
                        LAMBDA n : /\ units[n].value # <<>>
                                   /\ n = 1 \/ units[n - 1].value # units[n].value
                                   /\ last(n) - n + 1 >= threshold)
    IN  [k \in DOMAIN starts |-> [start |-> units[starts[k]].start,
                                  end   |-> units[last(starts[k])].end]]

Tracked(text, span) ==
    LET value == Slice(text, span.start, span.end)
    IN  [start |-> span.start, end |-> span.end,
         value |-> IF \/ span.end - span.start > MaxTracked
                      \/ Range(value) \subseteq Spaces
                   THEN <<>> ELSE value]

(* _character_repeats, _token_repeats, _line_repeats: units that are       *)
(* characters, words, and lines without their separator.                   *)
CharacterUnits(text) == [i \in DOMAIN text |-> Tracked(text, [start |-> i - 1, end |-> i])]

TokenUnits(text) ==
    LET words   == RunsOf(text, Range(text) \ Spaces)
        tracked == [n \in DOMAIN words |-> Tracked(text, words[n])]
    IN  [n \in DOMAIN tracked |->
            IF Range(tracked[n].value) \cap TokenChars = {}
            THEN [tracked[n] EXCEPT !.value = <<>>] ELSE tracked[n]]

LineUnits(text) ==
    LET ends   == SelectSeq([i \in 1 .. Len(text) + 1 |-> i - 1],
                      LAMBDA o : o = Len(text) \/ text[o + 1] = "LF")
    IN  [n \in DOMAIN ends |->
            Tracked(text, [start |-> IF n = 1 THEN 0 ELSE ends[n - 1] + 1,
                           end   |-> ends[n]])]

(* RepetitionRule.scan: each kind looks for one repeat more than the limit *)
(* and the first one too many blocks the rest of the text.                 *)
RepetitionScan(thresholds, limit, text) ==
    LET first(units, threshold) ==
            LET all == Repeats(units, threshold)
            IN  SubSeq(all, 1, Min({limit + 1, Len(all)}))
        Limited(repeats) ==
            IF Len(repeats) <= limit THEN Matches("repetition", "REVIEW", repeats)
            ELSE Append(Matches("repetition", "REVIEW", SubSeq(repeats, 1, limit)),
                        Match("repetition", "BLOCK", [start |-> repeats[limit + 1].start,
                                                      end   |-> Len(text)]))
    IN  Limited(SortSpans(first(CharacterUnits(text), thresholds.character)
                          \o first(TokenUnits(text), thresholds.token)
                          \o first(LineUnits(text), thresholds.line)))

-----------------------------------------------------------------------------
(* JSON documents of arrays, strings without escapes, and natural numbers  *)
(* without a leading zero; the decoder is json.loads of Python 3.14.       *)
JSONDigits == {"1", "8"}

(* Valid, or the offset of the error.                                      *)
Valid == -1

(* _preflight, one character: whether it stands in a string, how deep the  *)
(* brackets are and how much structure there was; error is the offset      *)
(* where one of them was too much.                                         *)
PreflightStep(state, c) ==
    LET opens     == ~state.quoted /\ c = "["
        depth     == CASE opens -> state.depth + 1
                       [] ~state.quoted /\ c = "]" -> state.depth - 1
                       [] OTHER -> state.depth
        structure == IF opens \/ (~state.quoted /\ c = ",") THEN state.structure + 1
                     ELSE state.structure
    IN  [state EXCEPT
            !.at        = @ + 1,
            !.quoted    = IF c = Quote THEN ~@ ELSE @,
            !.depth     = depth,
            !.structure = structure,
            !.error     = IF @ = Valid /\ (\/ opens /\ depth > state.limits.depth
                                           \/ structure > state.limits.structure)
                          THEN state.at ELSE @]

Preflight(json, text) ==
    FoldLeft(PreflightStep, [limits |-> json, quoted |-> FALSE, depth |-> 0, structure |-> 0,
                             at |-> 0, error |-> Valid], text).error

LineEnds == {"LF", "CR"}

(* One character of the decoder.  It expects a value ("value"), a value or *)
(* the end of an array ("first"), what may follow a value ("after"), or is *)
(* inside a string or number that began at offset from; at is the offset   *)
(* of the character.                                                       *)
Decode(state, c) ==
    LET o       == state.at
        next    == [state EXCEPT !.at = @ + 1]
        to(m)   == [next EXCEPT !.mode = m]
        fail(p) == [next EXCEPT !.error = p]
        mode    == IF state.mode = "number" /\ c \notin JSONDigits THEN "after"
                   ELSE state.mode
        place   == mode \in {"value", "first"}
        inside  == state.depth > 0
    IN  IF state.error # Valid \/ mode = "number" THEN next
        ELSE IF mode = "string"
        THEN IF c = Quote THEN to("after") ELSE IF c \in LineEnds THEN fail(o) ELSE next
        ELSE IF c \in LineEnds \cup {" "} THEN to(mode)
        ELSE CASE place /\ c \in JSONDigits -> [to("number") EXCEPT !.from = o]
               [] place /\ c = Quote -> [to("string") EXCEPT !.from = o]
               [] place /\ c = "[" -> [to("first") EXCEPT !.depth = @ + 1]
               [] inside /\ mode \in {"first", "after"} /\ c = "]" ->
                     [to("after") EXCEPT !.depth = @ - 1]
               [] inside /\ mode = "after" /\ c = "," -> [to("value") EXCEPT !.from = o]
               [] inside /\ mode = "value" /\ c = "]" -> fail(state.from)
               [] OTHER -> fail(o)

DecodeError(text) ==
    LET Ended(last) ==
            CASE last.error # Valid -> last.error
              [] last.error = Valid /\ last.mode = "string" -> last.from
              [] last.error = Valid /\ last.mode \in {"after", "number"} /\ last.depth = 0 -> Valid
              [] OTHER -> Len(text)
    IN  Ended(FoldLeft(Decode, [mode |-> "value", depth |-> 0, from |-> 0, at |-> 0,
                                error |-> Valid], text))

(* JSONOutputRule.scan_text: one finding, on the character of the error or *)
(* empty at the end of the text.                                           *)
JSONScan(json, text) ==
    LET Position(preflight) == CASE Len(text) > json.document -> json.document
                                 [] Len(text) <= json.document /\ preflight # Valid -> preflight
                                 [] OTHER -> DecodeError(text)
        Report(position) ==
            IF position = Valid THEN <<>>
            ELSE <<Match("json", "BLOCK",
                         [start |-> position, end |-> Min({position + 1, Len(text)})])>>
    IN  Report(Position(Preflight(json, text)))

==============================================================================
