------------------------------ MODULE CardScan -------------------------------
(***************************************************************************)
(* The payment-card rule over a whole text (rules/payment_card.py) and the *)
(* detector that finds the same cards in a text that arrives in pieces     *)
(* (_payment_card_stream.py).                                              *)
(***************************************************************************)
EXTENDS Redaction

CONSTANTS
    CardDigits, \* how many digits a card has: 13 .. 19 in the code
    HoldBack    \* HOLD_BACK_CHARS, 42 in the code: what the detector keeps back

(* The widest candidate has a separator between any two digits.            *)
CardWidth == 2 * Max(CardDigits) - 1

ASSUME CardAssumption ==
    /\ CardDigits \subseteq Nat \ {0}
    /\ \E most \in CardDigits : \A n \in CardDigits : n <= most
    /\ HoldBack \in Nat

DigitValue == [c \in {"0", "1", "2", "3", "4", "5", "6", "7", "8", "9"} |->
    CASE c = "0" -> 0 [] c = "1" -> 1 [] c = "2" -> 2 [] c = "3" -> 3 [] c = "4" -> 4
      [] c = "5" -> 5 [] c = "6" -> 6 [] c = "7" -> 7 [] c = "8" -> 8 [] OTHER -> 9]

Separators == {" ", "-"}

LatestOf(a, b) == IF a >= b THEN a ELSE b
EarliestOf(a, b) == IF a <= b THEN a ELSE b

IsDigit(c) == c \in DOMAIN DigitValue

DigitAt(text, o) == o < Len(text) /\ IsDigit(text[o + 1])

SeparatedDigitAt(text, o) ==
    o < Len(text) /\ text[o + 1] \in Separators /\ DigitAt(text, o + 1)

(* The lookbehinds: no digit, and no digit and separator, before offset o. *)
RunStartsAt(text, o) ==
    /\ DigitAt(text, o)
    /\ o >= 1 => ~IsDigit(text[o])
    /\ o >= 2 => ~(text[o] \in Separators /\ IsDigit(text[o - 1]))

(* The lookaheads leave the regex no choice but to take the whole run.     *)
RunEnd(text, o) ==
    LET ends == {e \in o + 1 .. Len(text) :
                    ~DigitAt(text, e) /\ ~SeparatedDigitAt(text, e)}
    IN  CHOOSE e \in ends : \A f \in ends : e <= f

KeepDigit(digits, c) == IF IsDigit(c) THEN Append(digits, c) ELSE digits

DigitsIn(text, start, end) == FoldLeft(KeepDigit, <<>>, Slice(text, start, end))

(* _CARD_CANDIDATE.finditer(text, position), in order: at is where the     *)
(* search has got to.                                                      *)
IsCandidate(text, o) ==
    RunStartsAt(text, o) /\ Len(DigitsIn(text, o, RunEnd(text, o))) \in CardDigits

CandidateStep(search, char) ==
    [search EXCEPT !.at = @ + 1,
                   !.spans = IF search.at >= search.position /\ IsCandidate(search.text, search.at)
                             THEN Append(@, [start |-> search.at,
                                             end   |-> RunEnd(search.text, search.at)])
                             ELSE @]

Candidates(text, position) ==
    FoldLeft(CandidateStep, [text |-> text, position |-> position, at |-> 0, spans |-> <<>>],
             text).spans

(* _passes_luhn: counted from the right, every second digit is doubled.    *)
PassesLuhn(digits) ==
    LET worth(i) == LET value == DigitValue[digits[i]]
                    IN  IF (Len(digits) - i) % 2 = 0 THEN value
                        ELSE IF 2 * value > 9 THEN 2 * value - 9 ELSE 2 * value
    IN  FoldLeftDomain(LAMBDA sum, i : sum + worth(i), 0, digits) % 10 = 0

(* _candidate_properties and _passes_luhn: one kind of separator, at least *)
(* two different digits, and a valid checksum.                             *)
IsCard(text, span) ==
    LET digits == DigitsIn(text, span.start, span.end)
    IN  /\ Cardinality(Range(Slice(text, span.start, span.end)) \cap Separators) <= 1
        /\ Cardinality(Range(digits)) > 1
        /\ PassesLuhn(digits)

CardFinding(start, end, action) ==
    [rule |-> "card", action |-> action, start |-> start, end |-> end]

(* The findings of those candidates that are cards, in a text that begins  *)
(* at an offset.                                                           *)
CardsAmong(spans, text, offset) ==
    LET Found(cards) == [i \in DOMAIN cards |->
            CardFinding(offset + cards[i].start, offset + cards[i].end, "REDACT")]
    IN  Found(Among({s \in Range(spans) : IsCard(text, s)}, spans))

(* PaymentCardRule.scan: candidates count against the limit, cards or not. *)
CardScan(limit, text) ==
    LET Limited(spans) ==
            CardsAmong(SubSeq(spans, 1, EarliestOf(limit, Len(spans))), text, 0)
              \o (IF Len(spans) <= limit THEN <<>>
                  ELSE <<CardFinding(spans[limit + 1].start, Len(text), "BLOCK")>>)
    IN  Limited(Candidates(text, 0))

-----------------------------------------------------------------------------
(* The detector: a window of the text, the offset of its first character,  *)
(* where to go on scanning, how many candidates were counted and, once     *)
(* there were too many, where the first one too many starts.               *)
None == -1

NewDetector == [pending |-> <<>>, offset |-> 0, received |-> 0,
                scanned |-> 0, count |-> 0, overflow |-> None]

(* _advance: the detector after it, the new findings and safe_through.     *)
(* Cards are finalised only when they start before commit; two characters  *)
(* before commit stay in the window, for the lookbehinds.                  *)
Advance(limit, d, commit, final) ==
    LET room    == limit - d.count
        discard == LatestOf(0, commit - 2)
        Visit(spans) ==
            LET over    == Len(spans) > room
                taken   == IF over THEN SubSeq(spans, 1, room) ELSE spans
                visited == IF over THEN SubSeq(spans, 1, room + 1) ELSE spans
                start   == IF over THEN d.offset + spans[room + 1].start ELSE d.overflow
            IN  [detector |->
                    [d EXCEPT
                        !.pending  = Slice(@, discard, Len(@)),
                        !.offset   = @ + discard,
                        !.count    = @ + Len(taken),
                        !.overflow = start,
                        !.scanned  = IF d.overflow # None THEN @
                                     ELSE LatestOf(d.offset + commit,
                                                   IF visited = <<>> THEN @
                                                   ELSE d.offset + Last(visited).end)],
                 findings |->
                    CardsAmong(taken, d.pending, d.offset)
                      \o (IF final /\ start # None
                          THEN <<CardFinding(start, d.received, "REDACT")>> ELSE <<>>),
                 safe |-> d.offset + commit]
        Due(spans) == Among({s \in Range(spans) : final \/ s.start < commit}, spans)
    IN  Visit(IF d.overflow # None THEN <<>>
              ELSE Due(Candidates(d.pending, LatestOf(0, d.scanned - d.offset))))

(* Mutant of DetectorFeed: the window is kept back one character less than *)
(* the widest candidate and its lookahead need.                            *)
DetectorFeedHastily(limit, d, chunk) ==
    LET all == d.pending \o chunk
    IN  Advance(limit,
                [d EXCEPT !.pending = all, !.received = @ + Len(chunk)],
                LatestOf(0, Len(all) - (HoldBack - 2)), FALSE)

(* _PaymentCardStreamDetector.feed *)
DetectorFeed(limit, d, chunk) ==
    LET all == d.pending \o chunk
    IN  Advance(limit,
                [d EXCEPT !.pending = all, !.received = @ + Len(chunk)],
                LatestOf(0, Len(all) - HoldBack), FALSE)

(* finish: everything is final and the window is dropped.                  *)
DetectorFinish(limit, d) ==
    LET last == Advance(limit, d, Len(d.pending), TRUE)
    IN  [last EXCEPT !.detector.pending = <<>>, !.detector.offset = d.received]

==============================================================================
