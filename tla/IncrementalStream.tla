-------------------------- MODULE IncrementalStream --------------------------
(***************************************************************************)
(* Redaction of a text that arrives in pieces: the engine of               *)
(* _incremental_stream.py and the coordinator of _stream_coordinator.py,   *)
(* as functions from their state and a chunk to the next state and the     *)
(* text released.  The state of each object is a record of its attributes. *)
(***************************************************************************)
EXTENDS SecretScan, CardScan

CONSTANTS
    SecretLimit, \* SecretsRule.MAX_CANDIDATES, 128 in the code
    MaxPending   \* MAX_PENDING_CANDIDATE_CHARS, 65536 in the code

ASSUME StreamAssumption ==
    /\ SecretLimit \in Nat
    /\ MaxPending \in Nat

(* The catalogs _IncrementalRedactionEngine.__init__ accepts: an unbounded *)
(* token can only be followed by a character that ends it for good, and a  *)
(* bounded one is short enough to be retained.                             *)
IsIncremental(catalog) ==
    \A sig \in Signatures(catalog) :
        IF sig.max = Unlimited THEN sig.ending = <<>> /\ sig.boundary = sig.suffix
                               ELSE sig.max <= MaxPending

(* previous: the character before pending, if there is one.                *)
(* atBoundary: what was released last ends with a redaction.               *)
(* open: an unbounded token that goes on, already redacted, if there is    *)
(* one.  waiting: the external findings not yet behind released text.      *)
NewEngine == [pending |-> <<>>, offset |-> 0, received |-> 0, previous |-> <<>>,
              atBoundary |-> FALSE, open |-> <<>>, overflow |-> None,
              findings |-> <<>>, external |-> <<>>, waiting |-> <<>>]

(* _secret_finding: whatever the signature recommends, a stream redacts.   *)
Redacted(finding, offset) == [finding EXCEPT !.action = "REDACT", !.start = @ + offset,
                                             !.end = @ + offset]

-----------------------------------------------------------------------------
(* The loop of _plan_segment: the tokens decided by the text at hand, and  *)
(* what stopped it: the end of the text, a candidate that more text could  *)
(* change, or an unbounded token that is certain and still going on; at is *)
(* where it stopped, sig the signature that stopped it.                    *)
DecideStep(loop, char) ==
    LET found == IF loop.at < loop.resume THEN {}
                 ELSE Announced(loop.catalog, loop.text, loop.at)
        on    == [loop EXCEPT !.at = @ + 1]
        Behind(c) ==
            IF loop.at < loop.next \/ ~Bounded(c.sig, loop.text, loop.at, loop.previous)
            THEN [on EXCEPT !.resume = c.past]
            ELSE IF c.past + c.n = Len(loop.text) /\ c.n <= c.sig.max /\ ~loop.final
            THEN [loop EXCEPT !.sig  = <<c.sig>>,
                              !.stop = IF c.sig.max = Unlimited /\ c.n >= c.sig.min
                                       THEN "open" ELSE "held"]
            ELSE IF IsToken(c.sig, loop.text, c.past, c.n)
            THEN [on EXCEPT !.resume = c.past, !.next = c.past + c.n,
                            !.tokens = Append(@, SecretFinding(c.sig, loop.at, c.past + c.n))]
            ELSE [on EXCEPT !.resume = c.past]
    IN  IF loop.stop # "end" THEN loop
        ELSE IF found = {} THEN on
        ELSE Behind(CHOOSE c \in found : TRUE)

Decided(catalog, eng, text, final) ==
    FoldLeft(DecideStep,
             [catalog |-> catalog, text |-> text, previous |-> eng.previous, final |-> final,
              at |-> 0, resume |-> 0, next |-> 0, tokens |-> <<>>, stop |-> "end", sig |-> <<>>],
             text)

(* _trailing_partial_start: where the text ends with the beginning of a    *)
(* prefix, the longest such end first; the end of the text when it does    *)
(* not.                                                                    *)
TrailingPartialStart(catalog, eng, text) ==
    LET starts == {o \in 0 .. Len(text) - 1 :
            \E sig \in Signatures(catalog) : \E p \in sig.prefixes :
                /\ IsStrictPrefix(Slice(text, o, Len(text)), p)
                /\ Bounded(sig, text, o, eng.previous)}
    IN  IF starts = {} THEN Len(text) ELSE Min(starts)

(* _plan_segment: text up to safe may be released.                         *)
PlanSegment(catalog, eng, text, final) ==
    LET room == SecretLimit - Len(eng.findings)
        Plan(d) ==
            LET plan == [safe |-> d.at, tokens |-> d.tokens, overflow |-> None, open |-> <<>>]
            IN  CASE Len(d.tokens) > room ->
                        LET first == d.tokens[room + 1].start
                        IN  [plan EXCEPT !.safe = first, !.overflow = eng.offset + first,
                                         !.tokens = SubSeq(@, 1, room)]
                  [] Len(d.tokens) <= room /\ d.stop = "open" /\ ~final ->
                        [plan EXCEPT !.open = <<[sig |-> d.sig[1], start |-> eng.offset + d.at,
                                                 end |-> eng.offset + Len(text),
                                                 last |-> Last(text)]>>]
                  [] Len(d.tokens) <= room /\ d.stop = "held" -> plan
                  [] OTHER ->
                        [plan EXCEPT !.safe = IF final THEN @
                                              ELSE TrailingPartialStart(catalog, eng, text)]
    IN  Plan(Decided(catalog, eng, text, final))

(* _constrain_plan: no external finding is cut in two; what the plan knew  *)
(* behind the cut is planned again with the next chunk.                    *)
ConstrainPlan(eng, plan) ==
    LET absolute == eng.offset + plan.safe
        cut      == {LatestOf(0, f.start - eng.offset) :
                        f \in {g \in Range(eng.waiting) :
                                  g.start < absolute /\ absolute < g.end}}
        safe     == Min(cut \cup {plan.safe})
    IN  IF safe = plan.safe THEN plan
        ELSE [safe |-> safe, overflow |-> None, open |-> <<>>,
              tokens |-> Among({t \in Range(plan.tokens) : t.end <= safe}, plan.tokens)]

(* What _apply_plan emits of a text that is safe up to an offset.          *)
Emission(text, merged, safe) ==
    LET Closed(done) == done.parts \o Slice(text, done.cursor, safe)
    IN  Closed(FoldLeft(RebuildStep, [text |-> text, cursor |-> 0, parts |-> <<>>], merged))

(* _apply_plan: the engine after it and the text released.                 *)
ApplyPlan(eng, text, plan) ==
    LET absolute == eng.offset + plan.safe
        fence    == plan.overflow # None \/ plan.open # <<>>
        findings == eng.findings \o [i \in DOMAIN plan.tokens |->
                                        Redacted(plan.tokens[i], eng.offset)]
        full     == plan.open # <<>> /\ Len(findings) >= SecretLimit
        Spans(fs, offset) == [i \in DOMAIN fs |->
            [start |-> fs[i].start - offset, end |-> fs[i].end - offset, redact |-> TRUE]]
        Shown(merged) ==
            IF eng.atBoundary /\ merged # <<>> /\ merged[1].start = 0
            THEN [merged EXCEPT ![1].redact = FALSE] ELSE merged
        Write(merged) ==
            LET reaches == merged # <<>> /\ Last(merged).end = plan.safe
                goesOn  == reaches \/ (eng.atBoundary /\ plan.safe = 0)
            IN  [engine |->
                    [eng EXCEPT
                        !.findings   = findings,
                        !.waiting    = Among({f \in Range(@) : f.end > absolute}, @),
                        !.previous   = IF plan.safe > 0 THEN <<text[plan.safe]>> ELSE @,
                        !.offset     = absolute,
                        !.pending    = IF fence THEN <<>>
                                       ELSE Slice(text, plan.safe, Len(text)),
                        !.overflow   = IF plan.overflow # None THEN plan.overflow
                                       ELSE IF full THEN plan.open[1].start ELSE @,
                        !.open       = IF full THEN @ ELSE plan.open,
                        !.atBoundary = IF fence THEN TRUE
                                       ELSE IF plan.safe > 0 THEN reaches ELSE @],
                 out |-> Emission(text, Shown(merged), plan.safe)
                           \o (IF fence /\ ~goesOn THEN <<Marker>> ELSE <<>>)]
    IN  Write(MergeSpans(Spans(plan.tokens, 0)
                         \o Spans(Among({f \in Range(eng.waiting) : f.end <= absolute},
                                        eng.waiting),
                                  eng.offset)))

-----------------------------------------------------------------------------
(* _consume with no unbounded token going on.                              *)
ConsumeText(catalog, eng, chunk, start) ==
    LET text == eng.pending \o chunk
        here == [eng EXCEPT !.pending = text,
                            !.offset = IF eng.pending = <<>> THEN start ELSE @]
    IN  ApplyPlan(here, text,
                  ConstrainPlan(here, PlanSegment(catalog, here, text, FALSE)))

(* _complete_unbounded *)
CompleteOpen(eng, end) ==
    [eng EXCEPT !.open = <<>>,
                !.findings = Append(@, [rule |-> "secret", action |-> "REDACT",
                                        start |-> eng.open[1].start, end |-> end])]

DropCovered(eng, end) ==
    [eng EXCEPT !.waiting = Among({f \in Range(@) : f.end > end}, @)]

(* _consume_external_overlap *)
CoverStep(upTo, f) == IF f.start <= upTo THEN LatestOf(upTo, f.end) ELSE upTo

(* _consume_unbounded: the token takes what continues it; when it ends,    *)
(* external findings that overlap or touch it are swallowed with it, and   *)
(* the rest of the chunk is consumed as text.                              *)
ConsumeOpen(catalog, eng, chunk, start) ==
    LET token   == eng.open[1]
        n       == SuffixLength(token.sig, chunk, 0)
        grown   == [eng EXCEPT !.open = <<[token EXCEPT !.end = start + n,
                              !.last = IF n > 0 THEN chunk[n] ELSE @]>>]
        covered == FoldLeft(CoverStep, start + n, eng.waiting)
        rest    == covered - start
        ended   == [CompleteOpen(grown, start + n) EXCEPT
                       !.waiting  = Among({f \in Range(@) : f.start > covered}, @),
                       !.previous = IF rest > n THEN <<chunk[rest]>>
                                    ELSE <<grown.open[1].last>>]
    IN  IF n = Len(chunk) THEN [engine |-> DropCovered(grown, start + n), out |-> <<>>]
        ELSE IF rest = Len(chunk) THEN [engine |-> ended, out |-> <<>>]
        ELSE ConsumeText(catalog, ended, Slice(chunk, rest, Len(chunk)), covered)

(* _IncrementalRedactionEngine.feed and _consume                           *)
EngineFeed(catalog, eng, chunk, external) ==
    LET start == eng.received
        here  == [eng EXCEPT !.received = @ + Len(chunk),
                             !.external = @ \o external,
                             !.waiting  = SortSpans(@ \o external)]
    IN  IF eng.overflow # None THEN [engine |-> here, out |-> <<>>]
        ELSE IF eng.open # <<>> THEN ConsumeOpen(catalog, here, chunk, start)
        ELSE ConsumeText(catalog, here, chunk, start)

(* finish, with _add_overflow_finding                                      *)
EngineFinish(catalog, eng) ==
    CASE eng.overflow # None ->
            [engine |-> [eng EXCEPT !.findings =
                            Append(@, [rule |-> "secret", action |-> "REDACT",
                                       start |-> eng.overflow, end |-> eng.received])],
             out |-> <<>>]
      [] eng.overflow = None /\ eng.open # <<>> ->
            [engine |-> CompleteOpen(DropCovered(eng, eng.received), eng.received),
             out |-> <<>>]
      [] eng.overflow = None /\ eng.open = <<>> /\ eng.pending # <<>> ->
            LET last == ApplyPlan(eng, eng.pending,
                                  PlanSegment(catalog, eng, eng.pending, TRUE))
            IN  [last EXCEPT !.engine.pending = <<>>]
      [] OTHER -> [engine |-> eng, out |-> <<>>]

(* cancel *)
EngineCancel(eng) ==
    [eng EXCEPT !.pending = <<>>, !.previous = <<>>, !.atBoundary = FALSE,
                !.open = <<>>, !.waiting = <<>>]

-----------------------------------------------------------------------------
(* The coordinator holds the text (source, from sourceOffset on) and the   *)
(* cards (held) that the detector has not let go to the engine.            *)
NewCoordinator == [engine |-> NewEngine, detector |-> NewDetector,
                   source |-> <<>>, sourceOffset |-> 0, held |-> <<>>]

CoordinatorFindings(co) == SortFindings(co.engine.findings \o co.engine.external)

CoordinatorBuffered(co) ==
    Len(co.source) + Len(co.engine.pending) + Len(co.detector.pending)

(* Mutants of HoldCrossing: a card the watermark cuts is released whole;   *)
(* every card is held, the ones behind the watermark too.                  *)
ReleaseCrossing(held, through) ==
    FoldLeft(LAMBDA upTo, f : IF f.start < upTo /\ upTo < f.end THEN f.end ELSE upTo,
             through, held)

HoldEveryCard(held, through) ==
    FoldLeft(LAMBDA upTo, f : IF f.start < upTo THEN f.start ELSE upTo, through, held)

(* _hold_crossing_findings *)
HoldStep(upTo, f) == IF f.start < upTo /\ upTo < f.end THEN f.start ELSE upTo

HoldCrossing(held, through) == FoldLeft(HoldStep, through, held)

(* _release: the two RuntimeErrors it can raise are an output of "error".  *)
Release(catalog, co, through) ==
    LET n == through - co.sourceOffset
        After(fed) ==
            [co |-> [co EXCEPT !.engine = fed.engine,
                               !.source = Slice(@, n, Len(@)),
                               !.sourceOffset = through,
                               !.held = Among({f \in Range(@) : f.end > through}, @)],
             out |-> fed.out]
    IN  IF n < 0 \/ n > Len(co.source) THEN [co |-> co, out |-> <<"error">>]
        ELSE IF n = 0 THEN [co |-> co, out |-> <<>>]
        ELSE After(EngineFeed(catalog, co.engine, Slice(co.source, 0, n),
                              Among({f \in Range(co.held) : f.end <= through}, co.held)))

(* _IncrementalStreamCoordinator.feed; cards says whether it has a         *)
(* detector, limit is the detector's.                                      *)
CoordinatorFeed(catalog, cards, limit, co, chunk) ==
    LET After(fed) == [co |-> [co EXCEPT !.engine = fed.engine], out |-> fed.out]
        Behind(delta) ==
            LET held    == co.held \o delta.findings
                stopped == delta.detector.overflow
                through == IF stopped = None THEN delta.safe
                           ELSE EarliestOf(delta.safe, stopped)
            IN  Release(catalog,
                        [co EXCEPT !.source = @ \o chunk, !.detector = delta.detector,
                                   !.held = held],
                        HoldCrossing(held, through))
    IN  IF cards THEN Behind(DetectorFeed(limit, co.detector, chunk))
        ELSE After(EngineFeed(catalog, co.engine, chunk, <<>>))

(* finish *)
CoordinatorFinish(catalog, cards, limit, co) ==
    LET Freed(delta) == Release(catalog,
                                [co EXCEPT !.detector = delta.detector,
                                           !.held = @ \o delta.findings], delta.safe)
        Dropped(freed, last) ==
            [co  |-> [freed.co EXCEPT !.engine = last.engine, !.source = <<>>, !.held = <<>>],
             out |-> freed.out \o last.out]
        Finished(freed) == Dropped(freed, EngineFinish(catalog, freed.co.engine))
        After(last) == [co |-> [co EXCEPT !.engine = last.engine], out |-> last.out]
    IN  IF cards THEN Finished(Freed(DetectorFinish(limit, co.detector)))
        ELSE After(EngineFinish(catalog, co.engine))

(* Mutant of CoordinatorCancel: the text held for the detector stays.      *)
CoordinatorCancelEngineOnly(co) == [co EXCEPT !.engine = EngineCancel(@)]

(* cancel *)
CoordinatorCancel(co) ==
    [co EXCEPT !.source = <<>>, !.held = <<>>, !.detector.pending = <<>>,
               !.engine = EngineCancel(@)]

==============================================================================
