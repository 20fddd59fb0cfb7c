------------------------ MODULE FirewallStream_proofs ------------------------
(***************************************************************************)
(* Proofs about FirewallStream, for every catalog, limit, policy, text and *)
(* way to cut it into chunks.  What the scans find is left to TLC; proved  *)
(* is what happens to the text: where it is kept, and that it is dropped.  *)
(***************************************************************************)
EXTENDS FirewallStream, TLAPS

-----------------------------------------------------------------------------
(* The engine's record, and where an engine keeps text: an overflow or an  *)
(* unbounded token leaves none of it pending.                              *)
EngineFields == DOMAIN NewEngine
EngineOK(eng) ==
    /\ DOMAIN eng = EngineFields
    /\ eng.overflow # None => eng.pending = <<>> /\ eng.open = <<>>
    /\ eng.open # <<>> => eng.pending = <<>>

(* A plan never both stops at a token too many and opens one; the last     *)
(* plan opens none.                                                        *)
LEMMA Plans ==
  ASSUME NEW catalog, NEW eng, NEW text, NEW final
  PROVE  LET plan == PlanSegment(catalog, eng, text, final)
         IN  /\ plan.overflow # None => plan.open = <<>>
             /\ final => plan.open = <<>>
PROOF
  BY DEF PlanSegment

(* Constraining a plan opens no token beside an overflow.                  *)
LEMMA Constrained ==
  ASSUME NEW eng, NEW plan, plan.overflow # None => plan.open = <<>>
  PROVE  ConstrainPlan(eng, plan).overflow # None => ConstrainPlan(eng, plan).open = <<>>
PROOF
  BY DEF ConstrainPlan

(* A plan that opens no token beside an overflow leaves a good engine.     *)
LEMMA Applied ==
  ASSUME NEW eng, NEW text, NEW plan, DOMAIN eng = EngineFields,
         eng.overflow = None, eng.open = <<>>,
         plan.overflow # None => plan.open = <<>>
  PROVE  LET after == ApplyPlan(eng, text, plan).engine
         IN  /\ EngineOK(after)
             /\ plan.open = <<>> => after.open = <<>>
PROOF
  BY DEF ApplyPlan, EngineOK, EngineFields, NewEngine

(* Text handed to an engine leaves it in order, also when it ends an       *)
(* unbounded token on the way.                                             *)
LEMMA Consumed ==
  ASSUME NEW catalog, NEW eng, NEW chunk, NEW start, DOMAIN eng = EngineFields,
         eng.overflow = None, eng.open = <<>>
  PROVE  EngineOK(ConsumeText(catalog, eng, chunk, start).engine)
PROOF
  <1> DEFINE text == eng.pending \o chunk
             here == [eng EXCEPT !.pending = text,
                                 !.offset = IF eng.pending = <<>> THEN start ELSE @]
             first == PlanSegment(catalog, here, text, FALSE)
             plan == ConstrainPlan(here, first)
  <1>1. DOMAIN here = EngineFields /\ here.overflow = None /\ here.open = <<>>
    BY DEF EngineFields, NewEngine
  <1>2. plan.overflow # None => plan.open = <<>>
    <2>1. first.overflow # None => first.open = <<>>
      BY Plans
    <2> HIDE DEF first, here
    <2>2. QED
      BY <2>1, Constrained
  <1>3. ConsumeText(catalog, eng, chunk, start) = ApplyPlan(here, text, plan)
    BY DEF ConsumeText
  <1> HIDE DEF plan, here, text
  <1>4. QED
    BY <1>1, <1>2, <1>3, Applied

(* An engine inside an unbounded token stays good.                         *)
LEMMA ConsumedOpen ==
  ASSUME NEW catalog, NEW eng, NEW chunk, NEW start, EngineOK(eng), eng.open # <<>>
  PROVE  EngineOK(ConsumeOpen(catalog, eng, chunk, start).engine)
PROOF
  <1> DEFINE token == eng.open[1]
             n == SuffixLength(token.sig, chunk, 0)
             grown == [eng EXCEPT !.open = <<[token EXCEPT !.end = start + n,
                                   !.last = IF n > 0 THEN chunk[n] ELSE @]>>]
             covered == FoldLeft(CoverStep, start + n, eng.waiting)
             rest == covered - start
             ended == [CompleteOpen(grown, start + n) EXCEPT
                          !.waiting  = Among({f \in Range(@) : f.start > covered}, @),
                          !.previous = IF rest > n THEN <<chunk[rest]>>
                                       ELSE <<grown.open[1].last>>]
  <1>1. EngineOK(DropCovered(grown, start + n))
    BY DEF DropCovered, EngineOK, EngineFields, NewEngine
  <1>2. /\ EngineOK(ended)
        /\ ended.overflow = None /\ ended.open = <<>>
    BY DEF CompleteOpen, EngineOK, EngineFields, NewEngine
  <1> HIDE DEF ended
  <1>3. EngineOK(ConsumeText(catalog, ended, Slice(chunk, rest, Len(chunk)), covered).engine)
    BY <1>2, Consumed DEF EngineOK
  <1>4. ConsumeOpen(catalog, eng, chunk, start) =
          IF n = Len(chunk) THEN [engine |-> DropCovered(grown, start + n), out |-> <<>>]
          ELSE IF rest = Len(chunk) THEN [engine |-> ended, out |-> <<>>]
          ELSE ConsumeText(catalog, ended, Slice(chunk, rest, Len(chunk)), covered)
    BY DEF ConsumeOpen, ended
  <1> HIDE DEF n, grown, covered, rest
  <1>5. QED
    BY <1>1, <1>2, <1>3, <1>4

(* Feeding an engine keeps the order of its text. *)
LEMMA Fed ==
  ASSUME NEW catalog, NEW eng, NEW chunk, NEW external, EngineOK(eng)
  PROVE  EngineOK(EngineFeed(catalog, eng, chunk, external).engine)
PROOF
  <1> DEFINE start == eng.received
             here == [eng EXCEPT !.received = @ + Len(chunk),
                                 !.external = @ \o external,
                                 !.waiting  = SortSpans(@ \o external)]
  <1>1. EngineOK(here) /\ here.overflow = eng.overflow /\ here.open = eng.open
    BY DEF EngineOK, EngineFields, NewEngine
  <1>2. EngineFeed(catalog, eng, chunk, external) =
          IF eng.overflow # None THEN [engine |-> here, out |-> <<>>]
          ELSE IF eng.open # <<>> THEN ConsumeOpen(catalog, here, chunk, start)
          ELSE ConsumeText(catalog, here, chunk, start)
    BY DEF EngineFeed
  <1> HIDE DEF here, start
  <1>3. CASE eng.overflow # None
    BY <1>1, <1>2, <1>3
  <1>4. CASE eng.overflow = None /\ eng.open # <<>>
    BY <1>1, <1>2, <1>4, ConsumedOpen
  <1>5. CASE eng.overflow = None /\ eng.open = <<>>
    BY <1>1, <1>2, <1>5, Consumed DEF EngineOK
  <1>6. QED
    BY <1>3, <1>4, <1>5

(* A finished engine holds no text and no token. *)
LEMMA Finished ==
  ASSUME NEW catalog, NEW eng, EngineOK(eng)
  PROVE  LET after == EngineFinish(catalog, eng).engine
         IN  EngineOK(after) /\ after.pending = <<>> /\ after.open = <<>>
PROOF
  <1> DEFINE after == EngineFinish(catalog, eng).engine
             last == ApplyPlan(eng, eng.pending, PlanSegment(catalog, eng, eng.pending, TRUE))
  <1>1. CASE eng.overflow # None
    BY <1>1 DEF EngineFinish, EngineOK, EngineFields, NewEngine
  <1>2. CASE eng.overflow = None /\ eng.open # <<>>
    BY <1>2 DEF EngineFinish, CompleteOpen, DropCovered, EngineOK, EngineFields, NewEngine
  <1>3. CASE eng.overflow = None /\ eng.open = <<>> /\ eng.pending # <<>>
    <2>1. PlanSegment(catalog, eng, eng.pending, TRUE).open = <<>>
      BY Plans
    <2>2. EngineOK(last.engine) /\ last.engine.open = <<>>
      BY <1>3, <2>1, Applied DEF EngineOK
    <2>3. DOMAIN last = {"engine", "out"}
      BY DEF ApplyPlan
    <2>4. after = [last EXCEPT !.engine.pending = <<>>].engine
      BY <1>3 DEF EngineFinish
    <2> HIDE DEF last, after
    <2>5. after = [last.engine EXCEPT !.pending = <<>>]
      BY <2>3, <2>4
    <2>6. QED
      BY <2>2, <2>5 DEF EngineOK, EngineFields, NewEngine, after
  <1>4. CASE eng.overflow = None /\ eng.open = <<>> /\ eng.pending = <<>>
    BY <1>4 DEF EngineFinish
  <1>5. QED
    BY <1>1, <1>2, <1>3, <1>4

-----------------------------------------------------------------------------
(* The detector's record: only its window is text. *)
LEMMA Advanced ==
  ASSUME NEW limit, NEW d, NEW commit, NEW final, DOMAIN d = DOMAIN NewDetector
  PROVE  LET after == Advance(limit, d, commit, final)
         IN  DOMAIN after.detector = DOMAIN NewDetector /\ "detector" \in DOMAIN after
PROOF
  BY DEF Advance

(* A chunk leaves the detector the attributes it has.                      *)
LEMMA DetectorFed ==
  ASSUME NEW limit, NEW d, NEW chunk, DOMAIN d = DOMAIN NewDetector
  PROVE  DOMAIN DetectorFeed(limit, d, chunk).detector = DOMAIN NewDetector
PROOF
  BY Advanced DEF DetectorFeed

(* A finished detector has nothing pending.                                *)
LEMMA DetectorFinished ==
  ASSUME NEW limit, NEW d, DOMAIN d = DOMAIN NewDetector
  PROVE  LET after == DetectorFinish(limit, d).detector
         IN  DOMAIN after = DOMAIN NewDetector /\ after.pending = <<>>
PROOF
  <1> DEFINE last == Advance(limit, d, Len(d.pending), TRUE)
  <1>1. DOMAIN last.detector = DOMAIN NewDetector /\ "detector" \in DOMAIN last
    BY Advanced
  <1> HIDE DEF last
  <1>2. DetectorFinish(limit, d).detector =
          [last.detector EXCEPT !.pending = <<>>, !.offset = d.received]
    BY <1>1 DEF DetectorFinish, last
  <1>3. QED
    BY <1>1, <1>2 DEF NewDetector

-----------------------------------------------------------------------------
(* The coordinator's record over an engine and a detector.                 *)
CoordinatorOK(c) ==
    /\ DOMAIN c = DOMAIN NewCoordinator
    /\ EngineOK(c.engine)
    /\ DOMAIN c.detector = DOMAIN NewDetector

(* Without a detector the coordinator holds no text itself. *)
Unheld(c) == c.source = <<>> /\ c.held = <<>> /\ c.detector = NewDetector

(* A new coordinator is good and holds nothing.                            *)
LEMMA NewIsOK == CoordinatorOK(NewCoordinator) /\ Unheld(NewCoordinator)
PROOF
  BY DEF CoordinatorOK, Unheld, NewCoordinator, EngineOK, EngineFields, NewEngine

(* Releasing text keeps a coordinator good and its detector as it is.      *)
LEMMA Released ==
  ASSUME NEW catalog, NEW c, NEW through, CoordinatorOK(c)
  PROVE  LET after == Release(catalog, c, through).co
         IN  CoordinatorOK(after) /\ after.detector = c.detector
PROOF
  <1> DEFINE n == through - c.sourceOffset
             fed == EngineFeed(catalog, c.engine, Slice(c.source, 0, n),
                               Among({f \in Range(c.held) : f.end <= through}, c.held))
  <1>1. EngineOK(fed.engine)
    BY Fed DEF CoordinatorOK
  <1> HIDE DEF fed
  <1>2. QED
    BY <1>1 DEF Release, CoordinatorOK, NewCoordinator, fed

(* A chunk keeps a coordinator good, and without cards it holds nothing    *)
(* afterwards.                                                             *)
LEMMA CoordinatorFed ==
  ASSUME NEW catalog, NEW cards, NEW limit, NEW c, NEW chunk, CoordinatorOK(c)
  PROVE  LET after == CoordinatorFeed(catalog, cards, limit, c, chunk).co
         IN  CoordinatorOK(after) /\ (~cards /\ Unheld(c) => Unheld(after))
PROOF
  <1> DEFINE fed == EngineFeed(catalog, c.engine, chunk, <<>>)
             delta == DetectorFeed(limit, c.detector, chunk)
             held == c.held \o delta.findings
             stopped == delta.detector.overflow
             through == IF stopped = None THEN delta.safe ELSE EarliestOf(delta.safe, stopped)
             filled == [c EXCEPT !.source = @ \o chunk, !.detector = delta.detector,
                                 !.held = held]
  <1>1. CASE ~cards
    <2>1. EngineOK(fed.engine)
      BY Fed DEF CoordinatorOK
    <2> HIDE DEF fed
    <2>2. CoordinatorFeed(catalog, cards, limit, c, chunk).co = [c EXCEPT !.engine = fed.engine]
      BY <1>1 DEF CoordinatorFeed, fed
    <2>3. QED
      BY <1>1, <2>1, <2>2 DEF CoordinatorOK, Unheld, NewCoordinator
  <1>2. CASE cards
    <2>1. DOMAIN delta.detector = DOMAIN NewDetector
      BY DetectorFed DEF CoordinatorOK
    <2> HIDE DEF delta
    <2>2. CoordinatorOK(filled)
      BY <2>1 DEF CoordinatorOK, NewCoordinator
    <2>3. CoordinatorFeed(catalog, cards, limit, c, chunk) =
            Release(catalog, filled, HoldCrossing(held, through))
      BY <1>2 DEF CoordinatorFeed, delta
    <2> HIDE DEF filled, held, through
    <2>4. QED
      BY <1>2, <2>2, <2>3, Released
  <1>3. QED
    BY <1>1, <1>2

(* A finished coordinator, its detector and its engine hold no text. *)
LEMMA CoordinatorFinished ==
  ASSUME NEW catalog, NEW cards, NEW limit, NEW c, CoordinatorOK(c), ~cards => Unheld(c)
  PROVE  LET after == CoordinatorFinish(catalog, cards, limit, c).co
         IN  /\ CoordinatorOK(after)
             /\ ~cards => Unheld(after)
             /\ after.source = <<>> /\ after.detector.pending = <<>>
             /\ after.engine.pending = <<>> /\ after.engine.open = <<>>
PROOF
  <1> DEFINE delta == DetectorFinish(limit, c.detector)
             filled == [c EXCEPT !.detector = delta.detector, !.held = @ \o delta.findings]
             freed == Release(catalog, filled, delta.safe).co
             last == EngineFinish(catalog, c.engine).engine
             lastFreed == EngineFinish(catalog, freed.engine).engine
  <1>1. CASE ~cards
    <2>1. EngineOK(last) /\ last.pending = <<>> /\ last.open = <<>>
      BY Finished DEF CoordinatorOK
    <2> HIDE DEF last
    <2>2. CoordinatorFinish(catalog, cards, limit, c).co = [c EXCEPT !.engine = last]
      BY <1>1 DEF CoordinatorFinish, last
    <2>3. QED
      BY <1>1, <2>1, <2>2 DEF CoordinatorOK, Unheld, NewCoordinator, NewDetector
  <1>2. CASE cards
    <2>1. DOMAIN delta.detector = DOMAIN NewDetector /\ delta.detector.pending = <<>>
      BY DetectorFinished DEF CoordinatorOK
    <2> HIDE DEF delta
    <2>2. CoordinatorOK(filled) /\ filled.detector = delta.detector
      BY <2>1 DEF CoordinatorOK, NewCoordinator
    <2> HIDE DEF filled
    <2>3. CoordinatorOK(freed) /\ freed.detector = delta.detector
      BY <2>2, Released
    <2> HIDE DEF freed
    <2>4. EngineOK(lastFreed) /\ lastFreed.pending = <<>> /\ lastFreed.open = <<>>
      BY <2>3, Finished DEF CoordinatorOK
    <2> HIDE DEF lastFreed
    <2>5. CoordinatorFinish(catalog, cards, limit, c).co =
            [freed EXCEPT !.engine = lastFreed, !.source = <<>>, !.held = <<>>]
      BY <1>2 DEF CoordinatorFinish, lastFreed, freed, filled, delta
    <2>6. QED
      BY <1>2, <2>1, <2>3, <2>4, <2>5 DEF CoordinatorOK, NewCoordinator
  <1>3. QED
    BY <1>1, <1>2

(* A cancelled one drops the last character and the cards as well. *)
LEMMA CoordinatorCancelled ==
  ASSUME NEW c, CoordinatorOK(c)
  PROVE  LET after == CoordinatorCancel(c)
         IN  /\ CoordinatorOK(after)
             /\ Unheld(c) => Unheld(after)
             /\ after.source = <<>> /\ after.held = <<>> /\ after.detector.pending = <<>>
             /\ after.engine.pending = <<>> /\ after.engine.open = <<>>
             /\ after.engine.previous = <<>>
PROOF
  <1> DEFINE detector == [c.detector EXCEPT !.pending = <<>>]
             engine == EngineCancel(c.engine)
  <1>1. EngineOK(engine) /\ engine.pending = <<>> /\ engine.open = <<>> /\ engine.previous = <<>>
    BY DEF EngineCancel, CoordinatorOK, EngineOK, EngineFields, NewEngine
  <1>2. DOMAIN detector = DOMAIN NewDetector /\ detector.pending = <<>>
    BY DEF CoordinatorOK, NewDetector
  <1>3. c.detector = NewDetector => detector = NewDetector
    BY DEF NewDetector
  <1>4. CoordinatorCancel(c) = [c EXCEPT !.source = <<>>, !.held = <<>>, !.detector = detector,
                                         !.engine = engine]
    BY DEF CoordinatorCancel, CoordinatorOK, NewCoordinator
  <1> HIDE DEF detector, engine
  <1>5. QED
    BY <1>1, <1>2, <1>3, <1>4 DEF CoordinatorOK, Unheld, NewCoordinator

-----------------------------------------------------------------------------
(* A buffered stream is all or nothing: it releases nothing before it is     *)
(* finished, nothing when it is cancelled, fed too much or blocked, and what *)
(* it then finds and decides is what processing the whole text does.         *)
WholeTextOrNothing ==
    mode = "BUFFERED" =>
        /\ state # "FINISHED" => released = <<>>
        /\ state = "FINISHED" =>
              LET batch == Process(config, source)
              IN  /\ outcome = <<[decision |-> batch.decision, findings |-> batch.findings]>>
                  /\ batch.text = Blocked => released = <<>>

(* Where a stream keeps its text: in retained when it is buffered, in the  *)
(* coordinator when it is incremental and has a rule, and nowhere else.    *)
StreamInv ==
    /\ CoordinatorOK(co)
    /\ ~config.cards => Unheld(co)
    /\ mode # "INCREMENTAL" \/ ~HasEngine => co = NewCoordinator
    /\ mode = "INCREMENTAL" => retained = <<>>
    /\ state = "NEW" => mode = "none" /\ retained = <<>> /\ source = <<>> /\ released = <<>>
    /\ state = "OPEN" /\ mode = "BUFFERED" => retained = source
    /\ EndedStreamsHoldNoText
    /\ WholeTextOrNothing

(* A new stream satisfies the invariant.                                   *)
LEMMA InitStreamInv == Init => StreamInv
PROOF
  BY NewIsOK DEF Init, StreamInv, EndedStreamsHoldNoText, WholeTextOrNothing

(* Nothing is buffered in a new coordinator. *)
LEMMA NewBuffersNothing ==
  /\ CoordinatorBuffered(NewCoordinator) = 0
  /\ NewCoordinator.engine.open = <<>> /\ NewCoordinator.engine.previous = <<>>
  /\ NewCoordinator.held = <<>>
PROOF
  BY DEF CoordinatorBuffered, NewCoordinator, NewEngine, NewDetector

(* A coordinator whose three texts are empty buffers nothing. *)
LEMMA EmptyBuffers ==
  ASSUME NEW c, c.source = <<>>, c.engine.pending = <<>>, c.detector.pending = <<>>
  PROVE  CoordinatorBuffered(c) = 0
PROOF
  BY DEF CoordinatorBuffered

(* A stream that is cancelled lets go of all its text, whichever way it ran. *)
LEMMA CancelDrops ==
  ASSUME StreamInv, state = "OPEN", CancelEffects, UNCHANGED <<config, mode, source, released>>
  PROVE  StreamInv'
PROOF
  <1> USE DEF StreamInv, CancelEffects, EndedStreamsHoldNoText, WholeTextOrNothing, HasEngine
  <1>1. CASE mode = "INCREMENTAL" /\ HasEngine
    <2>1. co' = CoordinatorCancel(co)
      BY <1>1
    <2>2. CoordinatorBuffered(co') = 0
      BY <2>1, CoordinatorCancelled, EmptyBuffers
    <2>3. QED
      BY <1>1, <2>1, <2>2, CoordinatorCancelled
  <1>2. CASE ~(mode = "INCREMENTAL" /\ HasEngine)
    <2>1. co' = NewCoordinator
      BY <1>2
    <2>2. CoordinatorBuffered(co') = 0
      BY <2>1, NewBuffersNothing
    <2>3. QED
      BY <1>2, <2>1, <2>2, NewBuffersNothing, NewIsOK
  <1>3. QED
    BY <1>1, <1>2

(* Every call of a stream keeps its text where it belongs. *)
LEMMA StreamStep ==
  ASSUME StreamInv, [Next]_vars
  PROVE  StreamInv'
PROOF
  <1> USE DEF StreamInv, EndedStreamsHoldNoText, WholeTextOrNothing, HasEngine
  <1>1. CASE Open
    BY <1>1, NewIsOK DEF Open
  <1>2. ASSUME NEW chunk \in config.alphabet, Feed(chunk)
        PROVE  StreamInv'
    <2>1. CASE mode = "BUFFERED"
      BY <1>2, <2>1 DEF Feed, FeedBuffered, FeedIncremental
    <2>2. CASE mode = "INCREMENTAL" /\ HasEngine
      BY <1>2, <2>2, CoordinatorFed DEF Feed, FeedBuffered, FeedIncremental
    <2>3. CASE mode = "INCREMENTAL" /\ ~HasEngine
      BY <1>2, <2>3 DEF Feed, FeedBuffered, FeedIncremental
    <2>4. QED
      BY <1>2, <2>1, <2>2, <2>3 DEF Feed, FeedBuffered, FeedIncremental
  <1>3. ASSUME NEW chunk \in config.alphabet, FeedTooMuch(chunk)
        PROVE  StreamInv'
    BY <1>3, CancelDrops DEF FeedTooMuch
  <1>4. CASE FinishBuffered
    <2>1. co' = NewCoordinator /\ CoordinatorBuffered(co') = 0
      BY <1>4, NewBuffersNothing DEF FinishBuffered
    <2>2. QED
      BY <1>4, <2>1, NewBuffersNothing DEF FinishBuffered
  <1>5. CASE FinishIncremental
    <2>1. CASE HasEngine
      <3>1. co' = CoordinatorFinish(config.catalog, config.cards, config.cardLimit, co).co
        BY <1>5, <2>1 DEF FinishIncremental
      <3>2. CoordinatorBuffered(co') = 0
        BY <3>1, CoordinatorFinished, EmptyBuffers
      <3>3. QED
        BY <1>5, <2>1, <3>1, <3>2, CoordinatorFinished DEF FinishIncremental
    <2>2. CASE ~HasEngine
      <3>1. co' = NewCoordinator /\ CoordinatorBuffered(co') = 0
        BY <1>5, <2>2, NewBuffersNothing DEF FinishIncremental
      <3>2. QED
        BY <1>5, <2>2, <3>1, NewBuffersNothing DEF FinishIncremental
    <2>3. QED
      BY <2>1, <2>2
  <1>6. CASE Cancel
    BY <1>6, CancelDrops DEF Cancel
  <1>7. CASE UNCHANGED vars
    BY <1>7 DEF vars
  <1>8. QED
    BY <1>1, <1>2, <1>3, <1>4, <1>5, <1>6, <1>7 DEF Next

(* The inductive invariant holds in every reachable state. *)
THEOREM Inductive == Spec => []StreamInv
PROOF
  BY InitStreamInv, StreamStep, PTL DEF Spec

(* No ended stream keeps text it did not release: neither a chunk, nor the   *)
(* detector's window, nor a pending candidate, nor a token that went on, and *)
(* a cancelled one not even the last character.                              *)
THEOREM EndedStreamsAreEmpty == Spec => []EndedStreamsHoldNoText
PROOF
  <1>1. StreamInv => EndedStreamsHoldNoText
    BY DEF StreamInv
  <1>2. QED
    BY <1>1, Inductive, PTL

(* A buffered stream releases and reports for the whole text or not at all.  *)
THEOREM BufferedStreamsAreWhole == Spec => []WholeTextOrNothing
PROOF
  <1>1. StreamInv => WholeTextOrNothing
    BY DEF StreamInv
  <1>2. QED
    BY <1>1, Inductive, PTL

=============================================================================
