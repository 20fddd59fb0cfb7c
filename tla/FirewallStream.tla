--------------------------- MODULE FirewallStream ----------------------------
(***************************************************************************)
(* FirewallStream (streaming.py) over its engine: how a stream chooses     *)
(* between incremental and buffered execution, and what it releases while  *)
(* chunks arrive, when it is finished, cancelled, or fed too much.         *)
(* A configuration is a record                                             *)
(*   [catalog, cards, cardLimit, other, custom, policy, mode, maxInput,    *)
(*    alphabet]                                                            *)
(* with the secret rule's catalog (NoCatalog without that rule), whether   *)
(* the card rule is active and its limit, whether a rule with no           *)
(* incremental detector is active, whether the scanner is a subclass, the  *)
(* policy's overrides, the requested mode, max_input_chars, and the chunks *)
(* callers send.                                                           *)
(***************************************************************************)
EXTENDS IncrementalStream, Policy

CONSTANT Configurations \* the configurations streams are made with

(* What the texts of a configuration are made of. *)
CharactersOf(c) == UNION {Range(chunk) : chunk \in c.alphabet}

IsConfiguration(c) ==
    /\ c.maxInput \in Nat \ {0} /\ c.cardLimit \in Nat
    /\ {c.cards, c.other, c.custom} \subseteq BOOLEAN
    /\ c.mode \in {"AUTO", "BUFFERED", "INCREMENTAL"}
    /\ c.alphabet \subseteq Seq(CharactersOf(c)) \ {<<>>}
    /\ c.catalog # NoCatalog => IsCatalog(c.catalog)
    /\ \A r \in DOMAIN c.policy : c.policy[r] \in Actions

ASSUME FirewallStreamAssumption == \A c \in Configurations : IsConfiguration(c)

VARIABLES
    config,   \* the configuration of this stream
    state,    \* NEW, REJECTED (the constructor raised) and FirewallStreamState
    mode,     \* _execution_mode
    source,   \* every character accepted so far
    retained, \* _buffered_parts, joined
    co,       \* _engine: the coordinator and what it is made of
    released, \* everything feed() and finish() have returned
    outcome   \* [decision, findings] after finish(), as a sequence of one

vars == <<config, state, mode, source, retained, co, released, outcome>>

HasEngine == config.catalog # NoCatalog \/ config.cards

-----------------------------------------------------------------------------
(* The stand-in for every rule that needs the whole text: it reports each  *)
(* "#" for redaction.                                                      *)
OtherScan(text) ==
    LET hits == Among({o \in 1 .. Len(text) : text[o] = "#"}, [o \in 1 .. Len(text) |-> o])
    IN  [i \in DOMAIN hits |->
            [rule |-> "content", action |-> "REDACT", start |-> hits[i] - 1,
             end |-> hits[i]]]

(* RuleEngine.process on a whole text, for these rules: none of them       *)
(* removes text, so there is one scan.                                     *)
Process(c, text) ==
    Apply(c.policy, text,
          SortFindings(
              (IF c.catalog = NoCatalog THEN <<>>
               ELSE SecretsScan(c.catalog, SecretLimit, text))
              \o (IF c.cards THEN CardScan(c.cardLimit, text) ELSE <<>>)
              \o (IF c.other THEN OtherScan(text) ELSE <<>>)))

(* _actions_are_redacting *)
AlwaysRedacts(c, rule, recommended) ==
    \A action \in recommended : ActionFor(c.policy, rule, action) = "REDACT"

(* What keeps a stream from incremental execution before an engine is      *)
(* tried: a rule with no detector, an action that is not redaction, or a   *)
(* scanner of another class.                                               *)
Incompatible(c) ==
    \/ c.other
    \/ /\ c.catalog # NoCatalog
       /\ ~AlwaysRedacts(c, "secret",
               {sig.action : sig \in Signatures(c.catalog)} \cup {"BLOCK"})
    \/ c.cards /\ ~AlwaysRedacts(c, "card", {"REDACT", "BLOCK"})
    \/ c.custom

(* Mutant of Resolve: only the presence of detectors is asked for, not the *)
(* effective actions.                                                      *)
ResolveByDetectors(c) ==
    CASE c.mode = "INCREMENTAL" /\ (c.other \/ c.custom) -> "rejected"
      [] c.mode = "BUFFERED" \/ c.other \/ c.custom -> "BUFFERED"
      [] ~IsIncremental(c.catalog) ->
            IF c.mode = "INCREMENTAL" THEN "rejected" ELSE "BUFFERED"
      [] OTHER -> "INCREMENTAL"

(* The execution mode of a new stream, or that there is none.              *)
Resolve(c) ==
    CASE c.mode = "INCREMENTAL" /\ Incompatible(c) -> "rejected"
      [] c.mode = "BUFFERED" \/ (c.mode # "INCREMENTAL" /\ Incompatible(c)) -> "BUFFERED"
      [] c.mode # "BUFFERED" /\ ~Incompatible(c) /\ ~IsIncremental(c.catalog) ->
            IF c.mode = "INCREMENTAL" THEN "rejected" ELSE "BUFFERED"
      [] OTHER -> "INCREMENTAL"

-----------------------------------------------------------------------------
Init ==
    /\ config \in Configurations
    /\ state = "NEW"
    /\ mode = "none"
    /\ source = <<>>
    /\ retained = <<>>
    /\ co = NewCoordinator
    /\ released = <<>>
    /\ outcome = <<>>

(* FirewallStream(...) *)
Open ==
    /\ state = "NEW"
    /\ IF Resolve(config) = "rejected"
       THEN state' = "REJECTED" /\ mode' = mode
       ELSE state' = "OPEN" /\ mode' = Resolve(config)
    /\ UNCHANGED <<config, source, retained, co, released, outcome>>

(* cancel() of an open stream, also the way out of a failed feed or finish.*)
CancelEffects ==
    /\ state' = "CANCELLED"
    /\ retained' = <<>>
    /\ co' = IF mode = "INCREMENTAL" /\ HasEngine THEN CoordinatorCancel(co) ELSE co

(* feed() of a chunk that exceeds max_input_chars                          *)
FeedTooMuch(chunk) ==
    /\ state = "OPEN"
    /\ Len(source) + Len(chunk) > config.maxInput
    /\ CancelEffects
    /\ UNCHANGED <<config, mode, source, released, outcome>>

FeedBuffered(chunk) ==
    /\ mode = "BUFFERED"
    /\ retained' = retained \o chunk
    /\ UNCHANGED <<co, released>>

FeedIncremental(chunk) ==
    /\ mode = "INCREMENTAL"
    /\ IF HasEngine
       THEN \E fed \in {CoordinatorFeed(config.catalog, config.cards, config.cardLimit,
                                        co, chunk)} :
                co' = fed.co /\ released' = released \o fed.out
       ELSE co' = co /\ released' = released \o chunk
    /\ UNCHANGED retained

(* feed() *)
Feed(chunk) ==
    /\ state = "OPEN"
    /\ Len(source) + Len(chunk) <= config.maxInput
    /\ source' = source \o chunk
    /\ FeedBuffered(chunk) \/ FeedIncremental(chunk)
    /\ UNCHANGED <<config, state, mode, outcome>>

(* finish() of a buffered stream: the text is dropped before it is         *)
(* processed, and a blocked one is raised with the stream FINISHED.        *)
FinishBuffered ==
    /\ state = "OPEN" /\ mode = "BUFFERED"
    /\ \E result \in {Process(config, retained)} :
           /\ outcome' = <<[decision |-> result.decision, findings |-> result.findings]>>
           /\ released' = IF result.text = Blocked THEN released
                          ELSE released \o result.text
    /\ state' = "FINISHED"
    /\ retained' = <<>>
    /\ UNCHANGED <<config, mode, source, co>>

(* finish() of an incremental stream                                       *)
FinishIncremental ==
    /\ state = "OPEN" /\ mode = "INCREMENTAL"
    /\ \E last \in {IF HasEngine
                    THEN CoordinatorFinish(config.catalog, config.cards, config.cardLimit, co)
                    ELSE [co |-> co, out |-> <<>>]} :
           LET findings == IF HasEngine THEN CoordinatorFindings(last.co) ELSE <<>>
           IN  /\ co' = last.co
               /\ released' = released \o last.out
               /\ outcome' = <<[decision |-> Strongest(ActionsOf(findings)),
                                findings |-> findings]>>
    /\ state' = "FINISHED"
    /\ UNCHANGED <<config, mode, source, retained>>

(* cancel() *)
Cancel ==
    /\ state = "OPEN"
    /\ CancelEffects
    /\ UNCHANGED <<config, mode, source, released, outcome>>

Next ==
    \/ Open
    \/ \E chunk \in config.alphabet : Feed(chunk) \/ FeedTooMuch(chunk)
    \/ FinishBuffered
    \/ FinishIncremental
    \/ Cancel

Spec == Init /\ [][Next]_vars

-----------------------------------------------------------------------------
(* Types of the stream's own state; what the coordinator holds are         *)
(* offsets, characters of the text and well-formed findings, and none of   *)
(* its watermarks ever moved backwards or past the text.                   *)
TypeOK ==
    LET chars == CharactersOf(config)
    IN  /\ config \in Configurations
        /\ state \in {"NEW", "REJECTED", "OPEN", "FINISHED", "CANCELLED"}
        /\ mode \in {"none", "BUFFERED", "INCREMENTAL"}
        /\ Range(source) \cup Range(retained) \subseteq chars
        /\ Range(released) \subseteq chars \cup {Marker}
        /\ Len(source) <= config.maxInput
        /\ Len(outcome) <= 1
        /\ SpansFit(co.engine.findings \o co.engine.external \o co.held, source)
        /\ co.engine.overflow \in {None} \cup 0 .. Len(source)

(* However a text was cut into chunks, a finished stream has released      *)
(* exactly what processing the whole text gives: nothing at all when that  *)
(* is blocked, every marker once, and no character of a finding.           *)
ReleasesWhatBatchDoes ==
    state = "FINISHED" =>
        LET batch == Process(config, source)
        IN  released = IF batch.text = Blocked THEN <<>> ELSE batch.text

(* The finding of a secret limit that was exceeded.                        *)
IsOverflow(f, text) == f.rule = "secret" /\ f.end = Len(text)

(* The findings and the decision of a finished stream are those of the     *)
(* whole text, at the same offsets.  One may be missing: an incremental    *)
(* stream that learns only from finish() that there is a token too many,   *)
(* redacts it and reports no finding for it.                               *)
FindsWhatBatchDoes ==
    state = "FINISHED" =>
        LET batch   == Process(config, source)
            missing == Range(batch.findings) \ Range(outcome[1].findings)
        IN  /\ outcome[1].findings = SelectSeq(batch.findings, LAMBDA f : f \notin missing)
            /\ \A f \in missing :
                    /\ mode = "INCREMENTAL"
                    /\ IsOverflow(f, source) /\ f.start = co.engine.overflow
                    /\ Len(co.engine.findings) = SecretLimit
            /\ outcome[1].decision = batch.decision

(* How much text a candidate may have that more text could still change.   *)
Undecided(catalog) ==
    {Len(pair[1]) + (IF pair[2].max = Unlimited THEN pair[2].min - 1 ELSE pair[2].max) :
        pair \in OwnedPrefixes(catalog)}

(* What an incremental stream may have to keep: for the secret rule, one   *)
(* undecided candidate; for the card rule, the detector's window, the same *)
(* text in the coordinator, and the part of a card in front of it.         *)
RetainsLittle ==
    \E undecided \in Undecided(config.catalog) \cup {0} :
        CoordinatorBuffered(co) <=
            undecided + (IF config.cards THEN 2 * HoldBack + 2 + CardWidth - 1 ELSE 0)

(* Whether a token can begin inside a card.                                *)
BeginsInCards(c) ==
    c.cards /\ \E sig \in Signatures(c.catalog) : \E prefix \in sig.prefixes :
                   Head(prefix) \in Separators \cup DOMAIN DigitValue

(* An incremental stream that is open keeps a bounded amount of text,      *)
(* however long the text and its tokens are, until the card rule has had   *)
(* too many candidates (from there on it keeps everything), and provided   *)
(* that no prefix begins with a character that cards are made of.          *)
RetainsBoundedText ==
    (/\ state = "OPEN" /\ mode = "INCREMENTAL" /\ co.detector.overflow = None
     /\ ~BeginsInCards(config)) => RetainsLittle

(* The README says it of every configuration: "Candidate shapes that would *)
(* need attacker-sized retention fall back to buffered execution in AUTO   *)
(* mode."                                                                  *)
FallsBackOrRetainsLittle ==
    (/\ state = "OPEN" /\ mode = "INCREMENTAL" /\ co.detector.overflow = None
     /\ config.mode = "AUTO") => RetainsLittle

(* A stream that has ended, however it ended, holds no text it did not     *)
(* release: not the chunks, not the window of the detector, not a pending  *)
(* candidate, and a cancelled one not even the last character.             *)
EndedStreamsHoldNoText ==
    /\ state \in {"FINISHED", "CANCELLED"} =>
            retained = <<>> /\ CoordinatorBuffered(co) = 0 /\ co.engine.open = <<>>
    /\ state = "CANCELLED" => co.engine.previous = <<>> /\ co.held = <<>>

==============================================================================
