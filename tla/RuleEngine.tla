----------------------------- MODULE RuleEngine ------------------------------
(***************************************************************************)
(* One call of RuleEngine.process (policy.py), step by step: the scans of  *)
(* RuleScanner (engine.py), the removal of what is hidden in the text, the *)
(* second scan, the policy's decision and the check of a rewritten JSON    *)
(* document.  ProcessScannerPool.process takes the same steps, the first   *)
(* scan in a worker and the policy in the caller (process_pool.py).        *)
(***************************************************************************)
EXTENDS Policy, TextRules, SecretScan, ConnectionScan, LinkScan

CONSTANTS
    SecretLimit,   \* SecretsRule.MAX_CANDIDATES, 128 in the code
    Configurations \* the engines that are checked; see IsConfiguration

(* The rules that can remove text before the others look at it.            *)
Canonicalizers == {"bidi", "invisible", "tag"}

(* The directions a rule applies to; content, repetition, connection and   *)
(* url can be configured, and apply to both here.                          *)
Scopes == [r \in Range(RuleOrder) |->
    CASE r \in {"json", "resource"} -> {"OUTPUT"}
      [] r \in {"invisible", "tag"} -> {"INPUT"}
      [] OTHER -> {"INPUT", "OUTPUT"}]

(* What a configuration is: the scanner (rules and their own parameters,   *)
(* the text it accepts, and whether process() may scan in stages), the     *)
(* policy, the direction, and the pieces texts are made of.  The policy    *)
(* must not turn an invalid document into one to rewrite.                  *)
IsConfiguration(c) ==
    /\ c.scope \in {"INPUT", "OUTPUT"} /\ c.staged \in BOOLEAN
    /\ c.rules \subseteq Range(RuleOrder)
    /\ DOMAIN c.policy \subseteq Range(RuleOrder)
    /\ \A r \in DOMAIN c.policy : c.policy[r] \in Actions
    /\ "json" \in DOMAIN c.policy => c.policy["json"] \in {"BLOCK", "REVIEW"}
    /\ "secret" \in c.rules => IsCatalog(c.catalog)
    /\ "content" \in c.rules => AreLiterals(c.literals)
    /\ "json" \in c.rules => /\ c.json.document \in Nat \ {0}
                            /\ c.json.depth \in Nat \ {0} /\ c.json.structure \in Nat \ {0}
    /\ c.resource.markup >= 2
    /\ \A host \in c.hosts.allowed \cup c.hosts.denied : IsHostname(host)
    /\ c.alphabet \subseteq Seq(Characters)

ASSUME EngineAssumption ==
    /\ SecretLimit \in Nat
    /\ \A c \in Configurations : IsConfiguration(c)

VARIABLES
    config, text, \* the engine and the argument of process()
    phase,        \* where the call is
    first,        \* the findings of the first scan
    removal,      \* the removal map, as a sequence of at most one
    second,       \* the findings of the second scan, as offsets of its text
    result        \* the FirewallResult, as a sequence of at most one

vars == <<config, text, phase, first, removal, second, result>>

-----------------------------------------------------------------------------
RuleScan(c, rule, t) ==
    CASE rule = "content"    -> LiteralScan(c.literals, t)
      [] rule = "json"       -> JSONScan(c.json, t)
      [] rule = "secret"     -> SecretsScan(c.catalog, SecretLimit, t)
      [] rule = "repetition" -> RepetitionScan(c.thresholds, c.repetitionLimit, t)
      [] rule = "connection" -> ConnectionScan(c.connection, t)
      [] rule = "resource"   -> ResourceScan(c.resource, c.hosts.allowed, t)
      [] rule = "url"        -> URLScan(c.url, c.hosts, t)
      [] rule = "bidi"       -> BidiScan(t)
      [] OTHER               -> RemovalScan(rule, t)

(* What each active rule matches in a text, in the order of the rules.     *)
Matched(c, active, t) ==
    [n \in DOMAIN RuleOrder |->
        IF RuleOrder[n] \in active THEN RuleScan(c, RuleOrder[n], t) ELSE <<>>]

(* RuleScanner._scan_contracts, as a sequence of at most one: the findings *)
(* of the active rules in the normalised text, at their original offsets   *)
(* and in order; none when Finding or original_span refuses a match and    *)
(* the scan raises.                                                        *)
Located(normal, matched) ==
    IF \A n \in DOMAIN matched : SpansFit(matched[n], normal.text)
    THEN <<SortFindings(Originals(normal, FlattenSeq(matched)))>> ELSE <<>>

ScanNormalized(c, active, normal) == Located(normal, Matched(c, active, normal.text))

Scan(c, rules, t) ==
    LET active == {r \in rules \cap c.rules : c.scope \in Scopes[r]}
    IN  ScanNormalized(c, active, Normalize(t))

AllRules == Range(RuleOrder)

Init ==
    /\ config \in Configurations
    /\ text = <<>>
    /\ phase = "text"
    /\ first = <<>> /\ removal = <<>> /\ second = <<>> /\ result = <<>>

(* The caller's text, before the call, of at most one character too many.  *)
Write(piece) ==
    /\ phase = "text" /\ Len(text) + Len(piece) <= config.maxInput + 1
    /\ text' = text \o piece
    /\ UNCHANGED <<config, phase, first, removal, second, result>>

(* _validate_request *)
Refuse ==
    /\ phase = "text" /\ Len(text) > config.maxInput
    /\ phase' = "raised"
    /\ UNCHANGED <<config, text, first, removal, second, result>>

(* After a scan of the whole text; when it raises, so does the call.       *)
Proceed(scan, findings, next) ==
    IF scan = <<>> THEN first' = first /\ phase' = "raised"
                   ELSE first' = findings /\ phase' = next

(* process() of a scanner it does not know: one scan with every rule.      *)
ScanWhole ==
    /\ phase = "text" /\ Len(text) <= config.maxInput /\ ~config.staged
    /\ \E scan \in {Scan(config, AllRules, text)} : Proceed(scan, scan[1], "scanned")
    /\ UNCHANGED <<config, text, removal, second, result>>

(* _scan_canonicalizers *)
ScanCanonicalizers ==
    /\ phase = "text" /\ Len(text) <= config.maxInput /\ config.staged
    /\ \E scan \in {Scan(config, Canonicalizers, text)} : Proceed(scan, scan[1], "canonical")
    /\ UNCHANGED <<config, text, removal, second, result>>

(* Mutant of SkipRemaining: any removal makes the other rules wait, also   *)
(* when a block means that there will be no second scan.                   *)
SkipRemainingForRemoval ==
    /\ phase = "canonical"
    /\ "REMOVE" \in ActionsOf(EffectiveFindings(config.policy, first))
    /\ phase' = "scanned"
    /\ UNCHANGED <<config, text, first, removal, second, result>>

(* _apply_staged_with_rescan: when the canonicalizers will have text       *)
(* removed, and block nothing, the other rules wait for the second scan.   *)
SkipRemaining ==
    /\ phase = "canonical" /\ Rescans(EffectiveFindings(config.policy, first))
    /\ phase' = "scanned"
    /\ UNCHANGED <<config, text, first, removal, second, result>>

ScanRemaining ==
    /\ phase = "canonical" /\ ~Rescans(EffectiveFindings(config.policy, first))
    /\ \E scan \in {Scan(config, AllRules \ Canonicalizers, text)} :
           Proceed(scan, SortFindings(first \o scan[1]), "scanned")
    /\ UNCHANGED <<config, text, removal, second, result>>

(* apply_with_rescan with nothing to remove, or with something to block    *)
EnforceFirst ==
    /\ phase = "scanned" /\ ~Rescans(EffectiveFindings(config.policy, first))
    /\ result' = <<Apply(config.policy, text, first)>>
    /\ phase' = "enforced"
    /\ UNCHANGED <<config, text, first, removal, second>>

(* apply_with_rescan: _remove_effective_findings                           *)
RemoveSpans ==
    /\ phase = "scanned" /\ Rescans(EffectiveFindings(config.policy, first))
    /\ removal' = <<RemoveFindings(text, EffectiveFindings(config.policy, first))>>
    /\ phase' = "removed"
    /\ UNCHANGED <<config, text, first, second, result>>

(* apply_with_rescan: rescan(removal_map.text)                             *)
Rescan ==
    /\ phase = "removed"
    /\ \E scan \in {Scan(config, AllRules, removal[1].text)} :
           IF scan = <<>> THEN second' = second /\ phase' = "raised"
                          ELSE second' = scan[1] /\ phase' = "rescanned"
    /\ UNCHANGED <<config, text, first, removal, result>>

Mapped == MapBack(removal[1], second)

(* Span refuses an end before its start.                                   *)
RefuseSpan ==
    /\ phase = "rescanned" /\ ~SpansFit(Mapped, text)
    /\ phase' = "raised"
    /\ UNCHANGED <<config, text, first, removal, second, result>>

(* apply_with_rescan: the removals and everything the second scan found    *)
EnforceSecond ==
    /\ phase = "rescanned" /\ SpansFit(Mapped, text)
    /\ result' = <<Apply(config.policy, text,
                         Combined(EffectiveFindings(config.policy, first), Mapped))>>
    /\ phase' = "enforced"
    /\ UNCHANGED <<config, text, first, removal, second>>

(* Mutant of MustRevalidate: only what was removed is looked at again.     *)
MustRevalidateRemoved(r) ==
    /\ "json" \in config.rules /\ config.scope = "OUTPUT"
    /\ r.decision = "REMOVE"

(* Whether enforce_json_postcondition looks at the text again.             *)
MustRevalidate(r) ==
    /\ "json" \in config.rules /\ config.scope = "OUTPUT"
    /\ r.decision # "BLOCK" /\ r.text # text

(* enforce_json_postcondition: an invalid document is one more finding, at *)
(* the beginning of the text.                                              *)
Revalidate ==
    /\ phase = "enforced"
    /\ LET r       == result[1]
           invalid == IF MustRevalidate(r) THEN JSONScan(config.json, r.text) ELSE <<>>
       IN  result' = IF invalid = <<>> THEN result
                     ELSE <<Apply(config.policy, text,
                                  Append(r.findings,
                                         Match("json", "BLOCK", [start |-> 0, end |-> 0])))>>
    /\ phase' = "done"
    /\ UNCHANGED <<config, text, first, removal, second>>

Next ==
    \/ \E piece \in config.alphabet : Write(piece)
    \/ Refuse
    \/ ScanWhole
    \/ ScanCanonicalizers
    \/ SkipRemaining
    \/ ScanRemaining
    \/ EnforceFirst
    \/ RemoveSpans
    \/ Rescan
    \/ RefuseSpan
    \/ EnforceSecond
    \/ Revalidate

Spec == Init /\ [][Next]_vars

-----------------------------------------------------------------------------
(* A call is at one place; what it has found lies inside the text that was *)
(* scanned; a result carries text exactly when it does not block, and the  *)
(* decision is the strongest action of its findings.                       *)
TypeOK ==
    /\ config \in Configurations
    /\ phase \in {"text", "canonical", "scanned", "removed", "rescanned", "enforced",
                  "done", "raised"}
    /\ SpansFit(first, text)
    /\ Len(removal) <= 1 /\ Len(result) <= 1
    /\ removal # <<>> => SpansFit(second, removal[1].text)
    /\ phase \in {"enforced", "done"} =>
          /\ SpansFit(result[1].findings, text)
          /\ result[1].decision = Strongest(ActionsOf(result[1].findings))
          /\ result[1].decision = "BLOCK" <=> result[1].text = Blocked

(* The text of a result is the original one without exactly the characters *)
(* that a finding to remove or redact covers, and one marker in each gap   *)
(* that holds redacted characters: however findings overlap, touch or      *)
(* contain each other, none is left in part and nothing else is lost.      *)
KeepsUncoveredText ==
    phase = "done" /\ result[1].text # Blocked =>
        result[1].text = Uncovered(text, result[1].findings)

(* The second scan's findings, made for a text without the removals, are   *)
(* enforced on the original text where they belong: the outcome is the one *)
(* of rewriting the scanned text directly.                                 *)
EnforcesWhatWasScanned ==
    phase = "enforced" /\ removal # <<>> /\ result[1].text # Blocked =>
        result[1].text =
            SanitizeFindings(removal[1].text, EffectiveFindings(config.policy, second))

(* Removing hidden characters and scanning once more is enough: under a    *)
(* policy that leaves these rules alone, no result contains a directional  *)
(* override, an invisible run inside a token, or tag characters other than *)
(* a flag's.  One kind of tag characters does stay: those that begin with  *)
(* LANG right behind a flag, which the code's search never looks at.       *)
NoHiddenCharacterSurvives ==
    phase = "done" /\ result[1].text # Blocked /\ DOMAIN config.policy \cap Canonicalizers = {} =>
        LET t == result[1].text
            tolerated(run) ==
                \E end \in run.start + 1 .. run.end :
                    /\ IsFlagRun(t, run.start, end)
                    /\ end < run.end => t[end + 1] = "LANG"
        IN  /\ "bidi" \in config.rules => Range(t) \cap Overrides = {}
            /\ {"tag", "invisible"} \subseteq config.rules /\ config.scope = "INPUT" =>
                  /\ \A run \in Range(RunsOf(t, TagStarts)) : tolerated(run)
                  /\ \A run \in Range(RunsOf(t, Invisibles)) : ~Embedded(t, run.start, run.end)

(* Output that must be JSON is JSON when it is let through: also when what *)
(* was removed or redacted changed the document.  A policy that only       *)
(* reviews it reports the invalid document instead.                        *)
PassedOutputIsValid ==
    (/\ phase = "done" /\ result[1].text # Blocked
     /\ "json" \in config.rules /\ config.scope = "OUTPUT") =>
        \/ JSONScan(config.json, Normalize(result[1].text).text) = <<>>
        \/ \E f \in Range(result[1].findings) : f.rule = "json" /\ f.action = "REVIEW"

(* A call with an acceptable text returns a result, with one exception:    *)
(* when the document in which the second scan misses something at its end  *)
(* is followed by a removal, the finding's empty span cannot be mapped     *)
(* back and the call raises.                                               *)
RaisesOnlyForEmptySpan ==
    phase \in {"raised", "done"} /\ Len(text) <= config.maxInput =>
        (phase = "raised" <=>
            /\ removal # <<>>
            /\ \E f \in Range(second), cut \in Range(removal[1].cuts) :
                  /\ f.rule = "json" /\ f.start = f.end
                  /\ f.end = Len(removal[1].text) /\ cut.position = f.end)

(* apply_with_rescan over a whole first scan; Raises for an exception.     *)
Raises == [decision |-> "raises", text |-> Blocked, findings |-> <<>>]

WithSecond(c, t, effective, mapped) ==
    IF SpansFit(mapped, t) THEN Apply(c.policy, t, Combined(effective, mapped)) ELSE Raises

Rescanned(c, t, effective, map, scan) ==
    IF scan = <<>> THEN Raises ELSE WithSecond(c, t, effective, MapBack(map, scan[1]))

Removes(c, t, effective, map) ==
    Rescanned(c, t, effective, map, Scan(c, AllRules, map.text))

Judged(c, t, effective) ==
    IF Rescans(effective) THEN Removes(c, t, effective, RemoveFindings(t, effective))
    ELSE ApplyEffective(t, effective)

WholeResult(c, t, scan) ==
    IF scan = <<>> THEN Raises ELSE Judged(c, t, EffectiveFindings(c.policy, scan[1]))

(* Leaving the other rules out of the first scan changes no result, except *)
(* where another rule would block the text as it stands, or remove from    *)
(* it: that rule judges only what remains of it.                           *)
StagingDefersBlocksAndRemovals ==
    phase = "enforced" \/ (phase = "raised" /\ Len(text) <= config.maxInput) =>
        \A whole \in {Scan(config, AllRules, text)} :
            \/ (IF phase = "raised" THEN Raises ELSE result[1]) = WholeResult(config, text, whole)
            \/ /\ config.staged /\ removal # <<>>
               /\ \E f \in Range(EffectiveFindings(config.policy, whole[1])) :
                     f.action \in {"BLOCK", "REMOVE"} /\ f.rule \notin Canonicalizers

(* The cap on the matches of one group of literals, which keeps the work   *)
(* bounded, never changes what is found nor whether there was too much.    *)
CapLosesNoLiteral ==
    phase = "done" /\ "content" \in config.rules =>
        LET t == Normalize(text).text
        IN  \A all \in {SelectDisjoint(FoldSet(LAMBDA g, ms : ms \o GroupMatches(g, t), <<>>,
                                               Groups(config.literals)))} :
                FindLiterals(config.literals, t) =
                    [matches  |-> SubSeq(all, 1, Min({MaxLiterals, Len(all)})),
                     overflow |-> Len(all) > MaxLiterals]

(* The rules with limits of their own on what they look at, a              *)
(* configuration without these limits, and what a rule finds under it; of  *)
(* secrets, what each signature finds on its own, as pairs with it.        *)
Limited == {"repetition", "connection", "resource", "url"}

Lifted(c) ==
    [c EXCEPT !.repetitionLimit       = Unlimited,
              !.connection.candidates = Unlimited,
              !.resource = [candidates |-> Unlimited, markup |-> Unlimited, url |-> Unlimited],
              !.url      = [candidates |-> Unlimited, url |-> Unlimited]]

TokensAlone(catalog, t) ==
    UNION {{sig} \X Range(Tokens(<<sig>>, t)) : sig \in Signatures(catalog)}

BehindOverlong(limit, t, f) ==
    \E o \in 0 .. Len(t) - 1 :
        /\ o <= f.start /\ IsImageMarker(t, o)
        /\ InspectImage(t, o, limit) # InspectImage(t, o, Unlimited)

(* Neither a rule's limits nor what else it finds hide anything from it:   *)
(* what it would find without limits, and with one signature alone, is     *)
(* covered, by a finding of its own or by the one that says that a limit   *)
(* is reached.  A policy that turns this block into a redaction then lets  *)
(* nothing through that was not looked at, and an additional catalog does  *)
(* not weaken the built-in one.  There are three exceptions.               *)
(* What begins at or behind image markup longer than its limit: the report *)
(* ends at the limit, and for a bare URL that reaches it there is none.    *)
(* Passwords of a line where more are waiting for a context than can be    *)
(* kept: the last ones are dropped, even if the first ones expire.         *)
(* And secrets that begin inside a token of another signature, or inside a *)
(* prefix: they are skipped, also when they go on behind its end.          *)
NothingIsHidden ==
    phase = "done" =>
        LET t == Normalize(text).text
            covered(f, reports) == \E g \in reports : g.start <= f.start /\ f.end <= g.end
            crowded(f) ==
                Cardinality({o \in 0 .. f.start - 1 :
                                /\ t[o + 1] = Password
                                /\ "LF" \notin Range(Slice(t, o, f.start))})
                    > config.connection.candidates + 1
            begun(f, sig) ==
                \/ \E g \in Range(Tokens(config.catalog, t)) : g.start <= f.start /\ f.start < g.end
                \/ \E o \in 0 .. f.start : \E pair \in PrefixesAt(config.catalog, t, o) :
                      pair[2] # sig /\ f.start < o + Len(pair[1])
        IN  /\ \A rule \in Limited \cap config.rules :
                  \A reports \in {Range(RuleScan(config, rule, t))} :
                    \A f \in Range(RuleScan(Lifted(config), rule, t)) :
                        \/ covered(f, reports)
                        \/ rule = "resource" /\ BehindOverlong(config.resource.markup, t, f)
                        \/ rule = "connection" /\ crowded(f)
            /\ "secret" \in config.rules =>
                  \A reports \in {Range(SecretsScan(config.catalog, SecretLimit, t))} :
                    \A pair \in TokensAlone(config.catalog, t) :
                        covered(pair[2], reports) \/ begun(pair[2], pair[1])

==============================================================================
