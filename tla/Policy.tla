------------------------------- MODULE Policy --------------------------------
(***************************************************************************)
(* How a FirewallPolicy turns findings into a result (policy.py).  A       *)
(* policy is a function from the rules it overrides, in the one scope of   *)
(* the request, to actions.  A result is a record [decision, text,         *)
(* findings], with Blocked for the text of a blocked one.                  *)
(***************************************************************************)
EXTENDS Redaction

(* processed_text None, and what texts are made of.                        *)
Blocked == <<"blocked">>
Characters == STRING \ (Range(Blocked) \cup {Marker})

Priority == [a \in Actions |->
    CASE a = "ALLOW" -> 0 [] a = "REVIEW" -> 1 [] a = "REMOVE" -> 2
      [] a = "REDACT" -> 3 [] a = "BLOCK" -> 4]

(* The strongest action of a set, ALLOW of the empty one.                  *)
Strongest(actions) ==
    CHOOSE a \in actions \cup {"ALLOW"} :
        \A b \in actions : Priority[b] <= Priority[a]

ActionsOf(findings) == {f.action : f \in Range(findings)}

(* FirewallPolicy.action_for *)
ActionFor(policy, rule, action) ==
    IF rule \in DOMAIN policy THEN policy[rule] ELSE action

(* _effective_findings *)
EffectiveFindings(policy, findings) ==
    [i \in DOMAIN findings |->
        [findings[i] EXCEPT !.action = ActionFor(policy, findings[i].rule, @)]]

(* Mutant of ApplyEffective: a blocked text is handed on.                   *)
ApplyEffectiveKeepingText(text, effective) ==
    LET decision == Strongest(ActionsOf(effective))
    IN  [decision |-> decision,
         text     |-> IF decision \in {"REMOVE", "REDACT"}
                      THEN SanitizeFindings(text, effective) ELSE text,
         findings |-> effective]

(* _apply_effective *)
ApplyEffective(text, effective) ==
    LET decision == Strongest(ActionsOf(effective))
    IN  [decision |-> decision,
         text     |-> CASE decision = "BLOCK" -> Blocked
                        [] decision \in {"REMOVE", "REDACT"} ->
                               SanitizeFindings(text, effective)
                        [] OTHER -> text,
         findings |-> effective]

(* apply *)
Apply(policy, text, findings) ==
    ApplyEffective(text, EffectiveFindings(policy, findings))

-----------------------------------------------------------------------------
(* _remove_effective_findings: the text without the removed spans; for     *)
(* each removal, where it was in that text (position) and how many         *)
(* characters went up to and with it (removed).                            *)
KeepRemoval(kept, f) == IF f.action = "REMOVE" THEN Append(kept, f) ELSE kept

Removals(effective) == FoldLeft(KeepRemoval, <<>>, effective)

ShiftOf(cuts) == IF cuts = <<>> THEN 0 ELSE Last(cuts).removed

CutStep(cuts, s) == Append(cuts, [position |-> s.start - ShiftOf(cuts),
                                  removed  |-> ShiftOf(cuts) + s.end - s.start])

RemoveFindings(text, effective) ==
    LET Without(merged) == [text |-> Rebuild(text, merged),
                            cuts |-> FoldLeft(CutStep, <<>>, merged)]
    IN  Without(MergeSpans(Operations(Removals(effective))))

(* The characters that went with the first n removals; n is an index of    *)
(* bisect_right, which counts the positions up to and with an offset, or   *)
(* of bisect_left, which counts those before it.                           *)
Removed(map, n) == IF n = 0 THEN 0 ELSE map.cuts[n].removed

BisectRight(map, offset) == Max({0} \cup {n \in DOMAIN map.cuts : map.cuts[n].position <= offset})

BisectLeft(map, offset) == Max({0} \cup {n \in DOMAIN map.cuts : map.cuts[n].position < offset})

(* Mutant of OriginalSpan: a removal exactly at the end of the span is     *)
(* counted, as if the span had contained it.                               *)
OriginalSpanToTheRight(map, start, end) ==
    [start |-> start + Removed(map, BisectRight(map, start)),
     end   |-> end + Removed(map, BisectRight(map, end))]

(* _RemovalMap.original_span: removals at the start of the span are in     *)
(* front of it, removals at its end behind it.                             *)
OriginalSpan(map, start, end) ==
    [start |-> start + Removed(map, BisectRight(map, start)),
     end   |-> end + Removed(map, BisectLeft(map, end))]

(* The findings of the second scan, at their place in the original text.   *)
MapBack(map, findings) ==
    [i \in DOMAIN findings |->
        LET span == OriginalSpan(map, findings[i].start, findings[i].end)
        IN  [findings[i] EXCEPT !.start = span.start, !.end = span.end]]

(* Whether apply_with_rescan removes and scans again.                      *)
Rescans(effective) ==
    "REMOVE" \in ActionsOf(effective) /\ "BLOCK" \notin ActionsOf(effective)

(* Mutant of Combined: the removals that led to the second scan are        *)
(* forgotten, as if the mapped findings were all.                          *)
CombinedWithoutRemovals(effective, mapped) == SortFindings(mapped)

(* The findings that are enforced after the second scan: the removals that *)
(* led to it and everything it found.                                      *)
Combined(effective, mapped) ==
    SortFindings(Removals(effective) \o mapped)

==============================================================================
