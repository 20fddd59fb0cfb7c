--------------------------- MODULE ConnectionScan ----------------------------
(***************************************************************************)
(* Credentials in connection strings: rules/connection_string.py.  One     *)
(* symbol stands for "postgres://" and its like, one for "server=", one    *)
(* for "password=", and one for the word "your_password" that              *)
(* documentation puts where a password goes; a symbol counts for one       *)
(* character.  Limits are [candidates, credential, connection]:            *)
(* max_candidates, max_credential_chars and max_connection_chars.          *)
(***************************************************************************)
EXTENDS Inspection

Scheme      == "scheme://"
Context     == "server="
Password    == "password="
Placeholder == "your_password"

(* What the patterns must not find before a prefix.                        *)
FieldChars  == TokenChars \cup {"_", Placeholder}
SchemeChars == FieldChars \cup {"+", ".", ":", "-"}

PrefixOffsets(text, prefixes, before) ==
    SelectSeq([i \in DOMAIN text |-> i - 1],
        LAMBDA o : /\ text[o + 1] \in prefixes
                   /\ o = 0 \/ text[o] \notin before)

IsPlaceholder(text, start, end) ==
    SelectSeq(Slice(text, start, end), LAMBDA c : c \notin Spaces) = <<Placeholder>>

(* A candidate that is one is left out, unless it is too long to look at.  *)
IsCandidate(limits, text, span) ==
    \/ span.end - span.start > limits.credential
    \/ ~IsPlaceholder(text, span.start, span.end)

(* The limit on what is collected: one more than is reported.              *)
AtMost(limit, s) == SubSeq(s, 1, Min({limit, Len(s)}))

-----------------------------------------------------------------------------
(* _URI_AUTHORITY_END *)
AuthorityEnds == {"/", "?", "#", Quote, "<", Scheme} \cup Spaces

(* _uri_credential_span: between the first colon and the last @ of the     *)
(* authority that begins at o, if there is anything between them.          *)
URICredential(text, o) ==
    LET end   == FirstWhere(LAMBDA q : text[q + 1] \in AuthorityEnds, o, Len(text))
        Between(last) ==
            LET colon == FirstWhere(LAMBDA q : text[q + 1] = ":", o, last)
            IN  IF colon + 1 >= last THEN <<>> ELSE <<[start |-> colon + 1, end |-> last]>>
    IN  Between(Max({o} \cup {q \in o .. end - 1 : text[q + 1] = "@"}))

(* _uri_candidates *)
URICandidates(limits, text) ==
    LET Behind(o, found) == [n \in DOMAIN found |-> found[n] @@ [prefix |-> o]]
        offsets == PrefixOffsets(text, {Scheme}, SchemeChars)
    IN  AtMost(limits.candidates + 1, FlattenSeq([n \in DOMAIN offsets |->
            Behind(offsets[n], SelectSeq(URICredential(text, offsets[n] + 1),
                                      LAMBDA span : IsCandidate(limits, text, span)))]))

-----------------------------------------------------------------------------
SkipBlanks(text, o) == FirstWhere(LAMBDA q : text[q + 1] # " ", o, Len(text))

(* _quoted_value_end and _braced_value_end: the first closer that is not   *)
(* doubled, unless the line or the window ends before it.                  *)
EnclosedEnd(text, start, closer, window) ==
    LET run(o)    == Cardinality({q \in start .. o : \A p \in q .. o : text[p + 1] = closer})
        closes(o) == /\ text[o + 1] = closer /\ run(o) % 2 = 1
                     /\ o + 1 = window \/ text[o + 2] # closer
        Stop(end) == [end |-> end, closed |-> end < window /\ text[end + 1] = closer]
    IN  Stop(FirstWhere(LAMBDA o : text[o + 1] = "LF" \/ closes(o), start, window))

(* _unquoted_value_end *)
UnquotedEnd(text, start, window) ==
    LET end == FirstWhere(LAMBDA o : text[o + 1] \in {";", "LF", Quote, "<"}, start, window)
    IN  Max({start} \cup {o + 1 : o \in {q \in start .. end - 1 : text[q + 1] # " "}})

Closers == [opener \in {Quote, "{"} |-> IF opener = "{" THEN "}" ELSE Quote]

(* What ends a field at or behind o: no separator is -1.                   *)
NoSeparator == -1

FieldEnd(text, o) ==
    LET From(after) == IF after < Len(text) /\ text[after + 1] = ";"
                       THEN [separator |-> after, next |-> after + 1]
                       ELSE [separator |-> NoSeparator, next |-> after]
    IN  From(SkipBlanks(text, o))

(* _keyword_credential_span: a value that has not ended within the limit   *)
(* is extended to the end of its line.                                     *)
CredentialField(limits, text, value, enclosed, inner) ==
    LET window  == Min({Len(text), value + limits.credential + 1})
        runaway == ~inner.closed /\ inner.end >= window /\ window < Len(text)
        end     == IF runaway
                   THEN FirstWhere(LAMBDA q : text[q + 1] = "LF", inner.end, Len(text))
                   ELSE inner.end
    IN  [start |-> value, end |-> end] @@
        FieldEnd(text, IF enclosed /\ inner.closed THEN end + 1 ELSE end)

BareEnd(text, end, window) == [end |-> end, closed |-> end < window \/ window = Len(text)]

CredentialFrom(limits, text, start, opener) ==
    LET Window(value) == Min({Len(text), value + limits.credential + 1})
    IN  CASE opener \in {";", "LF"} ->
                [start |-> start, end |-> start, separator |-> NoSeparator, next |-> start]
          [] opener \in DOMAIN Closers ->
                CredentialField(limits, text, start + 1, TRUE,
                    EnclosedEnd(text, start + 1, Closers[opener], Window(start + 1)))
          [] OTHER ->
                CredentialField(limits, text, start, FALSE,
                    BareEnd(text, UnquotedEnd(text, start, Window(start)), Window(start)))

(* The character at offset o; the end of the text ends a line too.         *)
At(text, o) == IF o < Len(text) THEN text[o + 1] ELSE "LF"

KeywordCredential(limits, text, o) ==
    LET From(start) == CredentialFrom(limits, text, start, At(text, start))
    IN  From(SkipBlanks(text, o))

(* _field_boundary: the end of a context field's value.                    *)
ContextEndFrom(text, start, window) ==
    LET opener == text[start + 1]
        Behind(inner) == FieldEnd(text, IF inner.closed THEN inner.end + 1 ELSE inner.end)
    IN  CASE start >= window \/ opener = "LF" -> [separator |-> NoSeparator, next |-> start]
          [] start < window /\ opener \in DOMAIN Closers ->
                Behind(EnclosedEnd(text, start + 1, Closers[opener], window))
          [] OTHER -> FieldEnd(text, UnquotedEnd(text, start, window))

ContextEnd(limits, text, o) ==
    LET From(start) == ContextEndFrom(text, start, Min({Len(text), start + limits.connection + 1}))
    IN  From(SkipBlanks(text, o))

(* One step of the loop of _keyword_candidates, for the field at f.  The   *)
(* passwords seen before a context wait in pending.                        *)
SeeContext(limits, text, s, f) ==
    LET ripe == SelectSeq(s.pending, LAMBDA c : c.separator < f)
    IN  ContextEnd(limits, text, f + 1) @@
        [s EXCEPT !.found = AtMost(limits.candidates + 1, @ \o ripe), !.pending = <<>>]

SeePassword(limits, text, s, f) ==
    LET prior == /\ s.separator # NoSeparator /\ s.separator < f
                 /\ s.separator >= f - limits.connection
        Take(value) ==
            LET this  == [prefix |-> f, start |-> value.start, end |-> value.end,
                          separator |-> value.separator]
                moved == [s EXCEPT !.next = value.next]
            IN  CASE value.end <= value.start \/ ~IsCandidate(limits, text, value) -> moved
                  [] prior -> [moved EXCEPT !.found = Append(@, this)]
                  [] value.separator # NoSeparator -> [moved EXCEPT !.pending = Append(@, this)]
                  [] OTHER -> moved
    IN  IF ~prior /\ Len(s.pending) > limits.candidates THEN s
        ELSE Take(KeywordCredential(limits, text, f + 1))

SeeNear(limits, text, s, near, f) ==
    CASE f < s.next -> s
      [] f >= s.next /\ text[f + 1] = Context -> SeeContext(limits, text, near, f)
      [] OTHER -> SeePassword(limits, text, near, f)

SeeField(limits, text, s, f) ==
    LET newline == \E o \in s.previous .. f - 1 : text[o + 1] = "LF"
        entered == IF newline
                   THEN [s EXCEPT !.pending = <<>>, !.separator = NoSeparator, !.next = 0,
                                  !.previous = f + 1]
                   ELSE [s EXCEPT !.previous = f + 1]
        Near(e) == [e EXCEPT !.pending =
                       SelectSeq(@, LAMBDA c : c.prefix >= f - limits.connection)]
    IN  IF Len(s.found) > limits.candidates THEN s
        ELSE SeeNear(limits, text, entered, Near(entered), f)

(* _keyword_candidates *)
KeywordCandidates(limits, text) ==
    FoldLeft(LAMBDA s, f : SeeField(limits, text, s, f),
             [found |-> <<>>, pending |-> <<>>, separator |-> NoSeparator,
              previous |-> 0, next |-> 0],
             PrefixOffsets(text, {Context, Password}, FieldChars)).found

-----------------------------------------------------------------------------
CandidateBefore(c, d) ==
    \/ c.prefix < d.prefix
    \/ c.prefix = d.prefix /\ SpanBefore(c, d)

(* ConnectionStringRule.scan over a text: one candidate too many blocks    *)
(* the rest of the text, a credential that is too long is blocked.         *)
ConnectionScan(limits, text) ==
    LET action(c) == IF c.end - c.start > limits.credential THEN "BLOCK" ELSE "REDACT"
        Report(candidates) ==
            LET reported == AtMost(limits.candidates, candidates)
            IN  [n \in DOMAIN reported |-> Match("connection", action(reported[n]), reported[n])]
                \o IF Len(candidates) <= limits.candidates THEN <<>>
                   ELSE <<Match("connection", "BLOCK",
                                [start |-> candidates[limits.candidates + 1].prefix,
                                 end   |-> Len(text)])>>
    IN  Report(SortSeq(URICandidates(limits, text) \o KeywordCandidates(limits, text),
                       CandidateBefore))

==============================================================================
