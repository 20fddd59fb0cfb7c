------------------------------ MODULE LinkScan -------------------------------
(***************************************************************************)
(* Two rules about URLs: images that a reader of the output would load     *)
(* (rules/external_resource.py) and URLs of unsafe structure               *)
(* (rules/unsafe_url.py).  One symbol each stands for "https://" and       *)
(* "data:", and "img" and "src" are words of one character.  A host is a   *)
(* text of letters and digits: ports, suffixes and IP literals other than  *)
(* plain numbers are left out, as are character references and quotation   *)
(* marks of a second kind.                                                 *)
(***************************************************************************)
EXTENDS Inspection

Https == "https://"
Data  == "data:"

(* _normalize_hostname drops one final dot and accepts labels.             *)
WithoutDot(host) == IF host # <<>> /\ Last(host) = "." THEN Front(host) ELSE host

IsHostname(host) ==
    /\ host # <<>> /\ Range(host) \subseteq TokenChars \cup {"img", "src", Https, Data, "."}
    /\ \A i \in DOMAIN host : host[i] = "." => i \notin {1, Len(host)} /\ host[i + 1] # "."

(* urlsplit of what follows "https://": up to the path, and the host       *)
(* behind the last @.  The path of a URL that follows begins in its "//".  *)
(* Brackets and a port that is no number are refused.                      *)
Netloc(rest) ==
    LET end == FirstWhere(LAMBDA q : rest[q + 1] \in {"/", "?", "#", Https}, 0, Len(rest))
    IN  Slice(rest, 0, IF end < Len(rest) /\ rest[end + 1] = Https THEN end + 1 ELSE end)

HostOf(netloc) ==
    LET signs == {q \in DOMAIN netloc : netloc[q] = "@"}
    IN  Slice(netloc, Max({0} \cup signs), Len(netloc))

IsAmbiguous(netloc) ==
    \/ Range(netloc) \cap {"[", "]", "\\"} # {}
    \/ LET host == HostOf(netloc)
       IN  \E i \in DOMAIN host :
              host[i] = Data /\ ~(Range(SubSeq(host, i + 1, Len(host))) \subseteq {"1", "8"})

-----------------------------------------------------------------------------
(* How many backslashes stand right before offset o, from a on.            *)
Backslashes(text, a, o) ==
    Cardinality({q \in a .. o - 1 : \A p \in q .. o - 1 : text[p + 1] = "\\"})

(* _is_backslash_escaped; and where a scan that began at a reads a         *)
(* character for what it is.                                               *)
IsEscaped(text, a, o) == Backslashes(text, a, o) % 2 = 1
Plain(text, a, o) == text[o + 1] # "\\" /\ ~IsEscaped(text, a, o)

(* The opening characters less the closing ones that a scan from a reads   *)
(* before o.                                                               *)
Nesting(text, a, o, opening, closing) ==
    Cardinality({q \in a .. o - 1 : Plain(text, a, q) /\ text[q + 1] = opening})
    - Cardinality({q \in a .. o - 1 : Plain(text, a, q) /\ text[q + 1] = closing})

SkipSpaces(text, o, end) == FirstWhere(LAMBDA q : text[q + 1] \notin Spaces, o, end)

(* _markdown_tail_is_valid: a title, or nothing, and the end of the link.  *)
ClosingOf(opening) == IF opening = "(" THEN ")" ELSE Quote

TitleEnd(text, start, boundary) ==
    FirstWhere(LAMBDA q : /\ Plain(text, start + 1, q)
                          /\ \/ text[q + 1] = ClosingOf(text[start + 1])
                             \/ text[q + 1] = "LF" /\ text[start + 1] # "(",
               start + 1, boundary)

EndsLink(text, o, boundary) == o < boundary /\ text[o + 1] = ")"

EndsTitle(text, start, end, boundary) ==
    /\ end < boundary /\ text[end + 1] = ClosingOf(text[start + 1])
    /\ EndsLink(text, SkipSpaces(text, end + 1, boundary), boundary)

IsTail(text, start, boundary) ==
    \/ EndsLink(text, start, boundary)
    \/ /\ start < boundary /\ text[start + 1] \in {Quote, "("}
       /\ EndsTitle(text, start, TitleEnd(text, start, boundary), boundary)

TailIsValid(text, o, boundary) == IsTail(text, SkipSpaces(text, o, boundary), boundary)

(* What looking at one marker gives: a URL's span, as a sequence of at     *)
(* most one, and the span of what could not be inspected, likewise.        *)
Nothing      == [url |-> <<>>, failure |-> <<>>]
Found(a, b)  == [url |-> <<[start |-> a, end |-> b]>>, failure |-> <<>>]
Failed(a, b) == [url |-> <<>>, failure |-> <<[start |-> a, end |-> b]>>]

(* Markup of the marker at o that goes on until the boundary: a failure,   *)
(* unless the text ends there.                                             *)
Unfinished(text, o, boundary) == IF boundary < Len(text) THEN Failed(o, boundary) ELSE Nothing

(* _find_markdown_destination for the "![" at o: the label, then a         *)
(* destination in angle brackets or a bare one.                            *)
AngleUpTo(text, o, start, end, boundary) ==
    IF end = boundary THEN Unfinished(text, o, boundary)
    ELSE IF text[end + 1] = ">" /\ TailIsValid(text, end + 1, boundary) THEN Found(start, end)
    ELSE Nothing

AngleDestination(text, o, start, boundary) ==
    AngleUpTo(text, o, start,
              FirstWhere(LAMBDA q : Plain(text, start, q) /\ text[q + 1] \in {"LF", ">"},
                         start, boundary), boundary)

BareUpTo(text, start, end, boundary) ==
    IF end > start /\ Nesting(text, start, end, "(", ")") = 0 /\ TailIsValid(text, end, boundary)
    THEN Found(start, end) ELSE Nothing

BareDestination(text, start, boundary) ==
    BareUpTo(text, start,
             FirstWhere(LAMBDA q : /\ Plain(text, start, q)
                                   /\ \/ text[q + 1] \in Spaces
                                      \/ /\ text[q + 1] = ")"
                                         /\ Nesting(text, start, q, "(", ")") = 0,
                        start, boundary), boundary)

Destination(text, o, start, boundary) ==
    IF start = boundary THEN Nothing
    ELSE IF text[start + 1] = "<" THEN AngleDestination(text, o, start + 1, boundary)
    ELSE BareDestination(text, start, boundary)

BehindLabel(text, o, label, boundary) ==
    IF label = boundary THEN Unfinished(text, o, boundary)
    ELSE IF label + 1 = boundary \/ text[label + 2] # "(" THEN Nothing
    ELSE Destination(text, o, SkipSpaces(text, label + 2, boundary), boundary)

MarkdownImage(text, o, boundary) ==
    BehindLabel(text, o,
                FirstWhere(LAMBDA q : /\ Plain(text, o + 2, q) /\ text[q + 1] = "]"
                                      /\ Nesting(text, o + 2, q, "[", "]") = 0,
                           o + 2, boundary), boundary)

(* _find_html_tag_end: the first ">" that is not quoted, or the boundary.  *)
TagEnd(text, o, boundary) ==
    LET quoted(q) == Cardinality({p \in o + 2 .. q - 1 : text[p + 1] = Quote}) % 2 = 1
    IN  FirstWhere(LAMBDA q : text[q + 1] = ">" /\ ~quoted(q), o + 2, boundary)

NameChars == TokenChars \cup {"img", "src", "-", "_", ":"}

(* _find_html_src: attribute by attribute, the first src with a value.     *)
Trimmed(text, a, b) ==
    [start |-> SkipSpaces(text, a, b),
     end   |-> Max({a} \cup {q + 1 : q \in {p \in a .. b - 1 : text[p + 1] \notin Spaces}})]

(* One attribute from the value on: its span, and where the next begins.   *)
Unquoted(text, o, close) == [value |-> Trimmed(text, o, close), next |-> close]
Quoted(text, o, close, end) ==
    IF close = end THEN [next |-> end] ELSE [value |-> Trimmed(text, o, close), next |-> close + 1]

Value(text, open, end) ==
    IF open = end THEN [next |-> end]
    ELSE IF text[open + 1] = Quote
    THEN Quoted(text, open + 1, FirstWhere(LAMBDA q : text[q + 1] = Quote, open + 1, end), end)
    ELSE Unquoted(text, open, FirstWhere(LAMBDA q : text[q + 1] \in Spaces, open, end))

(* From its name on, which ends at behind.                                 *)
Attribute(text, name, behind, equals, end) ==
    [name |-> Slice(text, name, behind)] @@
    (IF behind = name THEN [next |-> name + 1]
     ELSE IF equals = end \/ text[equals + 1] # "=" THEN [next |-> equals]
     ELSE Value(text, SkipSpaces(text, equals + 1, end), end))

Named(text, name, behind, end) ==
    Attribute(text, name, behind, SkipSpaces(text, behind, end), end)

NextAttribute(text, name, end) ==
    Named(text, name, FirstWhere(LAMBDA q : text[q + 1] \notin NameChars, name, end), end)

IsSource(a) == a.name = <<"src">> /\ "value" \in DOMAIN a /\ a.value.start < a.value.end

ImageSource(text, o, end) ==
    LET from[cursor \in 0 .. Len(text) + 1] ==
            LET Behind(a) == IF IsSource(a) THEN Found(a.value.start, a.value.end)
                             ELSE from[a.next]
            IN  IF cursor >= end THEN Nothing
                ELSE Behind(NextAttribute(text,
                         FirstWhere(LAMBDA q : text[q + 1] \notin Spaces \cup {"/"}, cursor, end),
                         end))
    IN  from[o + 2]

(* One "<img" at o, whose tag ends at end                                  *)
HTMLImage(text, o, end, boundary) ==
    IF end = boundary THEN Failed(o, boundary) ELSE ImageSource(text, o, end)

(* _RESOURCE_START, and _find_candidates of one marker; the limits are     *)
(* [candidates, markup, url], and markup is at least a marker's length.    *)
IsImageMarker(text, o) ==
    \/ /\ o + 1 < Len(text) /\ text[o + 1] = "!" /\ text[o + 2] = "["
       /\ ~IsEscaped(text, 0, o)
    \/ /\ o + 2 < Len(text) /\ text[o + 1] = "<" /\ text[o + 2] = "img"
       /\ text[o + 3] \in Spaces \cup {"/", ">"}

InspectWithin(text, o, boundary) ==
    IF text[o + 1] = "!" THEN MarkdownImage(text, o, boundary)
    ELSE HTMLImage(text, o, TagEnd(text, o, boundary), boundary)

InspectImage(text, o, limit) == InspectWithin(text, o, Min({Len(text), o + limit}))

(* _find_candidates: the search ends at the first failure, and at the      *)
(* first URL too many, which hides the rest of the text.                   *)
TakeImage(limits, text, s, o, seen) ==
    IF seen.url # <<>> /\ Len(s.urls) >= limits.candidates
    THEN [s EXCEPT !.failure = <<[start |-> seen.url[1].start, end |-> Len(text)]>>]
    ELSE [urls    |-> s.urls \o [n \in DOMAIN seen.url |->
                          seen.url[n] @@ [markdown |-> text[o + 1] = "!"]],
          failure |-> seen.failure]

FindImages(limits, text) ==
    FoldLeft(LAMBDA s, o : IF s.failure # <<>> THEN s
                           ELSE TakeImage(limits, text, s, o,
                                          InspectImage(text, o, limits.markup)),
             [urls |-> <<>>, failure |-> <<>>],
             SelectSeq([i \in DOMAIN text |-> i - 1], LAMBDA o : IsImageMarker(text, o)))

(* _decoded_url without the spaces around it: in Markdown a backslash      *)
(* before punctuation only protects it.                                    *)
Punctuation == {"!", "[", "]", "(", ")", "{", "}", "<", ">", "/", "?", "#", "@", ":", ".", ",", ";",
                "=", "-", "_", "+", "\\", Quote}

DecodedURL(text, span) ==
    LET first     == SkipSpaces(text, span.start, span.end)
        escape(q) == /\ span.markdown /\ text[q + 1] = "\\" /\ ~IsEscaped(text, span.start, q)
                     /\ q + 1 < span.end /\ text[q + 2] \in Punctuation
        kept      == SelectSeq([n \in 1 .. span.end - first |-> first + n - 1],
                         LAMBDA q : text[q + 1] # "LF" /\ ~escape(q))
    IN  [n \in DOMAIN kept |-> text[kept[n] + 1]]

(* _resource_risk: it is loaded from a host that is not allowed, or from   *)
(* nobody knows where.                                                     *)
LoadsElsewhere(allowed, url) ==
    LET Slashes  == {"/", "\\"}
        relative == Len(url) > 1 /\ url[1] \in Slashes /\ url[2] \in Slashes
        absolute == url # <<>> /\ Head(url) = Https
        netloc   == Netloc(Slice(url, IF relative THEN 2 ELSE 1, Len(url)))
    IN  /\ relative \/ absolute
        /\ \/ "\\" \in Range(url) \/ IsAmbiguous(netloc)
           \/ WithoutDot(HostOf(netloc)) \notin allowed

(* ExternalResourceRule.scan over a text                                   *)
IsLong(url, limits) == url.end - url.start > limits.url

Reports(rule, limits, urls) == [n \in DOMAIN urls |->
    Match(rule, IF IsLong(urls[n], limits) THEN "BLOCK" ELSE "REDACT", urls[n])]

ResourceScan(limits, allowed, text) ==
    LET Report(found, risky(_)) ==
            Reports("resource", limits, SelectSeq(found.urls, risky))
            \o Matches("resource", "BLOCK", found.failure)
    IN  Report(FindImages(limits, text),
               LAMBDA u : IsLong(u, limits) \/ LoadsElsewhere(allowed, DecodedURL(text, u)))

-----------------------------------------------------------------------------
(* _URL_START                                                              *)
URLOffsets(text) ==
    SelectSeq([i \in DOMAIN text |-> i - 1],
        LAMBDA o : /\ text[o + 1] \in {Https, Data}
                   /\ o = 0 \/ text[o] \notin TokenChars \cup {"img", "src", "+", ".", "_", "-"})

(* _candidate_end: without trailing punctuation, and without closing       *)
(* brackets that were opened before the URL.                               *)
Brackets == << <<"(", ")">>, <<"[", "]">>, <<"{", "}">> >>

URLEnd(text, o) ==
    LET raw      == FirstWhere(LAMBDA q : text[q + 1] \in Spaces \cup {Quote, "<", ">"}, o, Len(text))
        count(c) == Cardinality({q \in o .. raw - 1 : text[q + 1] = c})
        before(end, chars, most) ==
            Min({e \in Max({o, end - most}) .. end :
                    \A q \in e .. end - 1 : text[q + 1] \in chars})
    IN  FoldLeft(LAMBDA end, pair :
                     before(end, {pair[2]}, Max({0, count(pair[2]) - count(pair[1])})),
                 before(raw, {".", ",", ";", "!", "?"}, raw), Brackets)

(* Mutant of FindURLs: one URL too many hides itself and not the rest.     *)
FindURLsHidingOne(limits, text) ==
    LET see(s, o) ==
            LET url == [start |-> o, end |-> URLEnd(text, o)]
            IN  IF s.overflow # <<>> \/ o < s.covered THEN s
                ELSE IF Len(s.urls) >= limits.candidates THEN [s EXCEPT !.overflow = <<url>>]
                ELSE [s EXCEPT !.covered = Max({@, url.end}),
                               !.urls = IF url.end > o + 1 THEN Append(@, url) ELSE @]
    IN  FoldLeft(see, [urls |-> <<>>, covered |-> 0, overflow |-> <<>>], URLOffsets(text))

(* _find_candidates: URLs inside one another are one, and one URL too many *)
(* hides the rest of the text.                                             *)
FindURLs(limits, text) ==
    LET see(s, o) ==
            LET end == URLEnd(text, o)
            IN  IF s.overflow # <<>> \/ o < s.covered THEN s
                ELSE IF Len(s.urls) >= limits.candidates
                THEN [s EXCEPT !.overflow = <<[start |-> o, end |-> Len(text)]>>]
                ELSE [s EXCEPT !.covered = Max({@, end}),
                               !.urls = IF end > o + 1
                                        THEN Append(@, [start |-> o, end |-> end]) ELSE @]
    IN  FoldLeft(see, [urls |-> <<>>, covered |-> 0, overflow |-> <<>>], URLOffsets(text))

(* _host_risks: whether there are any, under the hosts that are denied and *)
(* those that alone are allowed.  A host of one to three numbers is one.   *)
UnsafeHost(hosts, netloc) ==
    LET host    == HostOf(netloc)
        named   == WithoutDot(host)
        numbers == Slice(host, 0, Max({0} \cup {i \in DOMAIN host : host[i] # "."}))
    IN  \/ IsAmbiguous(netloc) \/ "@" \in Range(netloc)
        \/ /\ IsHostname(numbers) /\ Range(numbers) \subseteq {"1", "8", "."}
           /\ Cardinality({i \in DOMAIN numbers : numbers[i] = "."}) < 3
        \/ /\ hosts.denied \cup hosts.allowed # {}
           /\ \/ ~IsHostname(named) \/ named \in hosts.denied
              \/ hosts.allowed # {} /\ named \notin hosts.allowed

(* UnsafeURLRule.scan over a text                                          *)
URLScan(limits, hosts, text) ==
    LET Report(found, risky(_)) ==
            Reports("url", limits, SelectSeq(found.urls, risky))
            \o Matches("url", "BLOCK", found.overflow)
    IN  Report(FindURLs(limits, text),
               LAMBDA u : \/ IsLong(u, limits) \/ text[u.start + 1] = Data
                          \/ UnsafeHost(hosts, Netloc(Slice(text, u.start + 1, u.end))))

==============================================================================
