---------------------------- MODULE MCRuleEngine -----------------------------
(***************************************************************************)
(* Small engines, alphabets and tool requests for model checking           *)
(* RuleEngine and ToolGate.                                                *)
(***************************************************************************)
EXTENDS ToolGate

Singles(chars) == {<<c>> : c \in chars}

NoOverrides == [r \in {} |-> "BLOCK"]

(* A secret is a "p" and one "s"; it can be torn apart and put together by *)
(* what is removed, and a longer run of both letters is none.              *)
Secret == [id |-> "secret", prefixes |-> {<<"p">>}, suffix |-> {"s"},
           boundary |-> {"p", "s"}, min |-> 1, max |-> 1, ending |-> <<>>,
           action |-> "REDACT"]

(* A built-in catalog and an additional one, whose secrets can begin       *)
(* inside each other: in a token of the other signature, in a longer       *)
(* prefix at the same place, or in a prefix that is found before it.       *)
Catalog ==
    ResolveCatalog(
        <<[Secret EXCEPT !.boundary = {"p", "s", "t"}, !.max = 2, !.suffix = {"s", "t"}],
          [Secret EXCEPT !.id = "nested", !.prefixes = {<<"p", "t">>, <<"u", "p">>},
                         !.suffix = {"t", "8"}, !.boundary = {"p", "t", "u", "8"}]>>,
        <<[Secret EXCEPT !.id = "additional", !.prefixes = {<<"s", "8">>},
                         !.suffix = {"8"}, !.boundary = {"s", "8"}, !.max = 3]>>,
        NoCatalog)

(* Two short literals, of which one ignores case, and a longer one that    *)
(* can hide two matches of the short one.                                  *)
Literal(value, word, sensitive, action) ==
    [value |-> value, word |-> word, sensitive |-> sensitive, action |-> action]
Literals == {Literal(<<"b", "a">>, FALSE, TRUE, "REDACT"),
             Literal(<<"p", "b", "a", "b">>, FALSE, FALSE, "REVIEW"),
             Literal(<<"p", "A">>, TRUE, FALSE, "BLOCK")}

Engine == [rules |-> {}, scope |-> "INPUT", staged |-> TRUE, policy |-> NoOverrides,
           catalog |-> <<Secret>>, literals |-> Literals,
           thresholds |-> [character |-> 3, token |-> 2, line |-> 2],
           repetitionLimit |-> 1,
           json |-> [document |-> 9, depth |-> 1, structure |-> 2],
           connection |-> [candidates |-> 1, credential |-> 2, connection |-> 5],
           resource |-> [candidates |-> 1, markup |-> 6, url |-> 2],
           url |-> [candidates |-> 1, url |-> 3],
           hosts |-> [allowed |-> {<<"a">>}, denied |-> {<<"b">>}],
           maxInput |-> 5, alphabet |-> {}, tools |-> FALSE]

(* Hidden characters in a secret, in order of what they are next to.       *)
Hidden == [Engine EXCEPT
    !.rules = {"bidi", "invisible", "tag", "secret"},
    !.alphabet = Singles({"p", "s", "ZWSP", "RLO", "LANG"}) \cup {<<"TAG", "END">>, <<"FLAG">>}]
Tokenized == [Hidden EXCEPT
    !.rules = {"secret"}, !.staged = FALSE, !.maxInput = 5, !.catalog = Catalog,
    !.alphabet = Singles({"p", "s", "t", "u", "8", "."})]
Flags == [Hidden EXCEPT
    !.rules = {"bidi", "invisible", "tag"},
    !.maxInput = 7,
    !.alphabet = {<<"FLAG", "TAG", "END">>, <<"TAG">>, <<"LANG">>, <<"END", "RLO">>, <<"p", "WJ">>}]

(* Documents with something to remove or to redact in and around them.     *)
Documents == [Engine EXCEPT
    !.scope = "OUTPUT",
    !.rules = {"bidi", "json", "content"},
    !.literals = {Literal(<<"1", "8">>, FALSE, TRUE, "REDACT")},
    !.alphabet = Singles({Quote, "[", "]", "1", "8", ",", "RLO"})]

(* Documents of several lines.                                             *)
Lines == [Documents EXCEPT
    !.alphabet = {<<Quote>>, <<"[">>, <<"1", "]">>, <<"1", "8">>, <<"RLO">>, <<"CR">>, <<"LF">>}]

(* Literals and repetition, in words and lines.                            *)
Words == [Engine EXCEPT
    !.rules = {"content", "repetition", "bidi"}, !.maxInput = 6,
    !.alphabet = {<<"p">>, <<"b", "a">>, <<"A">>, <<"RLO">>, <<"CR">>, <<"LF">>}]

(* Literals in a row: one that hides three matches of another group, and    *)
(* more matches of that group than its cap.                                *)
Rows == [Engine EXCEPT
    !.rules = {"content"}, !.staged = FALSE, !.maxInput = 10,
    !.literals = {Literal(<<"b", "a">>, FALSE, TRUE, "REDACT"),
                  Literal(<<"b", "a", "b", "a", "b">>, FALSE, FALSE, "REVIEW"),
                  Literal(<<"A", "b">>, TRUE, FALSE, "REDACT")},
    !.alphabet = {<<"b", "a">>, <<"b">>, <<"A">>}]

(* Connection strings, with one and with several passwords on a line;      *)
(* images in Markdown and HTML, one with what ends and what protects it    *)
(* and several of them; links, with what is not part of them and in a row. *)
Strings == [Engine EXCEPT
    !.rules = {"connection"}, !.staged = FALSE, !.maxInput = 7,
    !.alphabet = {<<Scheme, "a", ":", "b", "@">>, <<Context, "a">>, <<Password, "a">>,
                  <<Password, "a", ";">>, <<";">>, <<Quote>>, <<"LF">>}]
Fields == [Strings EXCEPT
    !.connection.connection = 7, !.maxInput = 13,
    !.alphabet = {<<Password, "a", ";">>, <<Context, "a", ";">>, <<"LF">>}]
Images == [Engine EXCEPT
    !.rules = {"resource"}, !.scope = "OUTPUT", !.staged = FALSE, !.maxInput = 7,
    !.alphabet = {<<"!", "[", "]", "(">>, <<Https, "b">>, <<"a", ")">>, <<"\\", ")">>, <<")">>,
                  <<"<">>, <<">">>}]
Sources == [Images EXCEPT
    !.alphabet = {<<"<", "img", " ">>, <<"src", "=">>, <<Https, "b">>, <<"/", "/", "a">>,
                  <<">">>, <<Quote>>, <<" ">>}]
Pictures == [Images EXCEPT
    !.resource.markup = 8, !.maxInput = 15,
    !.alphabet = {<<"!", "[", "]", "(", Https, "b", ")">>, <<"\\">>, <<"a", "b">>,
                  <<"<", "img", " ", "src", "=", Https, ">">>, <<"<", "img", ">">>}]
Links == [Engine EXCEPT
    !.rules = {"url"}, !.staged = FALSE, !.maxInput = 4,
    !.alphabet = {<<Https>>, <<Data>>, <<"a">>, <<"b">>, <<"8">>, <<"@">>, <<"(">>, <<")">>,
                  <<" ">>, <<".">>}]

Chain == [Links EXCEPT
    !.maxInput = 9,
    !.alphabet = {<<Data, "a">>, <<Https, "a", " ">>, <<Https, "8">>, <<" ">>, <<")">>}]

(* The same engines with a scanner that is not known to scan in stages,    *)
(* and with the policies that block, that only review, that remove, and    *)
(* that let an invalid document through.                                   *)
Blocking == [r \in Range(RuleOrder) |-> "BLOCK"]
Reviewing == [r \in Range(RuleOrder) |-> "REVIEW"]
Removing == [r \in {"content", "secret"} |-> "REMOVE"]
Redacting == [r \in {"url", "resource"} |-> "REDACT"]
Tolerant == [r \in {"json", "content"} |-> IF r = "json" THEN "REVIEW" ELSE "REMOVE"]
BlockSecrets == [r \in {"secret"} |-> "BLOCK"]
BlockTags == [r \in {"tag"} |-> "BLOCK"]

Whole(c) == [c EXCEPT !.staged = FALSE, !.maxInput = 4]
Under(c, policy) == [c EXCEPT !.policy = policy, !.maxInput = 4]

MCConfigurations ==
    {Hidden, Tokenized, Flags, Documents, Lines, Words, Rows,
     Whole(Hidden), Whole(Documents), Whole(Words),
     Under(Hidden, BlockSecrets), Under(Hidden, BlockTags), Under(Hidden, Blocking),
     Under(Words, Removing),
     Under(Documents, Reviewing), Under(Documents, Removing), Under(Documents, Tolerant),
     Strings, Fields, Images, Sources, Pictures, Links, Chain,
     [Chain EXCEPT !.policy = Redacting], [Pictures EXCEPT !.policy = Redacting],
     [Engine EXCEPT !.tools = TRUE]}

-----------------------------------------------------------------------------
(* Tool traffic, inspected for the literal "ba" and for overrides.         *)
Guard == [Engine EXCEPT
    !.rules = {"content", "bidi"}, !.literals = {Literal(<<"b", "a">>, FALSE, TRUE, "REVIEW")}]

Null == [type |-> "null", value |-> <<>>]
Number(type, digit) == [type |-> type, value |-> <<digit>>]
String(value) == [type |-> "string", value |-> value]
Array(items) == [type |-> "array", items |-> items]
Object(members) == [type |-> "object", members |-> members]

A == <<"a">>
BA == <<"b", "a">>

(* An object whose "a" is one of two words, and which may hold an array of *)
(* numbers under "ba"; and a closed one around one of those.               *)
Inner(open) ==
    [type |-> "object", additionalProperties |-> open, required |-> <<A>>,
     properties |-> (A :> [type |-> "string", enum |-> <<String(A), String(BA)>>])
                    @@ (BA :> [type |-> "array", items |-> [type |-> "number"]])]
Outer == [type |-> "object", additionalProperties |-> FALSE, properties |-> (A :> Inner(TRUE))]

Limits == [depth |-> 2, nodes |-> 4, chars |-> 4, properties |-> 2, items |-> 2,
           expected |-> 2, results |-> 2]
Generous == [l \in DOMAIN Limits |-> 6]
Gate(scanner) ==
    [limits |-> Limits, scanner |-> scanner,
     tools |-> [f |-> <<Inner(FALSE)>>, g |-> <<Inner(TRUE)>>, h |-> <<Outer>>, i |-> <<>>]]
Gates == {Gate(<<Guard>>), Gate(<<>>)}

Leaves == {Null, Number("integer", "1"), Number("number", "8"), String(A), String(BA),
           String(<<"RLO">>), String(<<"b", "b", "b">>)}
Arrays == {Array(<<>>), Array(<<Null>>), Array(<<Number("integer", "1"), Number("number", "8")>>),
           Array(<<Null, Null, Null>>), Array(<<Array(<<String(A)>>)>>)}
Objects(values, others) ==
    {Object(<<>>)} \cup {Object(<< <<k, v>> >>) : k \in {A, BA}, v \in values}
    \cup {Object(<< <<k, v>>, <<l, w>> >>) : <<k, l>> \in {<<A, BA>>, <<BA, A>>, <<A, <<"p">>>>},
                                           v \in values, w \in others}
Arguments == {Null, Array(<<>>)} \cup Objects(Leaves \cup Arrays, Leaves \cup Arrays)
             \cup {Object(<< <<A, v>> >>) : v \in Objects(Leaves \cup Arrays, {String(A)})}
             \cup {Object([n \in 1 .. 3 |-> << <<"a", ToString(n)>>, Null>>])}

CallsOf(gates, limits, names, arguments) ==
    [kind : {"call"}, gate : gates, limits : limits, name : names, arguments : arguments]
Inbound == {String(A), String(BA), String(<<"b", "b", "b">>), Array(<<>>), Array(<<Null>>),
            Array(<<Object(<<>>)>>), Array(<<Object(<< <<A, String(A)>> >>)>>),
            Array(<<Object(<< <<BA, Null>> >>)>>),
            Array(<<Object(<<>>), Object(<< <<A, Array(<<Null>>)>> >>)>>)}

Identified == [id : {"1", "2"}, name : {"f", "g"}] \cup [id : {Missing}, name : {"f"}]
Results == [id : {"1", "2"}, name : {"f", "g"}, content : {String(A)}]
           \cup [id : {Missing}, name : {"f"}, content : {String(A)}]
           \cup [id : {"1"}, name : {Missing}, content : {String(A)}]
Batches(limits, expected, results) ==
    [kind : {"results"}, gate : {Gate(<<Guard>>)}, limits : limits,
     expected : expected, results : results]

MCRequests ==
    CallsOf(Gates, {Generous}, {"f", "g", "h"}, {<<v>> : v \in Arguments})
    \cup CallsOf({Gate(<<Guard>>)}, {Limits}, {"i", "j"}, {<<>>, <<Object(<<>>)>>})
    \cup CallsOf({Gate(<<Guard>>)}, {Limits}, {"f", "h"}, {<<>>} \cup {<<v>> : v \in Arguments})
    \cup Batches({Limits}, UNION {[1 .. n -> Identified] : n \in 0 .. 2},
                 UNION {[1 .. n -> Results] : n \in 0 .. 2})
    \cup Batches({Limits, Generous}, {<<[id |-> "1", name |-> "f"], [id |-> "2", name |-> "f"]>>},
                 {<<[id |-> "2", name |-> "f", content |-> c],
                    [id |-> "1", name |-> "f", content |-> d]>> : c, d \in Inbound})
    \cup Batches({Generous}, {[n \in 1 .. 3 |-> [id |-> ToString(n), name |-> "f"]]},
                 {[n \in 1 .. m |-> [id |-> ToString(n), name |-> "f", content |-> String(A)]] :
                      m \in 1 .. 3})

(* The values in them: nothing is nested more deeply than four levels.     *)
WithChildren(values) == values \cup UNION {Range(Children(v)) : v \in values}
MCJSONValues ==
    WithChildren(WithChildren(WithChildren(Arguments \cup Inbound \cup {Object(<<>>)})))
==============================================================================
