-------------------------- MODULE MCFirewallStream ---------------------------
(***************************************************************************)
(* Small catalogs, policies and alphabets for model checking               *)
(* FirewallStream.                                                         *)
(***************************************************************************)
EXTENDS FirewallStream

Letters == {"p", "u", "s", "t"}

(* A bounded signature with an ending and an unbounded one whose prefix    *)
(* goes on from the bounded one's.  Every boundary holds every character   *)
(* of a token: PartialConfigurations shows what happens otherwise.         *)
Short == [id |-> "short", prefixes |-> {<<"p">>}, suffix |-> {"s", "t"},
          boundary |-> Letters, min |-> 1, max |-> 2, ending |-> <<"t">>,
          action |-> "REDACT"]
Long == [id |-> "long", prefixes |-> {<<"p", "u">>, <<"u", "p", "u">>}, suffix |-> Letters,
         boundary |-> Letters, min |-> 2, max |-> Unlimited, ending |-> <<>>,
         action |-> "REDACT"]

(* An unbounded token that cards may overlap, and one that cannot be       *)
(* streamed because of its ending.                                         *)
Digits == {"1", "8"}
Numbered == [id |-> "numbered", prefixes |-> {<<"p">>}, suffix |-> Digits \cup {"p"},
             boundary |-> Digits \cup {"p"}, min |-> 2, max |-> Unlimited, ending |-> <<>>,
             action |-> "BLOCK"]
Ended == [Long EXCEPT !.ending = <<"t">>]

Singles(chars) == {<<c>> : c \in chars}

RedactAll == [r \in {"secret", "card"} |-> "REDACT"]
NoOverrides == [r \in {} |-> "REDACT"]

Plain == [catalog |-> NoCatalog, cards |-> FALSE, cardLimit |-> 1, other |-> FALSE,
          custom |-> FALSE, policy |-> RedactAll, mode |-> "AUTO", maxInput |-> 5,
          alphabet |-> {<<"p", "u">>, <<"s">>, <<"1">>, <<"8", "#">>}]

(* Secrets alone, cards alone, both over each other, and more cards than are   *)
(* looked at.                                                              *)
Secrets == [Plain EXCEPT
    !.maxInput = 7, !.catalog = <<Short, Long>>,
    !.alphabet = Singles(Letters \cup {"."}) \cup {<<"p", "u", "s", "s", ".">>, <<".", "p">>}]
Cards == [Plain EXCEPT
    !.maxInput = 7, !.cards = TRUE, !.cardLimit = 2,
    !.alphabet = Singles(Digits \cup {"-", "."}) \cup {<<"1", "8", ".">>}]
Both == [Plain EXCEPT
    !.maxInput = 7, !.catalog = <<Numbered>>, !.cards = TRUE, !.cardLimit = 2,
    !.alphabet = Singles(Digits \cup {"p", "-"})]
Flood == [Plain EXCEPT
    !.maxInput = 11, !.cards = TRUE,
    !.alphabet = {<<"1", "8", "-">>, <<"1", "1">>, <<".">>, <<".", "1", "8", ".">>}]

(* The other ways of running: every requested mode, of a configuration     *)
(* without rules, with one that needs the whole text, of another scanner   *)
(* class, with actions that are not redactions, and with a catalog that    *)
(* cannot be streamed.                                                     *)
Others ==
    UNION {{[c EXCEPT !.mode = m] : m \in {"AUTO", "BUFFERED", "INCREMENTAL"}} :
        c \in {Plain, [Plain EXCEPT !.other = TRUE, !.cards = TRUE],
               [Plain EXCEPT !.custom = TRUE, !.catalog = <<Short>>],
               [Plain EXCEPT !.catalog = <<Numbered>>, !.policy = NoOverrides],
               [Plain EXCEPT !.cards = TRUE, !.policy = NoOverrides],
               [Plain EXCEPT !.catalog = <<Ended>>]}}

MCConfigurations == {Secrets, Cards, Both, Flood} \cup Others

(* Two signatures with the proportions of slack.token.bot and              *)
(* stripe.key.server_side: the second one's prefix can begin with the last *)
(* character of the first one's token, because "-" is in the alphabet of   *)
(* the first and not in the boundary of the second.                        *)
Dashed == [id |-> "dashed", prefixes |-> {<<"x", "-">>}, suffix |-> {"x", "s", "-"},
           boundary |-> {"x", "s", "-"}, min |-> 2, max |-> 3, ending |-> <<>>,
           action |-> "REDACT"]
Underscored == [id |-> "underscored", prefixes |-> {<<"s", "_", "l">>},
                suffix |-> {"s", "l"}, boundary |-> {"s", "l", "_"}, min |-> 1, max |-> 2,
                ending |-> <<>>, action |-> "REDACT"]

PartialConfigurations ==
    {[Plain EXCEPT !.maxInput = 6, !.catalog = <<Dashed, Underscored>>,
                   !.alphabet = Singles({"x", "s", "-", "_", "."})]}

(* An unbounded signature whose prefix is a digit and whose boundary lacks *)
(* the separators, so that its token may begin inside a card and go on     *)
(* behind it.                                                              *)
InCard == [Numbered EXCEPT !.prefixes = {<<"8">>}]

PinnedConfigurations ==
    {[Plain EXCEPT !.maxInput = 18, !.catalog = <<InCard>>, !.cards = TRUE, !.cardLimit = 2,
                   !.alphabet = {<<"1", "-", "8">>, <<"p", "p", "p">>}]}

==============================================================================
