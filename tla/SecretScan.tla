----------------------------- MODULE SecretScan ------------------------------
(***************************************************************************)
(* Secret signatures (secret_catalog.py) and the whole-text secret rule    *)
(* (rules/secrets.py).  A catalog is a sequence of signatures              *)
(*   [id, prefixes, suffix, boundary, min, max, ending, action]            *)
(* with prefixes a set of texts, suffix and boundary sets of characters,   *)
(* ending a text, and max = Unlimited for max_suffix_chars None.           *)
(***************************************************************************)
EXTENDS Redaction

(* max_suffix_chars None: more than any text has.                          *)
Unlimited == 1000

Signatures(catalog) == Range(catalog)

(* What SecretSignature and SecretCatalog refuse at construction, as far   *)
(* as the scan can tell: empty alphabets, a boundary that lacks a suffix   *)
(* or prefix character, limits out of order, an ending that does not fit   *)
(* the suffix, and a prefix with two owners.                               *)
IsCatalog(catalog) ==
    /\ catalog # <<>>
    /\ \A sig \in Signatures(catalog) :
        /\ sig.prefixes # {} /\ <<>> \notin sig.prefixes
        /\ sig.suffix # {}
        /\ sig.suffix \subseteq sig.boundary
        /\ \A p \in sig.prefixes : p \in Seq(sig.boundary)
        /\ {sig.min, sig.max} \subseteq Nat \ {0} /\ sig.min <= sig.max
        /\ sig.ending \in Seq(sig.suffix) /\ Len(sig.ending) <= sig.min
        /\ sig.action \in Actions
    /\ \A i, j \in DOMAIN catalog :
        i # j => /\ catalog[i].id # catalog[j].id
                 /\ catalog[i].prefixes \cap catalog[j].prefixes = {}

(* _resolve_secret_catalog: a replacement stands alone; an addition must   *)
(* share no prefix, in either direction, with the built-in catalog, and    *)
(* together they must be a catalog.                                        *)
NoCatalog == <<>>

Overlap(builtin, additional) ==
    \E b \in Signatures(builtin), a \in Signatures(additional) :
        \/ b.id = a.id
        \/ \E p \in b.prefixes, q \in a.prefixes : IsPrefix(p, q) \/ IsPrefix(q, p)

ResolveCatalog(builtin, additional, replacement) ==
    IF additional # NoCatalog /\ replacement # NoCatalog THEN "error"
    ELSE IF replacement # NoCatalog THEN replacement
    ELSE IF additional = NoCatalog THEN builtin
    ELSE IF Overlap(builtin, additional) THEN "error"
    ELSE builtin \o additional

-----------------------------------------------------------------------------
(* Every prefix with its one owner. *)
OwnedPrefixes(catalog) == UNION {s.prefixes \X {s} : s \in Signatures(catalog)}

(* The prefix alternation, longest first, at offset o: the longest prefix  *)
(* found there with its owner, or none.                                    *)
StartsAt(prefix, text, o) ==
    o + Len(prefix) <= Len(text) /\ Slice(text, o, o + Len(prefix)) = prefix

PrefixesAt(catalog, text, o) ==
    LET found == {pair \in OwnedPrefixes(catalog) : StartsAt(pair[1], text, o)}
    IN  {pair \in found : \A other \in found : Len(pair[1]) >= Len(other[1])}

(* Suffix characters taken after offset o: the whole run, or one more than *)
(* the maximum, where the loop gives up.                                   *)
SuffixLength(sig, text, o) ==
    LET stop == {n \in 0 .. Len(text) - o :
                    \/ o + n = Len(text)
                    \/ text[o + n + 1] \notin sig.suffix
                    \/ n = sig.max + 1}
    IN  CHOOSE n \in stop : \A m \in stop : n <= m

(* valid_length, valid_boundary and valid_ending of a suffix of n          *)
(* characters after offset o.                                              *)
IsToken(sig, text, o, n) ==
    /\ sig.min <= n /\ n <= sig.max
    /\ o + n = Len(text) \/ text[o + n + 1] \notin sig.boundary
    /\ IsSuffix(sig.ending, Slice(text, o, o + n))

(* The character before offset o is previous when o is the first.          *)
Bounded(sig, text, o, previous) ==
    LET before == IF o = 0 THEN previous ELSE <<text[o]>>
    IN  before = <<>> \/ Head(before) \notin sig.boundary

SecretFinding(sig, start, end) ==
    [rule |-> "secret", action |-> sig.action, start |-> start, end |-> end]

(* What the prefix at offset o announces, if there is one: its signature,  *)
(* where the suffix begins (past), and how many characters it has (n).     *)
Announced(catalog, text, o) ==
    {[sig |-> pair[2], past |-> o + Len(pair[1]),
      n |-> SuffixLength(pair[2], text, o + Len(pair[1]))] :
        pair \in PrefixesAt(catalog, text, o)}

(* Every token, none starting before next (the end of the last token); at  *)
(* is where the search has got to, and the regex resumes behind each       *)
(* prefix it has found.                                                    *)
TokenStep(search, char) ==
    LET found == IF search.at < search.resume THEN {}
                 ELSE Announced(search.catalog, search.text, search.at)
        on    == [search EXCEPT !.at = @ + 1]
        Behind(c) ==
            IF /\ search.at >= search.next
               /\ Bounded(c.sig, search.text, search.at, <<>>)
               /\ IsToken(c.sig, search.text, c.past, c.n)
            THEN [on EXCEPT !.resume = c.past, !.next = c.past + c.n,
                            !.tokens = Append(@, SecretFinding(c.sig, search.at, c.past + c.n))]
            ELSE [on EXCEPT !.resume = c.past]
    IN  IF found = {} THEN on ELSE Behind(CHOOSE c \in found : TRUE)

Tokens(catalog, text) ==
    FoldLeft(TokenStep,
             [catalog |-> catalog, text |-> text, at |-> 0, resume |-> 0, next |-> 0,
              tokens |-> <<>>],
             text).tokens

(* SecretsRule.scan: all tokens, or the first limit of them and a blocking *)
(* finding from the next one to the end of the text.                       *)
SecretsScan(catalog, limit, text) ==
    LET Limited(tokens) ==
            IF Len(tokens) <= limit THEN tokens
            ELSE Append(SubSeq(tokens, 1, limit),
                        [rule |-> "secret", action |-> "BLOCK",
                         start |-> tokens[limit + 1].start, end |-> Len(text)])
    IN  Limited(Tokens(catalog, text))

==============================================================================
