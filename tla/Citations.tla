------------------------------ MODULE Citations ------------------------------
(***************************************************************************)
(* Legal references: as they stand in a text, as the worker stores them    *)
(* with a chunk, and as the gateway reads them from an answer and looks    *)
(* them up.  The two sides match texts with patterns of their own, kept in *)
(* etl.py and in citations.go.                                             *)
(***************************************************************************)
CONSTANT Numbers

Kinds == {"articles", "laws", "decrees", "cnpjs"}
Numbered == {"laws", "decrees"}

\* A reference in a text.  "Lei Complementar n. 8.666." is qualified, has the
\* mark "n" before its number and a full stop as its tail (the tail "-" stands
\* for other characters of the number pattern); "Art. 5o" has the ordinal "o",
\* for which the sign may stand; "Art. 150-A" has a letter.  "arts. 150" and
\* "Lei Federal n. 8.666" are of a form that neither pattern knows.
Mention ==
    {m \in [kind : Kinds, form : {"plain", "qualified", "unknown"},
            marked : BOOLEAN, number : Numbers, ordinal : {"", "sign", "o"},
            letter : BOOLEAN, tail : {"", ".", "-"}] :
        m.kind # "articles" => m.ordinal = "" /\ ~m.letter}

\* What the groups of the patterns capture: no qualifier and no letter, the
\* ordinal of an article, the tail of a law or decree.
Value == [kind : Kinds, number : Numbers, ordinal : {"", "sign", "o"},
          tail : {"", ".", "-"}]
Captured(m) ==
    [kind |-> m.kind, number |-> m.number, ordinal |-> m.ordinal,
     tail |-> IF m.kind \in Numbered THEN m.tail ELSE ""]

\* etl.py: the mark is required, and values are stored as captured.
Recognised(m) == m.form # "unknown" /\ (m.kind \in Numbered => m.marked)
ExtractEntities(text) == {Captured(m) : m \in {x \in text : Recognised(x)}}

\* citations.go: the mark is optional, and the tail is trimmed.
Seen(m) == m.form # "unknown"
Trimmed(m) == [Captured(m) EXCEPT !.tail = ""]
ExtractCitations(text) == {Trimmed(m) : m \in {x \in text : Seen(x)}}

\* normalize drops the ordinal sign and one final full stop.  The letter o,
\* which the patterns capture in the sign's place, stays.
Normal(v) == [kind |-> v.kind, number |-> v.number,
              ordinal |-> IF v.ordinal = "sign" THEN "" ELSE v.ordinal,
              tail |-> IF v.tail = "." THEN "" ELSE v.tail]

\* Mutant of Matches: a stored value is compared as it is.
MatchesExactly(c, e) == c = e

Matches(c, e) == Normal(c) = Normal(e)

VerifyCitations(cited, entities) ==
    {c \in cited : \A e \in entities : ~Matches(c, e)}

=============================================================================
