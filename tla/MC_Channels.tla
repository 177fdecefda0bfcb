---------------------------- MODULE MC_Channels ----------------------------
(***************************************************************************)
(* Instances of Channels for TLC: a delivery that mixes the lines of two   *)
(* condominiums, one of odd messages, a question in the web chat and in    *)
(* the legal service of one tenant.                                        *)
(***************************************************************************)
EXTENDS Channels, TLC

CONSTANTS acme, beta, phoneA, phoneB, stray, ana, law, rules, n1, n2

MCTenantOf == [l \in Lines |-> CASE l = phoneA -> acme
                                 [] l = phoneB -> beta
                                 [] OTHER -> NoTenant]
Says(line, text) == [line |-> line, from |-> ana, text |-> text]
Proper(route, messages) ==
    [route |-> route, body |-> "proper", messages |-> messages]

Mixed == Proper("whatsapp", <<Says(phoneB, "emergency"),
                              Says(phoneA, "question")>>)
Odd == Proper("whatsapp", <<Says(stray, "question"),
                            Says(phoneA, "blank")>>)
Anonymous == Proper("whatsapp", <<[Says(phoneA, "question")
                                       EXCEPT !.from = Nobody]>>)
Chat == Proper("chat", <<Says(phoneA, "question")>>)
NoLine == Proper("chat", <<Says(stray, "question")>>)
Legal == Proper("legal", <<Says(phoneA, "question")>>)
Spaces == Proper("legal", <<Says(phoneA, "blank")>>)

MCRequests ==
    {Mixed, Odd, Anonymous, Chat, NoLine, Legal, Spaces,
     [Odd EXCEPT !.body = "forged"], [Chat EXCEPT !.body = "garbled"]}
LegalOnly == {Legal}

MCOwnerOf == [k \in Chunks |-> IF k = law THEN acme ELSE beta]
Lei(n, marked) ==
    [kind |-> "laws", form |-> "plain", marked |-> marked, number |-> n,
     ordinal |-> "", letter |-> FALSE, tail |-> ""]
Art(n, ordinal) ==
    [Lei(n, FALSE) EXCEPT !.kind = "articles", !.ordinal = ordinal]
MCText == [k \in Chunks |->
              IF k = law THEN {[Lei(n1, TRUE) EXCEPT !.tail = "."],
                               [Lei(n2, TRUE) EXCEPT !.kind = "decrees"],
                               Art(n1, ""), Art(n2, "o")}
              ELSE {}]
\* References that law makes, one with a letter and beside one of an unknown
\* form; a law that is a decree there; an article that has the letter o there.
MCPhrases == {{Lei(n1, FALSE)},
              {[Art(n1, "sign") EXCEPT !.letter = TRUE],
               [Lei(n2, TRUE) EXCEPT !.form = "unknown"]},
              {Lei(n2, FALSE)}, {Art(n2, "sign")}}
Verbatim == {{Lei(n1, FALSE)}}
Unmarked == [k \in Chunks |-> {Lei(n1, FALSE)}]

HandlerSymmetry == Permutations(Handlers)

=============================================================================
