--------------------------- MODULE MC_Orchestrator ---------------------------
(***************************************************************************)
(* Instances of Orchestrator for TLC.                                      *)
(***************************************************************************)
EXTENDS Orchestrator, TLC

CONSTANTS acme, beta, alice, bob, finance, ask, rephrase, shout, report, memo

\* "rephrase" is similar to "ask"; "shout" is "ask" with other punctuation,
\* below the similarity threshold but with the same normal form.
MCNormal == [q \in Queries |-> IF q = shout THEN ask ELSE q]
MCSimilar == {<<q, q>> : q \in Queries}
             \cup {<<ask, rephrase>>, <<rephrase, ask>>}

\* One document for the finance team, one only its uploader may view.
TeamDoc == [tenant |-> acme, owner |-> alice, teams |-> {finance}]
OwnDoc == [tenant |-> acme, owner |-> alice, teams |-> {}]
MCDoc == [d \in Docs |-> IF d = memo THEN OwnDoc ELSE TeamDoc]
MCMembers == [t \in Tenants |-> IF t = acme THEN {alice, bob} ELSE {bob}]

Asks(T, U, Q) == [tenant : T, user : U, query : Q]
OneTenant == Asks({acme}, {alice, bob}, {ask})
\* The owner of both documents, a colleague, and the colleague's questions
\* to another tenant: queries that are similar or have one normal form.
TwoTenants == Asks({acme}, {alice}, {ask, rephrase})
              \cup Asks({acme}, {bob}, {shout})
              \cup Asks({beta}, {bob}, {rephrase})

CallSymmetry == Permutations(Calls)

=============================================================================
