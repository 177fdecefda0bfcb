------------------------ MODULE Orchestrator_proofs ------------------------
(***************************************************************************)
(* Proofs about the query pipeline.                                        *)
(***************************************************************************)
EXTENDS Orchestrator, FiniteSetTheorems, TLAPS

(***************************************************************************)
(* TypeOK is not inductive alone: an answer needs the number of a draft,   *)
(* and a rewrite must not go past the last round.                          *)
(***************************************************************************)
Drafted(c) == pc[c] \in {"evaluate", "rewrite", "set_exact", "set_semantic"}

RoundsBounded ==
    \A c \in Calls :
        /\ Drafted(c) => attempt[c] # 0
        /\ pc[c] = "rewrite" => attempt[c] # maxEvalRetries

TypeInv == TypeOK /\ RoundsBounded

LEMMA TypeInit == Init => TypeInv
BY WorldAssumption
   DEF Init, TypeInv, TypeOK, RoundsBounded, Drafted, Stages, Reply, NoReply,
       maxEvalRetries, Entry

LEMMA Replies ==
    /\ [kind |-> "no_documents"] \in Reply /\ [kind |-> "fallback"] \in Reply
    /\ \A st \in {403, 500, 502} : [kind |-> "error", status |-> st] \in Reply
    /\ \A a \in Answer : /\ [kind |-> "answer", answer |-> a] \in Reply
                         /\ [kind |-> "cached", answer |-> a] \in Reply
BY DEF Reply

\* What a step of call c does to the stages.
LEMMA Moves ==
    ASSUME TypeInv, NEW c \in Calls, NEW stage \in Stages, Goto(c, stage)
    PROVE  /\ pc' \in [Calls -> Stages] /\ pc'[c] = stage
           /\ \A d \in Calls \ {c} : pc'[d] = pc[d]
BY DEF Goto, TypeInv, TypeOK

LEMMA Returns ==
    ASSUME TypeInv, NEW c \in Calls, NEW r \in Reply, Return(c, r)
    PROVE  /\ pc' \in [Calls -> Stages] /\ pc'[c] = "done"
           /\ \A d \in Calls \ {c} : pc'[d] = pc[d]
           /\ reply' \in [Calls -> Reply]
           /\ reply' = [reply EXCEPT ![c] = r]
BY DEF Return, Goto, TypeInv, TypeOK, Stages

\* A drafted answer of a call has its type.
LEMMA AnswerType ==
    ASSUME TypeInv, NEW c \in Calls, Drafted(c)
    PROVE  CurrentAnswer(c) \in Answer
BY DEF TypeInv, TypeOK, RoundsBounded, CurrentAnswer, Answer, maxEvalRetries

LEMMA TypeStep == TypeInv /\ [Next]_vars => TypeInv'
<1> SUFFICES ASSUME TypeInv, [Next]_vars PROVE TypeInv'
    OBVIOUS
<1> USE QuestionsAssumption, CacheKeyAssumption, WorldAssumption
    DEF TypeInv, TypeOK, RoundsBounded, Drafted, maxEvalRetries,
        callVars, cacheVars, worldVars
<1>1. ASSUME NEW c \in Calls, Start(c) PROVE TypeInv'
    BY <1>1, Moves DEF Start, Stages
<1>2. ASSUME NEW c \in Calls, Embed(c) PROVE TypeInv'
    BY <1>2 DEF Embed, Returned, Raises
<1>3. ASSUME NEW c \in Calls, GetUserTeams(c) PROVE TypeInv'
  <2>1. CASE Raises(c, 403) /\ UNCHANGED userTeams
      BY <1>3, <2>1 DEF GetUserTeams, Raises, Returned
  <2>2. CASE /\ userTeams' = [userTeams EXCEPT ![c] = teamsOf[args[c].user]]
             /\ UNCHANGED firstErr
    <3>1. args[c] \in Questions
        BY <1>3 DEF GetUserTeams, Returned
    <3>2. teamsOf[args[c].user] \in SUBSET Teams
        BY <3>1
    <3> QED BY <1>3, <2>2, <3>2 DEF GetUserTeams, Returned
  <2> QED BY <1>3, <2>1, <2>2 DEF GetUserTeams
<1>4. ASSUME NEW c \in Calls, Classify(c) PROVE TypeInv'
    BY <1>4 DEF Classify, Returned
<1>5. ASSUME NEW c \in Calls, Wait(c) PROVE TypeInv'
  <2>1. CASE firstErr[c] # 0 /\ Fail(c, firstErr[c])
    <3>1. [kind |-> "error", status |-> firstErr[c]] \in Reply
        BY <2>1, Replies
    <3> QED BY <1>5, <2>1, <3>1, Returns DEF Wait, Fail
  <2>2. CASE Goto(c, "semantic") /\ UNCHANGED reply
      BY <1>5, <2>2, Moves DEF Wait, Stages
  <2> QED BY <1>5, <2>1, <2>2 DEF Wait
<1>6. ASSUME NEW c \in Calls, GetSemantic(c) PROVE TypeInv'
  <2>1. ASSUME NEW e \in Nearest(c),
               Return(c, [kind |-> "cached", answer |-> e.answer])
        PROVE  TypeInv'
    <3>1. e \in Entry
        BY DEF Nearest
    <3>2. [kind |-> "cached", answer |-> e.answer] \in Reply
        BY <3>1, Replies DEF Entry
    <3> QED BY <1>6, <2>1, <3>2, Returns DEF GetSemantic
  <2>2. CASE Goto(c, "exact") /\ UNCHANGED reply
      BY <1>6, <2>2, Moves DEF GetSemantic, Stages
  <2> QED BY <1>6, <2>1, <2>2 DEF GetSemantic
<1>7. ASSUME NEW c \in Calls, GetExact(c) PROVE TypeInv'
  <2>1. ASSUME NEW e \in exact,
               Return(c, [kind |-> "cached", answer |-> e.answer])
        PROVE  TypeInv'
    <3>0. e \in Entry
        OBVIOUS
    <3>1. [kind |-> "cached", answer |-> e.answer] \in Reply
        BY <3>0, Replies DEF Entry
    <3> QED BY <1>7, <2>1, <3>1, Returns DEF GetExact
  <2>2. CASE Goto(c, "search") /\ UNCHANGED reply
      BY <1>7, <2>2, Moves DEF GetExact, Stages
  <2> QED BY <1>7, <2>1, <2>2 DEF GetExact
<1>8. ASSUME NEW c \in Calls, Search(c) PROVE TypeInv'
  <2>1. CASE Fail(c, 500) /\ UNCHANGED <<hits, unchecked>>
      BY <1>8, <2>1, Replies, Returns DEF Search, Fail
  <2>2. CASE /\ Return(c, [kind |-> "no_documents"])
             /\ UNCHANGED <<hits, unchecked>>
      BY <1>8, <2>2, Replies, Returns DEF Search
  <2>3. ASSUME NEW found \in SUBSET Docs,
               hits' = [hits EXCEPT ![c] = found],
               unchecked' = [unchecked EXCEPT ![c] = found],
               Goto(c, "filter"), UNCHANGED reply
        PROVE  TypeInv'
      BY <1>8, <2>3, Moves DEF Search, Stages
  <2> QED BY <1>8, <2>1, <2>2, <2>3 DEF Search
<1>9. ASSUME NEW c \in Calls, CheckDocumentAccess(c) PROVE TypeInv'
  <2>0. PICK d \in unchecked[c] :
            /\ unchecked' = [unchecked EXCEPT ![c] = @ \ {d}]
            /\ sources' = [sources EXCEPT ![c] = @ \cup {d}] \/ UNCHANGED sources
      BY <1>9 DEF CheckDocumentAccess
  <2>1. /\ unchecked' \in [Calls -> SUBSET Docs]
        /\ sources' \in [Calls -> SUBSET Docs]
      BY <2>0
  <2> QED BY <1>9, <2>1 DEF CheckDocumentAccess
<1>10. ASSUME NEW c \in Calls, Filtered(c) PROVE TypeInv'
  <2>1. CASE Return(c, [kind |-> "no_documents"])
      BY <1>10, <2>1, Replies, Returns DEF Filtered
  <2>2. CASE Goto(c, "draft") /\ UNCHANGED reply
      BY <1>10, <2>2, Moves DEF Filtered, Stages
  <2> QED BY <1>10, <2>1, <2>2 DEF Filtered
<1>11. ASSUME NEW c \in Calls, Draft(c) PROVE TypeInv'
  <2>1. CASE Fail(c, 500) /\ UNCHANGED attempt
      BY <1>11, <2>1, Replies, Returns DEF Draft, Fail
  <2>2. CASE /\ attempt' = [attempt EXCEPT ![c] = 1]
             /\ Goto(c, "evaluate") /\ UNCHANGED reply
      BY <1>11, <2>2, Moves DEF Draft, Stages
  <2> QED BY <1>11, <2>1, <2>2 DEF Draft
<1>12. ASSUME NEW c \in Calls, Evaluate(c) PROVE TypeInv'
  <2>1. CASE /\ judged' = judged \cup {CurrentAnswer(c)}
             /\ Goto(c, "set_exact") /\ UNCHANGED reply
      BY <1>12, <2>1, Moves, AnswerType DEF Evaluate, Stages
  <2>2. CASE /\ attempt[c] < maxEvalRetries
             /\ Goto(c, "rewrite") /\ UNCHANGED <<reply, judged>>
      BY <1>12, <2>2, Moves DEF Evaluate, Stages
  <2>3. CASE Return(c, [kind |-> "fallback"]) /\ UNCHANGED judged
      BY <1>12, <2>3, Replies, Returns DEF Evaluate
  <2> QED BY <1>12, <2>1, <2>2, <2>3 DEF Evaluate
<1>13. ASSUME NEW c \in Calls, Rewrite(c) PROVE TypeInv'
  <2>1. CASE Return(c, [kind |-> "fallback"]) /\ UNCHANGED attempt
      BY <1>13, <2>1, Replies, Returns DEF Rewrite
  <2>2. CASE /\ attempt' = [attempt EXCEPT ![c] = @ + 1]
             /\ Goto(c, "evaluate") /\ UNCHANGED reply
    <3>1. attempt[c] = 1
        BY <1>13 DEF Rewrite
    <3> QED BY <1>13, <2>2, <3>1, Moves DEF Rewrite, Stages
  <2> QED BY <1>13, <2>1, <2>2 DEF Rewrite
<1>14. ASSUME NEW c \in Calls, SetExact(c) PROVE TypeInv'
  <2>1. [scope |-> ScopeOf(c), query |-> Normal[args[c].query],
         answer |-> CurrentAnswer(c)] \in Entry
      BY <1>14, AnswerType DEF SetExact, Entry, Scope, ScopeOf
  <2> QED BY <1>14, <2>1, Moves DEF SetExact, Stages
<1>15. ASSUME NEW c \in Calls, SetSemantic(c) PROVE TypeInv'
  <2>1. CurrentAnswer(c) \in Answer
      BY <1>15, AnswerType DEF SetSemantic
  <2>2. [scope |-> ScopeOf(c), query |-> args[c].query,
         answer |-> CurrentAnswer(c)] \in Entry
      BY <1>15, <2>1 DEF SetSemantic, Entry, Scope, ScopeOf
  <2>3. semantic' \subseteq Entry
      BY <1>15, <2>2 DEF SetSemantic
  <2>4. [kind |-> "answer", answer |-> CurrentAnswer(c)] \in Reply
      BY <2>1, Replies
  <2> QED BY <1>15, <2>3, <2>4, Returns DEF SetSemantic
<1>16. CASE World
    BY <1>16 DEF World, Index, Relate, ChangeTeams, Change, Expire
<1>17. CASE UNCHANGED vars
    BY <1>17 DEF vars
<1> QED BY <1>1, <1>2, <1>3, <1>4, <1>5, <1>6, <1>7, <1>8, <1>9, <1>10, <1>11,
           <1>12, <1>13, <1>14, <1>15, <1>16, <1>17 DEF Next, Step

LEMMA TypeInvariant == Spec => []TypeInv
BY TypeInit, TypeStep, PTL DEF Spec

(***************************************************************************)
(* Every variable keeps its type, for any calls, questions, documents and  *)
(* cache keys.                                                             *)
(***************************************************************************)
THEOREM TypeCorrect == Spec => []TypeOK
BY TypeInvariant, PTL DEF TypeInv

-----------------------------------------------------------------------------
(***************************************************************************)
(* Why the answers that leave are the right ones: once phase 1 is over the *)
(* tenant, the query and the teams of a call are fixed, whatever changes   *)
(* around it; so an answer can be tied to the call it was written for, and *)
(* an entry or a reply to the scope and the query of that call.            *)
(***************************************************************************)
Scoped(c) == pc[c] \notin {"idle", "phase1"}

\* The user of a call may enter the document's tenant.
MayEnter(c, d) == args[c].user \in Members[Doc[d].tenant]

\* An answer that was judged, of documents that SpiceDB knows, the filter of
\* its call's search matches and whose tenant the caller may enter.
Sound(a) ==
    /\ a \in judged
    /\ Scoped(a.call)
    /\ a.sources \subseteq related
    /\ \A d \in a.sources : Matches(a.call, d) /\ MayEnter(a.call, d)

\* What a call has fetched, and what it is about to cache.
Fetched(c) ==
    /\ ~Scoped(c) => unchecked[c] = {} /\ sources[c] = {}
    /\ \A d \in unchecked[c] \cup sources[c] : Matches(c, d)
    /\ \A d \in sources[c] : MayEnter(c, d) /\ d \in related

Ready(c) == pc[c] \in {"set_exact", "set_semantic"} => CurrentAnswer(c) \in judged

Retrieved == \A c \in Calls : Fetched(c) /\ Ready(c)

\* What the caches hold.
Remembered ==
    /\ \A e \in exact \cup semantic :
           Sound(e.answer) /\ e.scope = ScopeOf(e.answer.call)
    /\ \A e \in exact : e.query = Normal[args[e.answer.call].query]
    /\ \A e \in semantic : e.query = args[e.answer.call].query

\* The caches match the query asked with the query written for.
SameQuery(written, asked) ==
    <<written, asked>> \in Similar \/ Normal[written] = Normal[asked]

\* What was replied.
Replied ==
    \A c \in Calls :
        /\ Answered(c) => Sound(reply[c].answer) /\ Scoped(c)
        /\ reply[c].kind = "answer" => reply[c].answer.call = c
        /\ reply[c].kind = "cached" =>
               /\ ScopeOf(reply[c].answer.call) = ScopeOf(c)
               /\ SameQuery(args[reply[c].answer.call].query, args[c].query)

AnswerInv == Retrieved /\ Remembered /\ Replied

LEMMA AnswerInit == Init => AnswerInv
BY DEF Init, AnswerInv, Retrieved, Fetched, Ready, Remembered, Replied,
       Answered, NoReply

\* What a step leaves alone: the arguments and teams of a call past phase 1.
\* Relationships and verdicts only accumulate.
LEMMA Fixed ==
    ASSUME TypeInv, [Next]_vars
    PROVE  /\ \A c \in Calls : Scoped(c) =>
                  /\ Scoped(c)' /\ args'[c] = args[c]
                  /\ userTeams'[c] = userTeams[c]
           /\ related \subseteq related' /\ judged \subseteq judged'
<1> USE DEF TypeInv, TypeOK, Scoped, callVars, cacheVars, worldVars
<1>1. ASSUME NEW c \in Calls, Start(c)
      PROVE  /\ \A d \in Calls : Scoped(d) =>
                    /\ Scoped(d)' /\ args'[d] = args[d]
                    /\ userTeams'[d] = userTeams[d]
             /\ related' = related /\ judged' = judged
    BY <1>1 DEF Start, Goto
<1>2. ASSUME NEW c \in Calls, Embed(c) \/ GetUserTeams(c) \/ Classify(c)
      PROVE  /\ pc' = pc /\ args' = args /\ related' = related /\ judged' = judged
             /\ \A d \in Calls : Scoped(d) => userTeams'[d] = userTeams[d]
    BY <1>2 DEF Embed, GetUserTeams, Classify, Returned
<1>3. ASSUME NEW c \in Calls,
             \/ Wait(c) \/ GetSemantic(c) \/ GetExact(c) \/ Search(c)
             \/ CheckDocumentAccess(c) \/ Filtered(c) \/ Draft(c)
             \/ Evaluate(c) \/ Rewrite(c) \/ SetExact(c) \/ SetSemantic(c)
      PROVE  /\ args' = args /\ userTeams' = userTeams /\ related' = related
             /\ judged \subseteq judged'
             /\ \A d \in Calls : Scoped(d) => Scoped(d)'
    BY <1>3 DEF Wait, GetSemantic, GetExact, Search, CheckDocumentAccess,
                Filtered, Draft, Evaluate, Rewrite, SetExact, SetSemantic,
                Fail, Return, Goto
<1>4. CASE World \/ UNCHANGED vars
    BY <1>4 DEF World, Index, Relate, ChangeTeams, Change, Expire, vars
<1> QED BY <1>1, <1>2, <1>3, <1>4 DEF Next, Step

\* Hence a sound answer stays sound, and its scope and query stay.
LEMMA SoundStays ==
    ASSUME TypeInv, [Next]_vars, NEW a \in Answer, Sound(a)
    PROVE  /\ Sound(a)' /\ ScopeOf(a.call)' = ScopeOf(a.call)
           /\ args'[a.call] = args[a.call]
<1>1. a.call \in Calls
    BY DEF Answer
<1>2. Scoped(a.call)
    BY DEF Sound
<1>3. /\ Scoped(a.call)' /\ args'[a.call] = args[a.call]
      /\ userTeams'[a.call] = userTeams[a.call]
      /\ related \subseteq related' /\ judged \subseteq judged'
    BY <1>1, <1>2, Fixed
<1>4. ASSUME NEW d \in a.sources
      PROVE  Matches(a.call, d)' /\ MayEnter(a.call, d)'
    BY <1>3 DEF Sound, Matches, MayEnter
<1> QED BY <1>3, <1>4 DEF Sound, ScopeOf

\* The answer a call is about to cache or return is sound.
LEMMA CurrentSound ==
    ASSUME TypeInv, Retrieved, NEW c \in Calls,
           pc[c] \in {"set_exact", "set_semantic"}
    PROVE  /\ CurrentAnswer(c) \in Answer /\ Sound(CurrentAnswer(c))
           /\ CurrentAnswer(c).call = c
<1>1. CurrentAnswer(c) \in Answer
    BY AnswerType DEF Drafted
<1>2. CurrentAnswer(c).call = c /\ CurrentAnswer(c).sources = sources[c]
    BY DEF CurrentAnswer
<1> QED BY <1>1, <1>2 DEF Retrieved, Fetched, Ready, Sound, Scoped

\* A call keeps what it fetched, and may drop some of it.
LEMMA FetchedStays ==
    ASSUME TypeInv, [Next]_vars, NEW c \in Calls, Fetched(c),
           unchecked'[c] \subseteq unchecked[c], sources'[c] \subseteq sources[c]
    PROVE  Fetched(c)'
<1>1. CASE ~Scoped(c)
    BY <1>1 DEF Fetched
<1>2. CASE Scoped(c)
  <2>1. /\ Scoped(c)' /\ args'[c] = args[c] /\ userTeams'[c] = userTeams[c]
        /\ related \subseteq related'
      BY <1>2, Fixed
  <2>2. \A d \in unchecked'[c] \cup sources'[c] : Matches(c, d)'
      BY <2>1 DEF Fetched, Matches
  <2>3. \A d \in sources'[c] : MayEnter(c, d)' /\ d \in related'
      BY <2>1 DEF Fetched, MayEnter
  <2> QED BY <2>1, <2>2, <2>3 DEF Fetched
<1> QED BY <1>1, <1>2

LEMMA FetchedStep ==
    ASSUME TypeInv, Retrieved, [Next]_vars, NEW x \in Calls
    PROVE  Fetched(x)'
<1>0. Fetched(x)
    BY DEF Retrieved
<1>1. CASE unchecked'[x] \subseteq unchecked[x] /\ sources'[x] \subseteq sources[x]
    BY <1>0, <1>1, FetchedStays
<1>2. ASSUME NEW found \in SUBSET {d \in indexed : Matches(x, d)},
             unchecked' = [unchecked EXCEPT ![x] = found],
             Goto(x, "filter"), UNCHANGED <<args, userTeams, sources, related>>
      PROVE  Fetched(x)'
  <2>1. unchecked'[x] = found /\ Scoped(x)'
      BY <1>2 DEF TypeInv, TypeOK, Goto, Scoped
  <2>2. \A d \in found \cup sources[x] : Matches(x, d)
      BY <1>0 DEF Fetched
  <2>3. \A d \in unchecked'[x] \cup sources'[x] : Matches(x, d)'
      BY <1>2, <2>1, <2>2 DEF Matches
  <2>4. \A d \in sources'[x] : MayEnter(x, d)' /\ d \in related'
      BY <1>0, <1>2 DEF Fetched, MayEnter
  <2> QED BY <2>1, <2>3, <2>4 DEF Fetched
<1>3. ASSUME NEW d \in unchecked[x], CanView(args[x].user, d),
             unchecked' = [unchecked EXCEPT ![x] = @ \ {d}],
             sources' = [sources EXCEPT ![x] = @ \cup {d}],
             UNCHANGED <<args, pc, userTeams, related>>
      PROVE  Fetched(x)'
  <2>1. unchecked'[x] \subseteq unchecked[x] /\ sources'[x] = sources[x] \cup {d}
      BY <1>3 DEF TypeInv, TypeOK
  <2>2. MayEnter(x, d) /\ d \in related /\ Scoped(x)
      BY <1>0, <1>3 DEF CanView, MayEnter, Fetched
  <2>3. \A y \in unchecked[x] \cup sources[x] : Matches(x, y)
      BY <1>0 DEF Fetched
  <2>4. \A y \in unchecked'[x] \cup sources'[x] : Matches(x, y)'
      BY <1>3, <2>1, <2>3 DEF Matches
  <2>5. \A y \in sources'[x] : MayEnter(x, y)' /\ y \in related'
      BY <1>0, <1>3, <2>1, <2>2 DEF Fetched, MayEnter
  <2>6. Scoped(x)'
      BY <1>3, <2>2 DEF Scoped
  <2> QED BY <2>4, <2>5, <2>6 DEF Fetched
<1> USE DEF callVars, cacheVars, worldVars
<1>4. ASSUME NEW c \in Calls, Search(c) PROVE Fetched(x)'
  <2>1. sources' = sources
      BY <1>4 DEF Search
  <2>2. CASE unchecked' = unchecked
      BY <1>1, <2>1, <2>2
  <2>3. ASSUME NEW found \in SUBSET {d \in indexed : Matches(c, d)},
               unchecked' = [unchecked EXCEPT ![c] = found], Goto(c, "filter")
        PROVE  Fetched(x)'
    <3>1. CASE c = x
        BY <1>2, <1>4, <2>3, <3>1 DEF Search
    <3>2. CASE c # x
        BY <1>1, <2>1, <2>3, <3>2
    <3> QED BY <3>1, <3>2
  <2> QED BY <1>4, <2>2, <2>3 DEF Search
<1>5. ASSUME NEW c \in Calls, CheckDocumentAccess(c) PROVE Fetched(x)'
  <2>1. PICK d \in unchecked[c] :
            /\ unchecked' = [unchecked EXCEPT ![c] = @ \ {d}]
            /\ \/ /\ CanView(args[c].user, d)
                  /\ sources' = [sources EXCEPT ![c] = @ \cup {d}]
               \/ UNCHANGED sources
      BY <1>5 DEF CheckDocumentAccess
  <2>2. unchecked'[x] \subseteq unchecked[x]
      BY <2>1 DEF TypeInv, TypeOK
  <2>3. CASE c # x \/ UNCHANGED sources
    <3>1. sources'[x] = sources[x]
        BY <2>1, <2>3 DEF TypeInv, TypeOK
    <3> QED BY <1>1, <2>2, <3>1
  <2>4. CASE c = x /\ ~UNCHANGED sources
      BY <1>3, <1>5, <2>1, <2>4 DEF CheckDocumentAccess
  <2> QED BY <2>3, <2>4
<1>6. ASSUME NEW c \in Calls,
             \/ Start(c) \/ Embed(c) \/ GetUserTeams(c) \/ Classify(c) \/ Wait(c)
             \/ GetSemantic(c) \/ GetExact(c) \/ Filtered(c) \/ Draft(c)
             \/ Evaluate(c) \/ Rewrite(c) \/ SetExact(c) \/ SetSemantic(c)
      PROVE  UNCHANGED <<unchecked, sources>>
    BY <1>6 DEF Start, Embed, GetUserTeams, Classify, Returned, Wait,
                GetSemantic, GetExact, Filtered, Draft, Evaluate, Rewrite,
                SetExact, SetSemantic
<1>7. CASE World \/ UNCHANGED vars
    BY <1>1, <1>7 DEF World, Index, Relate, ChangeTeams, Change, Expire, vars
<1> QED BY <1>1, <1>4, <1>5, <1>6, <1>7 DEF Next, Step

\* Only the verdict leads to caching, and then the draft is not touched.
LEMMA ReadyStep ==
    ASSUME TypeInv, Retrieved, [Next]_vars, NEW x \in Calls
    PROVE  Ready(x)'
<1> USE DEF callVars, cacheVars, worldVars
<1>0. Ready(x)
    BY DEF Retrieved
<1>1. CASE /\ pc'[x] = pc[x] /\ CurrentAnswer(x)' = CurrentAnswer(x)
           /\ judged \subseteq judged'
    BY <1>0, <1>1 DEF Ready
<1>2. CASE pc'[x] \notin {"set_exact", "set_semantic"}
    BY <1>2 DEF Ready
<1>3. ASSUME NEW c \in Calls,
             \/ Start(c) \/ Embed(c) \/ GetUserTeams(c) \/ Classify(c) \/ Wait(c)
             \/ GetSemantic(c) \/ GetExact(c) \/ Search(c) \/ Filtered(c)
             \/ CheckDocumentAccess(c)
      PROVE  Ready(x)'
  <2>1. attempt' = attempt /\ judged' = judged
      BY <1>3 DEF Start, Embed, GetUserTeams, Classify, Returned, Wait,
                  GetSemantic, GetExact, Search, Filtered, CheckDocumentAccess
  <2>2. pc[c] \notin {"set_exact", "set_semantic"}
      BY <1>3 DEF Start, Embed, GetUserTeams, Classify, Returned, Wait,
                  GetSemantic, GetExact, Search, Filtered, CheckDocumentAccess
  <2>3. /\ pc'[c] \notin {"set_exact", "set_semantic"}
        /\ \A d \in Calls \ {c} : pc'[d] = pc[d] /\ sources'[d] = sources[d]
      BY <1>3, <2>2
         DEF Start, Embed, GetUserTeams, Classify, Returned, Wait, GetSemantic,
             GetExact, Search, Filtered, CheckDocumentAccess, Fail, Return,
             Goto, TypeInv, TypeOK
  <2>4. CASE x = c
      BY <1>2, <2>3, <2>4
  <2>5. CASE x # c
      BY <1>1, <2>1, <2>3, <2>5 DEF CurrentAnswer
  <2> QED BY <2>4, <2>5
<1>4. ASSUME NEW c \in Calls, Draft(c) \/ Rewrite(c) PROVE Ready(x)'
  <2>1. sources' = sources /\ judged' = judged
      BY <1>4 DEF Draft, Rewrite
  <2>2. /\ pc'[c] \in {"done", "evaluate"}
        /\ \A d \in Calls \ {c} : pc'[d] = pc[d] /\ attempt'[d] = attempt[d]
      BY <1>4 DEF Draft, Rewrite, Fail, Return, Goto, TypeInv, TypeOK
  <2> QED BY <1>1, <1>2, <2>1, <2>2 DEF CurrentAnswer
<1>5. ASSUME NEW c \in Calls, Evaluate(c) PROVE Ready(x)'
  <2>1. /\ sources' = sources /\ attempt' = attempt /\ judged \subseteq judged'
        /\ \A d \in Calls \ {c} : pc'[d] = pc[d]
      BY <1>5 DEF Evaluate, Return, Goto, TypeInv, TypeOK
  <2>2. pc'[c] = "set_exact" => CurrentAnswer(c) \in judged'
      BY <1>5 DEF Evaluate, Return, Goto, TypeInv, TypeOK
  <2>3. pc'[c] # "set_semantic"
      BY <1>5 DEF Evaluate, Return, Goto, TypeInv, TypeOK
  <2>4. CurrentAnswer(x)' = CurrentAnswer(x)
      BY <2>1 DEF CurrentAnswer
  <2> QED BY <1>1, <2>1, <2>2, <2>3, <2>4 DEF Ready
<1>6. ASSUME NEW c \in Calls, SetExact(c) \/ SetSemantic(c) PROVE Ready(x)'
  <2>1. /\ sources' = sources /\ attempt' = attempt /\ judged' = judged
        /\ pc[c] \in {"set_exact", "set_semantic"}
        /\ \A d \in Calls \ {c} : pc'[d] = pc[d]
      BY <1>6 DEF SetExact, SetSemantic, Return, Goto, TypeInv, TypeOK
  <2>2. CurrentAnswer(x)' = CurrentAnswer(x)
      BY <2>1 DEF CurrentAnswer
  <2> QED BY <1>0, <1>1, <2>1, <2>2 DEF Ready
<1>7. CASE World \/ UNCHANGED vars
  <2>1. UNCHANGED <<pc, sources, attempt, judged>>
      BY <1>7 DEF World, Index, Relate, ChangeTeams, Change, Expire, vars
  <2> QED BY <1>1, <2>1 DEF CurrentAnswer
<1> QED BY <1>3, <1>4, <1>5, <1>6, <1>7 DEF Next, Step

LEMMA RetrievedStep == TypeInv /\ Retrieved /\ [Next]_vars => Retrieved'
BY FetchedStep, ReadyStep DEF Retrieved

\* The caches change in two actions only, apart from losing entries.
LEMMA CachesStep ==
    ASSUME TypeInv, [Next]_vars
    PROVE  \/ exact' \subseteq exact /\ semantic' \subseteq semantic
           \/ \E c \in Calls : SetExact(c) \/ SetSemantic(c)
BY DEF Next, Step, Start, Embed, GetUserTeams, Classify, Returned, Wait,
       GetSemantic, GetExact, Search, CheckDocumentAccess, Filtered, Draft,
       Evaluate, Rewrite, World, Index, Relate, ChangeTeams, Expire, cacheVars,
       vars

LEMMA RememberedStep ==
    TypeInv /\ Retrieved /\ Remembered /\ [Next]_vars => Remembered'
<1> SUFFICES ASSUME TypeInv, Retrieved, Remembered, [Next]_vars
             PROVE  Remembered'
    OBVIOUS
<1>1. \A e \in exact \cup semantic : e \in Entry
    BY DEF TypeInv, TypeOK
<1>2. ASSUME NEW e \in exact \cup semantic
      PROVE  /\ Sound(e.answer)' /\ e.scope = ScopeOf(e.answer.call)'
             /\ args'[e.answer.call] = args[e.answer.call]
  <2>1. e.answer \in Answer /\ Sound(e.answer)
      BY <1>1 DEF Remembered, Entry
  <2> QED BY <2>1, SoundStays DEF Remembered
<1>3. CASE exact' \subseteq exact /\ semantic' \subseteq semantic
    BY <1>2, <1>3 DEF Remembered
<1>4. ASSUME NEW c \in Calls, SetExact(c) PROVE Remembered'
  <2>1. /\ CurrentAnswer(c) \in Answer /\ Sound(CurrentAnswer(c))
        /\ CurrentAnswer(c).call = c
      BY <1>4, CurrentSound DEF SetExact
  <2>2. PICK a \in Answer : a = CurrentAnswer(c)
      BY <2>1
  <2>3. PICK e : e = [scope |-> ScopeOf(c), query |-> Normal[args[c].query],
                      answer |-> a]
      OBVIOUS
  <2>4. exact' \subseteq exact \cup {e} /\ semantic' = semantic
      BY <1>4, <2>2, <2>3 DEF SetExact
  <2>5. Sound(a)' /\ ScopeOf(a.call)' = ScopeOf(c) /\ args'[a.call] = args[c]
      BY <2>1, <2>2, SoundStays
  <2> QED BY <1>2, <2>3, <2>4, <2>5, <2>1, <2>2 DEF Remembered
<1>5. ASSUME NEW c \in Calls, SetSemantic(c) PROVE Remembered'
  <2>1. /\ CurrentAnswer(c) \in Answer /\ Sound(CurrentAnswer(c))
        /\ CurrentAnswer(c).call = c
      BY <1>5, CurrentSound DEF SetSemantic
  <2>2. PICK a \in Answer : a = CurrentAnswer(c)
      BY <2>1
  <2>3. PICK e : e = [scope |-> ScopeOf(c), query |-> args[c].query,
                      answer |-> a]
      OBVIOUS
  <2>4. semantic' \subseteq semantic \cup {e} /\ exact' = exact
      BY <1>5, <2>2, <2>3 DEF SetSemantic
  <2>5. Sound(a)' /\ ScopeOf(a.call)' = ScopeOf(c) /\ args'[a.call] = args[c]
      BY <2>1, <2>2, SoundStays
  <2> QED BY <1>2, <2>3, <2>4, <2>5, <2>1, <2>2 DEF Remembered
<1> QED BY <1>3, <1>4, <1>5, CachesStep

\* How the reply of a call may change.
LEMMA ReplyStep ==
    ASSUME TypeInv, [Next]_vars, NEW x \in Calls
    PROVE  \/ reply'[x] = reply[x]
           \/ reply'[x].kind \in {"error", "no_documents", "fallback"}
           \/ GetSemantic(x) \/ GetExact(x) \/ SetSemantic(x)
<1> USE DEF TypeInv, TypeOK, callVars, cacheVars, worldVars
<1>1. ASSUME NEW c \in Calls,
             \/ Start(c) \/ Embed(c) \/ GetUserTeams(c) \/ Classify(c)
             \/ CheckDocumentAccess(c) \/ SetExact(c)
      PROVE  reply' = reply
    BY <1>1 DEF Start, Embed, GetUserTeams, Classify, Returned,
                CheckDocumentAccess, SetExact
<1>2. ASSUME NEW c \in Calls,
             \/ Wait(c) \/ Search(c) \/ Filtered(c) \/ Draft(c)
             \/ Evaluate(c) \/ Rewrite(c)
      PROVE  \/ reply' = reply
             \/ \E r : /\ r.kind \in {"error", "no_documents", "fallback"}
                       /\ reply' = [reply EXCEPT ![c] = r]
    BY <1>2 DEF Wait, Search, Filtered, Draft, Evaluate, Rewrite, Fail, Return
<1>3. ASSUME NEW c \in Calls, c # x,
             GetSemantic(c) \/ GetExact(c) \/ SetSemantic(c)
      PROVE  reply'[x] = reply[x]
    BY <1>3 DEF GetSemantic, GetExact, SetSemantic, Return
<1>4. CASE World \/ UNCHANGED vars
    BY <1>4 DEF World, Index, Relate, ChangeTeams, Change, Expire, vars
<1> QED BY <1>1, <1>2, <1>3, <1>4 DEF Next, Step

\* An entry that a call of its scope finds by its query answers the call.
LEMMA Recalled ==
    ASSUME TypeInv, Remembered, [Next]_vars, NEW x \in Calls,
           NEW e \in exact \cup semantic, e.scope = ScopeOf(x),
           SameQuery(args[e.answer.call].query, args[x].query), Scoped(x),
           reply'[x] = [kind |-> "cached", answer |-> e.answer]
    PROVE  /\ Sound(reply[x].answer)' /\ Scoped(x)'
           /\ ScopeOf(reply[x].answer.call)' = ScopeOf(x)'
           /\ SameQuery(args[reply[x].answer.call].query, args[x].query)'
<1>1. PICK a \in Answer : a = e.answer
    BY DEF TypeInv, TypeOK, Entry
<1>2. Sound(a) /\ ScopeOf(a.call) = ScopeOf(x)
    BY <1>1 DEF Remembered
<1>3. Sound(a)' /\ ScopeOf(a.call)' = ScopeOf(a.call)
      /\ args'[a.call] = args[a.call]
    BY <1>2, SoundStays
<1>4. Scoped(x)' /\ ScopeOf(x)' = ScopeOf(x) /\ args'[x] = args[x]
    BY Fixed DEF ScopeOf
<1>5. reply'[x].answer = a
    BY <1>1
<1> QED BY <1>1, <1>2, <1>3, <1>4, <1>5 DEF SameQuery, Sound, ScopeOf

LEMMA RepliedStep ==
    TypeInv /\ Retrieved /\ Remembered /\ Replied /\ [Next]_vars => Replied'
<1> SUFFICES ASSUME TypeInv, Retrieved, Remembered, Replied, [Next]_vars,
                    NEW x \in Calls
             PROVE  /\ Answered(x)' => Sound(reply[x].answer)' /\ Scoped(x)'
                    /\ reply'[x].kind = "answer" => reply'[x].answer.call = x
                    /\ reply'[x].kind = "cached" =>
                           /\ ScopeOf(reply[x].answer.call)' = ScopeOf(x)'
                           /\ SameQuery(args[reply[x].answer.call].query,
                                        args[x].query)'
    BY DEF Replied
<1>1. CASE reply'[x] = reply[x]
  <2>1. CASE ~Answered(x)
      BY <1>1, <2>1 DEF Answered
  <2>2. CASE Answered(x)
    <3>1. PICK a \in Answer : a = reply[x].answer
        BY <2>2 DEF TypeInv, TypeOK, Reply, Answered
    <3>2. Sound(a) /\ Scoped(x)
        BY <2>2, <3>1 DEF Replied
    <3>3. Sound(a)' /\ ScopeOf(a.call)' = ScopeOf(a.call)
          /\ args'[a.call] = args[a.call]
        BY <3>2, SoundStays
    <3>4. Scoped(x)' /\ ScopeOf(x)' = ScopeOf(x) /\ args'[x] = args[x]
        BY <3>2, Fixed DEF ScopeOf
    <3>5. reply'[x].answer = a
        BY <1>1, <3>1
    <3>6. CASE reply[x].kind = "cached"
      <4>1. ScopeOf(a.call) = ScopeOf(x)
            /\ SameQuery(args[a.call].query, args[x].query)
          BY <3>1, <3>6 DEF Replied
      <4>2. ScopeOf(reply[x].answer.call)' = ScopeOf(x)'
          BY <3>3, <3>4, <3>5, <4>1 DEF ScopeOf
      <4>3. SameQuery(args[reply[x].answer.call].query, args[x].query)'
          BY <3>3, <3>4, <3>5, <4>1 DEF SameQuery
      <4>4. Sound(reply[x].answer)'
          BY <3>3, <3>5 DEF Sound
      <4> QED BY <1>1, <3>4, <3>6, <4>2, <4>3, <4>4
    <3>7. CASE reply[x].kind = "answer"
      <4>1. Sound(reply[x].answer)'
          BY <3>3, <3>5 DEF Sound
      <4>2. a.call = x
          BY <3>1, <3>7 DEF Replied
      <4> QED BY <1>1, <3>1, <3>4, <3>7, <4>1, <4>2
    <3> QED BY <2>2, <3>6, <3>7 DEF Answered
  <2> QED BY <2>1, <2>2
<1>2. CASE reply'[x].kind \in {"error", "no_documents", "fallback"}
    BY <1>2 DEF Answered
<1>3. CASE GetSemantic(x)
  <2>1. CASE UNCHANGED reply
      BY <1>1, <2>1
  <2>2. ASSUME NEW e \in Nearest(x),
               Return(x, [kind |-> "cached", answer |-> e.answer])
        PROVE  /\ reply'[x].kind = "cached"
               /\ Sound(reply[x].answer)' /\ Scoped(x)'
               /\ ScopeOf(reply[x].answer.call)' = ScopeOf(x)'
               /\ SameQuery(args[reply[x].answer.call].query, args[x].query)'
    <3>1. reply'[x] = [kind |-> "cached", answer |-> e.answer] /\ Scoped(x)
        BY <1>3, <2>2 DEF GetSemantic, Return, Scoped, TypeInv, TypeOK
    <3>2. /\ e \in semantic /\ e.scope = ScopeOf(x)
          /\ e.query = args[x].query \/ <<e.query, args[x].query>> \in Similar
        BY DEF Nearest
    <3>3. e.query = args[e.answer.call].query
        BY <3>2 DEF Remembered
    <3>4. SameQuery(args[e.answer.call].query, args[x].query)
        BY <3>2, <3>3 DEF SameQuery
    <3> QED BY <3>1, <3>2, <3>4, Recalled
  <2> QED BY <1>3, <2>1, <2>2 DEF GetSemantic
<1>4. CASE GetExact(x)
  <2>1. CASE UNCHANGED reply
      BY <1>1, <2>1
  <2>2. ASSUME NEW e \in exact, HasKey(e, Key(x)),
               Return(x, [kind |-> "cached", answer |-> e.answer])
        PROVE  /\ reply'[x].kind = "cached"
               /\ Sound(reply[x].answer)' /\ Scoped(x)'
               /\ ScopeOf(reply[x].answer.call)' = ScopeOf(x)'
               /\ SameQuery(args[reply[x].answer.call].query, args[x].query)'
    <3>1. reply'[x] = [kind |-> "cached", answer |-> e.answer] /\ Scoped(x)
        BY <1>4, <2>2 DEF GetExact, Return, Scoped, TypeInv, TypeOK
    <3>2. e.scope = ScopeOf(x) /\ e.query = Normal[args[x].query]
        BY <2>2 DEF HasKey, Key
    <3>3. SameQuery(args[e.answer.call].query, args[x].query)
        BY <3>2 DEF Remembered, SameQuery
    <3> QED BY <3>1, <3>2, <3>3, Recalled
  <2> QED BY <1>4, <2>1, <2>2 DEF GetExact
<1>5. CASE SetSemantic(x)
  <2>1. PICK a \in Answer : a = CurrentAnswer(x)
      BY <1>5, CurrentSound DEF SetSemantic
  <2>2. Sound(a) /\ a.call = x
      BY <1>5, <2>1, CurrentSound DEF SetSemantic
  <2>3. reply'[x] = [kind |-> "answer", answer |-> a]
      BY <1>5, <2>1 DEF SetSemantic, Return, TypeInv, TypeOK
  <2>4. Sound(a)' /\ Scoped(x)'
      BY <2>2, SoundStays DEF Sound
  <2> QED BY <2>2, <2>3, <2>4 DEF Sound
<1> QED BY <1>1, <1>2, <1>3, <1>4, <1>5, ReplyStep

LEMMA AnswerInvariant == Spec => [](TypeInv /\ AnswerInv)
<1>1. Init => TypeInv /\ AnswerInv
    BY TypeInit, AnswerInit
<1>2. TypeInv /\ AnswerInv /\ [Next]_vars => (TypeInv /\ AnswerInv)'
    BY TypeStep, RetrievedStep, RememberedStep, RepliedStep DEF AnswerInv
<1> QED BY <1>1, <1>2, PTL DEF Spec

-----------------------------------------------------------------------------
(***************************************************************************)
(* Every answer that is returned or cached is the very draft, over the     *)
(* very chunks, that the evaluator accepted, whatever calls run at once.   *)
(***************************************************************************)
THEOREM OnlyJudged == Spec => []OnlyJudgedAnswers
<1>1. AnswerInv => OnlyJudgedAnswers
    BY DEF AnswerInv, Replied, Remembered, Sound, OnlyJudgedAnswers
<1> QED BY <1>1, AnswerInvariant, PTL

(***************************************************************************)
(* No call is answered from a document of another tenant: neither search   *)
(* nor cache crosses tenants.                                              *)
(***************************************************************************)
THEOREM TenantsIsolated == Spec => []TenantIsolation
<1>1. TypeInv /\ AnswerInv => TenantIsolation
  <2> SUFFICES ASSUME TypeInv, AnswerInv, NEW c \in Calls, Answered(c),
                      NEW d \in reply[c].answer.sources
               PROVE  Doc[d].tenant = args[c].tenant
      BY DEF TenantIsolation
  <2>1. Doc[d].tenant = args[reply[c].answer.call].tenant
      BY DEF AnswerInv, Replied, Sound, Matches
  <2>2. CASE reply[c].kind = "cached"
      BY <2>1, <2>2 DEF AnswerInv, Replied, ScopeOf
  <2>3. CASE reply[c].kind = "answer"
      BY <2>1, <2>3 DEF AnswerInv, Replied
  <2> QED BY <2>2, <2>3 DEF Answered
<1> QED BY <1>1, AnswerInvariant, PTL

(***************************************************************************)
(* The cache serves a call only what was written for the same tenant and   *)
(* the same team set, although memberships change while calls run.         *)
(***************************************************************************)
THEOREM CachedForTeams == Spec => []CachedForSameTeams
<1>1. AnswerInv => CachedForSameTeams
    BY DEF AnswerInv, Replied, ScopeOf, CachedForSameTeams
<1> QED BY <1>1, AnswerInvariant, PTL

(***************************************************************************)
(* No answer is written from a document before SpiceDB knows it, although  *)
(* a document may be searchable earlier.                                   *)
(***************************************************************************)
THEOREM SourcesKnown == Spec => []SourcesRegistered
<1>1. AnswerInv => SourcesRegistered
    BY DEF AnswerInv, Replied, Sound, SourcesRegistered
<1> QED BY <1>1, AnswerInvariant, PTL

(***************************************************************************)
(* Whoever receives an answer, its documents are shared with the teams of  *)
(* the receiver or are the writer's own, although the teams change while   *)
(* the call waits and the entry outlives the writer's memberships.         *)
(***************************************************************************)
THEOREM SharedWithinTeams == Spec => []SourcesEntitled
<1>1. TypeInv /\ AnswerInv => SourcesEntitled
  <2> SUFFICES ASSUME TypeInv, AnswerInv, NEW c \in Calls, Answered(c),
                      NEW d \in reply[c].answer.sources
               PROVE  LET w == args[reply[c].answer.call].user
                      IN /\ w \in Members[Doc[d].tenant]
                         /\ Doc[d].teams \cap userTeams[c] # {} \/ Doc[d].owner = w
      BY DEF SourcesEntitled
  <2>1. Matches(reply[c].answer.call, d) /\ MayEnter(reply[c].answer.call, d)
      BY DEF AnswerInv, Replied, Sound
  <2>2. userTeams[reply[c].answer.call] = userTeams[c]
    <3>1. CASE reply[c].kind = "cached"
        BY <3>1 DEF AnswerInv, Replied, ScopeOf
    <3>2. CASE reply[c].kind = "answer"
        BY <3>2 DEF AnswerInv, Replied
    <3> QED BY <3>1, <3>2 DEF Answered
  <2> QED BY <2>1, <2>2 DEF Matches, MayEnter
<1> QED BY <1>1, AnswerInvariant, PTL

(***************************************************************************)
(* A cached answer was written for a similar query or for one with the     *)
(* same normal form.                                                       *)
(***************************************************************************)
THEOREM CachedForQuery == Spec => []CachedForSameQuery
<1>1. AnswerInv => CachedForSameQuery
    BY DEF AnswerInv, Replied, SameQuery, CachedForSameQuery
<1> QED BY <1>1, AnswerInvariant, PTL

-----------------------------------------------------------------------------
(***************************************************************************)
(* The pipeline implements AnswerService: the end of phase 1 is a Begin, a *)
(* verdict a Vet, a cached entry a Remember, an expiry a Forget, and the   *)
(* end of a call Apologise, Answer or Recall; every other step stutters.   *)
(* It needs that only a call that is done has a reply, and that only a     *)
(* call without an error goes past phase 1.                                *)
(***************************************************************************)
StageInv ==
    \A c \in Calls :
        /\ pc[c] # "done" => reply[c] = NoReply
        /\ Scoped(c) /\ pc[c] # "done" => firstErr[c] = 0

LEMMA StageInit == Init => StageInv
BY DEF Init, StageInv, Scoped

LEMMA StageStep == TypeInv /\ StageInv /\ [Next]_vars => StageInv'
<1> SUFFICES ASSUME TypeInv, StageInv, [Next]_vars PROVE StageInv'
    OBVIOUS
<1> USE DEF TypeInv, TypeOK, StageInv, Scoped, callVars, cacheVars, worldVars
<1>1. ASSUME NEW c \in Calls,
             Start(c) \/ Embed(c) \/ GetUserTeams(c) \/ Classify(c)
      PROVE  StageInv'
    BY <1>1 DEF Start, Embed, GetUserTeams, Classify, Returned, Raises, Goto
<1>2. ASSUME NEW c \in Calls,
             \/ Wait(c) \/ GetSemantic(c) \/ GetExact(c) \/ Search(c)
             \/ CheckDocumentAccess(c) \/ Filtered(c)
      PROVE  StageInv'
    BY <1>2 DEF Wait, GetSemantic, GetExact, Search, CheckDocumentAccess,
                Filtered, Fail, Return, Goto
<1>3. ASSUME NEW c \in Calls,
             \/ Draft(c) \/ Evaluate(c) \/ Rewrite(c)
             \/ SetExact(c) \/ SetSemantic(c)
      PROVE  StageInv'
    BY <1>3 DEF Draft, Evaluate, Rewrite, SetExact, SetSemantic, Fail, Return,
                Goto
<1>4. CASE World \/ UNCHANGED vars
    BY <1>4 DEF World, Index, Relate, ChangeTeams, Change, Expire, vars
<1> QED BY <1>1, <1>2, <1>3, <1>4 DEF Next, Step

\* The scope a call has for its callers, and what keeps it.
LEMMA ScopeStays ==
    ASSUME TypeInv, [Next]_vars,
           \A d \in Calls : ScopeKnown(d)' <=> ScopeKnown(d)
    PROVE  KnownScope' = KnownScope
<1>1. ASSUME NEW d \in Calls, ScopeKnown(d)
      PROVE  ScopeOf(d)' = ScopeOf(d)
    BY <1>1, Fixed DEF ScopeKnown, Scoped, ScopeOf
<1> QED BY <1>1 DEF KnownScope

LEMMA ScopeSeen ==
    ASSUME NEW c \in Calls, ScopeKnown(c)
    PROVE  KnownScope[c] = ScopeOf(c) /\ KnownScope[c] # NoReply
BY DEF KnownScope, ScopeOf, NoReply

LEMMA MemoryStays ==
    ASSUME UNCHANGED <<exact, semantic>> PROVE Memory' = Memory
BY DEF Memory

\* What a call is given when it returns.
LEMMA GivenStep ==
    ASSUME TypeInv, StageInv, NEW c \in Calls, pc[c] # "done", NEW r \in Reply,
           r # NoReply, reply' = [reply EXCEPT ![c] = r]
    PROVE  /\ Given[c] = NoReply
           /\ Given' = [Given EXCEPT ![c] =
                  IF r.kind \in {"answer", "cached"}
                  THEN [grounded |-> TRUE, answer |-> r.answer]
                  ELSE [grounded |-> FALSE]]
<1>1. reply[c] = NoReply
    BY DEF StageInv
<1>2. ~Answered(c)
    BY <1>1 DEF Answered, NoReply
<1>3. \A d \in Calls \ {c} : reply'[d] = reply[d]
    OBVIOUS
<1>4. reply'[c] = r
    BY DEF TypeInv, TypeOK
<1> QED BY <1>1, <1>2, <1>3, <1>4 DEF Given, Answered

LEMMA ServiceApologise ==
    ASSUME TypeInv, StageInv, NEW c \in Calls, pc[c] # "done", NEW r \in Reply,
           r.kind \in {"error", "no_documents", "fallback"},
           reply' = [reply EXCEPT ![c] = r],
           KnownScope' = KnownScope, UNCHANGED <<exact, semantic, judged>>
    PROVE  Service!Next
<1>1. r # NoReply
    BY DEF NoReply
<1>2. Given[c] = NoReply /\ Given' = [Given EXCEPT ![c] = [grounded |-> FALSE]]
    BY <1>1, GivenStep
<1>3. Service!Apologise(c)
    BY <1>2, MemoryStays DEF Service!Apologise, Service!Give
<1> QED BY <1>3 DEF Service!Next

LEMMA ServiceRecall ==
    ASSUME TypeInv, StageInv, NEW c \in Calls, pc[c] # "done", ScopeKnown(c),
           NEW e \in exact \cup semantic, e.scope = ScopeOf(c),
           reply' = [reply EXCEPT ![c] = [kind |-> "cached",
                                         answer |-> e.answer]],
           KnownScope' = KnownScope, UNCHANGED <<exact, semantic, judged>>
    PROVE  Service!Next
<1>0. e \in Entry
    BY DEF TypeInv, TypeOK
<1>1. PICK r \in Reply : r = [kind |-> "cached", answer |-> e.answer]
    BY <1>0, Replies DEF Entry
<1>2. r # NoReply
    BY <1>1 DEF NoReply
<1>3. /\ Given[c] = NoReply
      /\ Given' = [Given EXCEPT ![c] = [grounded |-> TRUE,
                                       answer |-> e.answer]]
    BY <1>1, <1>2, GivenStep
<1>4. PICK m \in Memory : m = [scope |-> e.scope, answer |-> e.answer]
    BY DEF Memory
<1>5. m.scope = KnownScope[c] /\ m.answer = e.answer
    BY <1>4, ScopeSeen
<1>6. Service!Recall(c)
    BY <1>3, <1>5, MemoryStays DEF Service!Recall, Service!Give
<1> QED BY <1>6 DEF Service!Next

\* Between phase 1 and its end a call keeps its scope, as all the others do.
LEMMA SameScopes ==
    ASSUME TypeInv, [Next]_vars, NEW c \in Calls, ScopeKnown(c)',
           ScopeKnown(c), \A d \in Calls \ {c} : pc'[d] = pc[d],
           UNCHANGED firstErr
    PROVE  KnownScope' = KnownScope
<1>1. \A d \in Calls : ScopeKnown(d)' <=> ScopeKnown(d)
    BY DEF ScopeKnown
<1> QED BY <1>1, ScopeStays

LEMMA Waiting ==
    ASSUME TypeInv, StageInv, [Next]_vars, NEW c \in Calls,
           pc[c] \notin {"idle", "phase1", "done"},
           NEW stage \in Stages, Goto(c, stage), UNCHANGED firstErr,
           stage \notin {"idle", "phase1"}
    PROVE  ScopeKnown(c) /\ KnownScope' = KnownScope
<1>1. pc'[c] = stage /\ \A d \in Calls \ {c} : pc'[d] = pc[d]
    BY Moves
<1>2. ScopeKnown(c) /\ ScopeKnown(c)'
    BY <1>1 DEF StageInv, Scoped, ScopeKnown
<1> QED BY <1>1, <1>2, SameScopes

\* A call past phase 1 that ends without an answer.
LEMMA ServiceEnds ==
    ASSUME TypeInv, StageInv, [Next]_vars, NEW c \in Calls,
           pc[c] \notin {"idle", "phase1", "done"}, NEW r \in Reply,
           r.kind \in {"error", "no_documents", "fallback"},
           Return(c, r), UNCHANGED <<firstErr, exact, semantic, judged>>
    PROVE  Service!Next
<1>1. KnownScope' = KnownScope
    BY Waiting DEF Return, Stages
<1> QED BY <1>1, ServiceApologise DEF Return

\* A step of such a call that replies, caches and judges nothing.
LEMMA ServiceStutters ==
    ASSUME TypeInv, StageInv, [Next]_vars, NEW c \in Calls,
           pc[c] \notin {"idle", "phase1", "done"}, NEW stage \in Stages,
           Goto(c, stage), stage \notin {"idle", "phase1"},
           UNCHANGED <<firstErr, reply, exact, semantic, judged>>
    PROVE  UNCHANGED <<KnownScope, judged, Memory, Given>>
<1>1. KnownScope' = KnownScope
    BY Waiting
<1>2. Given' = Given
    BY DEF Given, Answered
<1> QED BY <1>1, <1>2, MemoryStays

\* A judged answer of a waiting call enters a cache.
LEMMA ServiceRemember ==
    ASSUME TypeInv, StageInv, NEW c \in Calls, pc[c] # "done", ScopeKnown(c),
           NEW a \in judged, a.call = c, NEW query,
           exact' \cup semantic' \subseteq exact \cup semantic \cup
               {[scope |-> ScopeOf(c), query |-> query, answer |-> a]}
    PROVE  Service!Remembers(c, a)
<1> DEFINE m == [scope |-> KnownScope[c], answer |-> a]
           e == [scope |-> ScopeOf(c), query |-> query, answer |-> a]
<1>1. m = [scope |-> e.scope, answer |-> e.answer]
    BY ScopeSeen
<1>2. ASSUME NEW n \in Memory' PROVE n \in Memory \cup {m}
  <2>1. PICK x \in exact' \cup semantic' :
            n = [scope |-> x.scope, answer |-> x.answer]
      BY <1>2 DEF Memory
  <2>2. x \in exact \cup semantic \/ x = e
      BY <2>1
  <2> QED BY <1>1, <2>1, <2>2 DEF Memory
<1> QED BY <1>2 DEF Service!Remembers

ServiceStep == Service!Next \/ UNCHANGED <<KnownScope, judged, Memory, Given>>

LEMMA ServicePhase1 ==
    ASSUME TypeInv, StageInv, [Next]_vars, NEW c \in Calls,
           \/ Start(c) \/ Embed(c) \/ GetUserTeams(c) \/ Classify(c)
    PROVE  ServiceStep
<1> USE DEF callVars, cacheVars, worldVars
<1>1. UNCHANGED <<reply, exact, semantic, judged>>
    BY DEF Start, Embed, GetUserTeams, Classify, Returned
<1>2. pc[c] \in {"idle", "phase1"} /\ pc'[c] = "phase1"
    BY DEF Start, Embed, GetUserTeams, Classify, Returned, Goto, TypeInv, TypeOK
<1>3. \A d \in Calls \ {c} : pc'[d] = pc[d] /\ firstErr'[d] = firstErr[d]
    BY DEF Start, Embed, GetUserTeams, Classify, Returned, Raises, Goto,
           TypeInv, TypeOK
<1>4. \A d \in Calls : ScopeKnown(d)' <=> ScopeKnown(d)
    BY <1>2, <1>3 DEF ScopeKnown
<1>5. Given' = Given
    BY <1>1 DEF Given, Answered
<1> QED BY <1>1, <1>4, <1>5, ScopeStays, MemoryStays DEF ServiceStep

LEMMA ServiceWait ==
    ASSUME TypeInv, StageInv, [Next]_vars, NEW c \in Calls, Wait(c)
    PROVE  ServiceStep
<1> USE DEF Wait, callVars, cacheVars, worldVars
<1>1. CASE firstErr[c] # 0 /\ Fail(c, firstErr[c])
  <2>1. PICK r \in Reply : r = [kind |-> "error", status |-> firstErr[c]]
      BY <1>1, Replies DEF TypeInv, TypeOK
  <2>2. Return(c, r) /\ r.kind = "error"
      BY <1>1, <2>1 DEF Fail
  <2>3. \A d \in Calls : ScopeKnown(d)' <=> ScopeKnown(d)
      BY <1>1, <2>2, Returns DEF ScopeKnown
  <2>4. KnownScope' = KnownScope
      BY <2>3, ScopeStays
  <2> QED BY <2>2, <2>4, ServiceApologise DEF ServiceStep, Return
<1>2. CASE firstErr[c] = 0 /\ Goto(c, "semantic") /\ UNCHANGED reply
  <2>1. /\ pc'[c] = "semantic"
        /\ \A d \in Calls \ {c} : pc'[d] = pc[d]
      BY <1>2, Moves DEF Stages
  <2>2. /\ ~ScopeKnown(c) /\ ScopeKnown(c)'
        /\ \A d \in Calls \ {c} : ScopeKnown(d)' <=> ScopeKnown(d)
      BY <1>2, <2>1 DEF ScopeKnown
  <2>3. \A d \in Calls : ScopeOf(d)' = ScopeOf(d)
      BY DEF ScopeOf
  <2>4. KnownScope[c] = NoReply
        /\ KnownScope' = [KnownScope EXCEPT ![c] = ScopeOf(c)]
      BY <2>2, <2>3 DEF KnownScope
  <2>5. ScopeOf(c) \in Scope
      BY QuestionsAssumption DEF ScopeOf, Scope, TypeInv, TypeOK
  <2>6. Given' = Given /\ Given[c] = NoReply
      BY <1>2 DEF Given, Answered, StageInv, NoReply
  <2>7. PICK s \in Scope : KnownScope' = [KnownScope EXCEPT ![c] = s]
      BY <2>4, <2>5
  <2>8. Service!Begin(c)
      BY <2>4, <2>6, <2>7, MemoryStays DEF Service!Begin
  <2> QED BY <2>8 DEF Service!Next, ServiceStep
<1> QED BY <1>1, <1>2

LEMMA ServiceLookup ==
    ASSUME TypeInv, StageInv, [Next]_vars, NEW c \in Calls,
           GetSemantic(c) \/ GetExact(c)
    PROVE  ServiceStep
<1> USE DEF callVars, cacheVars, worldVars
<1>1. /\ pc[c] \in {"semantic", "exact"}
      /\ UNCHANGED <<firstErr, exact, semantic, judged>>
    BY DEF GetSemantic, GetExact
<1>2. ASSUME NEW e \in exact \cup semantic, e.scope = ScopeOf(c),
             Return(c, [kind |-> "cached", answer |-> e.answer])
      PROVE  ServiceStep
  <2>1. ScopeKnown(c) /\ KnownScope' = KnownScope
      BY <1>1, <1>2, Waiting DEF Return, Stages
  <2> QED BY <1>1, <1>2, <2>1, ServiceRecall DEF Return, ServiceStep
<1>3. CASE (Goto(c, "exact") \/ Goto(c, "search")) /\ UNCHANGED reply
    BY <1>1, <1>3, ServiceStutters DEF ServiceStep, Stages
<1>4. CASE GetSemantic(c)
    BY <1>2, <1>3, <1>4 DEF GetSemantic, Nearest
<1>5. CASE GetExact(c)
    BY <1>2, <1>3, <1>5 DEF GetExact, HasKey, Key
<1> QED BY <1>4, <1>5

LEMMA ServiceRetrieve ==
    ASSUME TypeInv, StageInv, [Next]_vars, NEW c \in Calls,
           \/ Search(c) \/ CheckDocumentAccess(c) \/ Filtered(c)
           \/ Draft(c) \/ Rewrite(c)
    PROVE  ServiceStep
<1> USE DEF callVars, cacheVars, worldVars
<1>1. /\ pc[c] \in {"search", "filter", "draft", "rewrite"}
      /\ UNCHANGED <<firstErr, exact, semantic, judged>>
    BY DEF Search, CheckDocumentAccess, Filtered, Draft, Rewrite
<1>2. ASSUME NEW r \in Reply, Return(c, r),
             r.kind \in {"error", "no_documents", "fallback"}
      PROVE  ServiceStep
    BY <1>1, <1>2, ServiceEnds DEF ServiceStep
<1>3. CASE /\ Goto(c, "filter") \/ Goto(c, "draft") \/ Goto(c, "evaluate")
           /\ UNCHANGED reply
    BY <1>1, <1>3, ServiceStutters DEF ServiceStep, Stages
<1>4. CASE UNCHANGED <<pc, reply>>
  <2>1. KnownScope' = KnownScope
      BY <1>1, <1>4, ScopeStays DEF ScopeKnown
  <2>2. Given' = Given
      BY <1>4 DEF Given, Answered
  <2> QED BY <1>1, <2>1, <2>2, MemoryStays DEF ServiceStep
<1>5. \/ \E r \in Reply :
             Return(c, r) /\ r.kind \in {"error", "no_documents", "fallback"}
      \/ /\ Goto(c, "filter") \/ Goto(c, "draft") \/ Goto(c, "evaluate")
         /\ UNCHANGED reply
      \/ UNCHANGED <<pc, reply>>
    BY Replies DEF Search, CheckDocumentAccess, Filtered, Draft, Rewrite, Fail
<1> QED BY <1>2, <1>3, <1>4, <1>5

LEMMA ServiceEvaluate ==
    ASSUME TypeInv, StageInv, [Next]_vars, NEW c \in Calls, Evaluate(c)
    PROVE  ServiceStep
<1> USE DEF Evaluate, callVars, cacheVars, worldVars
<1>1. CASE /\ judged' = judged \cup {CurrentAnswer(c)}
           /\ Goto(c, "set_exact") /\ UNCHANGED reply
  <2>1. KnownScope' = KnownScope
      BY <1>1, Waiting DEF Stages
  <2>2. reply[c] = NoReply
      BY DEF StageInv
  <2>3. Given' = Given /\ Given[c] = NoReply
      BY <1>1, <2>2 DEF Given, Answered, NoReply
  <2>4. CurrentAnswer(c).call = c
      BY DEF CurrentAnswer
  <2>5. judged \subseteq judged' /\ \A a \in judged' \ judged : a.call = c
      BY <1>1, <2>4
  <2>6. Service!Vet(c)
      BY <2>1, <2>3, <2>5, MemoryStays DEF Service!Vet
  <2> QED BY <2>6 DEF Service!Next, ServiceStep
<1>2. CASE Goto(c, "rewrite") /\ UNCHANGED <<reply, judged>>
    BY <1>2, ServiceStutters DEF ServiceStep, Stages
<1>3. CASE Return(c, [kind |-> "fallback"]) /\ UNCHANGED judged
    BY <1>3, Replies, ServiceEnds DEF ServiceStep
<1> QED BY <1>1, <1>2, <1>3

LEMMA ServiceSetExact ==
    ASSUME TypeInv, StageInv, Retrieved, [Next]_vars, NEW c \in Calls,
           SetExact(c)
    PROVE  ServiceStep
<1> USE DEF callVars, cacheVars, worldVars
<1>1. PICK a \in judged : a = CurrentAnswer(c) /\ a.call = c
    BY DEF SetExact, Retrieved, Ready, CurrentAnswer
<1>2. UNCHANGED <<firstErr, reply, judged>> /\ semantic' = semantic
    BY DEF SetExact
<1>3. ScopeKnown(c) /\ KnownScope' = KnownScope
    BY <1>2, Waiting DEF SetExact, Stages
<1>4. reply[c] = NoReply
    BY DEF SetExact, StageInv
<1>5. Given' = Given /\ Given[c] = NoReply
    BY <1>2, <1>4 DEF Given, Answered, NoReply
<1>6. PICK q : q = Normal[args[c].query]
    OBVIOUS
<1>7. exact' \cup semantic' \subseteq exact \cup semantic \cup
          {[scope |-> ScopeOf(c), query |-> q, answer |-> a]}
    BY <1>1, <1>2, <1>6 DEF SetExact
<1>8. Service!Remembers(c, a)
    BY <1>1, <1>3, <1>7, ServiceRemember DEF SetExact
<1>9. Service!Remember(c)
    BY <1>1, <1>2, <1>3, <1>5, <1>8, ScopeSeen DEF Service!Remember
<1> QED BY <1>9 DEF Service!Next, ServiceStep

LEMMA ServiceAnswer ==
    ASSUME TypeInv, StageInv, Retrieved, [Next]_vars, NEW c \in Calls,
           SetSemantic(c)
    PROVE  ServiceStep
<1> USE DEF callVars, cacheVars, worldVars
<1>1. PICK a \in judged : a = CurrentAnswer(c) /\ a.call = c
    BY DEF SetSemantic, Retrieved, Ready, CurrentAnswer
<1>2. PICK r \in Reply : r = [kind |-> "answer", answer |-> a]
  <2>1. a \in Answer
      BY DEF TypeInv, TypeOK
  <2> QED BY <2>1, Replies
<1>3. UNCHANGED <<firstErr, judged, exact>> /\ Return(c, r)
    BY <1>1, <1>2 DEF SetSemantic
<1>4. ScopeKnown(c) /\ KnownScope' = KnownScope
    BY <1>3, Waiting DEF SetSemantic, Return, Stages
<1>5. r # NoReply
    BY <1>2 DEF NoReply
<1>6. /\ Given[c] = NoReply
      /\ Given' = [Given EXCEPT ![c] = [grounded |-> TRUE, answer |-> a]]
    BY <1>2, <1>3, <1>5, GivenStep DEF Return, SetSemantic
<1>7. PICK q : q = args[c].query
    OBVIOUS
<1>8. exact' \cup semantic' \subseteq exact \cup semantic \cup
          {[scope |-> ScopeOf(c), query |-> q, answer |-> a]}
    BY <1>1, <1>3, <1>7 DEF SetSemantic
<1>9. Service!Remembers(c, a)
    BY <1>1, <1>4, <1>8, ServiceRemember DEF SetSemantic
<1>10. Service!Answer(c)
    BY <1>1, <1>3, <1>4, <1>6, <1>9, ScopeSeen
       DEF Service!Answer, Service!Give
<1> QED BY <1>10 DEF Service!Next, ServiceStep

LEMMA ServiceWorld ==
    ASSUME TypeInv, [Next]_vars, World PROVE ServiceStep
<1>1. /\ UNCHANGED <<pc, firstErr, reply, judged>>
      /\ exact' \subseteq exact /\ semantic' \subseteq semantic
    BY DEF World, Index, Relate, ChangeTeams, Change, Expire, callVars,
           cacheVars, worldVars
<1>2. KnownScope' = KnownScope
    BY <1>1, ScopeStays DEF ScopeKnown
<1>3. Given' = Given
    BY <1>1 DEF Given, Answered
<1>4. Memory' \subseteq Memory
    BY <1>1 DEF Memory
<1>5. Service!Forget
    BY <1>1, <1>2, <1>3, <1>4 DEF Service!Forget
<1> QED BY <1>5 DEF Service!Next, ServiceStep

LEMMA ServiceInit == Init => Service!Init
BY DEF Init, Service!Init, KnownScope, ScopeKnown, Given, Answered, NoReply,
       Memory

LEMMA ServiceEveryStep ==
    TypeInv /\ StageInv /\ Retrieved /\ [Next]_vars
        => [Service!Next]_(Service!svcVars)
<1> SUFFICES ASSUME TypeInv, StageInv, Retrieved, [Next]_vars
             PROVE  ServiceStep
    BY DEF ServiceStep, Service!svcVars
<1>1. CASE UNCHANGED vars
    BY <1>1 DEF vars, ServiceStep, KnownScope, ScopeKnown, ScopeOf, Memory,
                Given, Answered
<1> QED BY <1>1, ServicePhase1, ServiceWait, ServiceLookup, ServiceRetrieve,
           ServiceEvaluate, ServiceSetExact, ServiceAnswer, ServiceWorld
        DEF Next, Step

(***************************************************************************)
(* Whatever calls run at once, a reply is final, a grounded answer was     *)
(* vetted first, and an answer is served again only within the scope of    *)
(* the call it was written for.                                            *)
(***************************************************************************)
THEOREM PipelineServes == Spec => ImplementsAnswerService
<1>1. Spec => []StageInv
    BY StageInit, StageStep, TypeInvariant, PTL DEF Spec
<1>2. TypeInv /\ AnswerInv => Retrieved
    BY DEF AnswerInv
<1> QED BY <1>1, <1>2, ServiceInit, ServiceEveryStep, AnswerInvariant, PTL
        DEF Spec, ImplementsAnswerService, Service!Spec

-----------------------------------------------------------------------------
(***************************************************************************)
(* Termination of a call, the part of EveryCallReturns that needs no       *)
(* fairness: its steps lower StepsLeft, a natural number.  The goroutines  *)
(* to join and the documents to check are finite sets, and the rounds of   *)
(* self-reflection end because RoundsBounded holds.                        *)
(***************************************************************************)
FiniteWork ==
    \A c \in Calls : IsFiniteSet(running[c]) /\ IsFiniteSet(unchecked[c])

LEMMA Goroutines ==
    /\ IsFiniteSet({"embed", "authz", "route"})
    /\ Cardinality({"embed", "authz", "route"}) <= 3
<1>1. /\ IsFiniteSet({}) /\ Cardinality({}) = 0
    BY FS_EmptySet
<1>2. /\ IsFiniteSet({"embed"}) /\ Cardinality({"embed"}) = 1
    BY FS_Singleton
<1>3. /\ IsFiniteSet({"embed"} \cup {"authz"})
      /\ Cardinality({"embed"} \cup {"authz"}) = 2
    BY <1>2, FS_AddElement
<1>4. PICK S : S = {"embed"} \cup {"authz"}
    OBVIOUS
<1>5. IsFiniteSet(S \cup {"route"}) /\ Cardinality(S \cup {"route"}) = 3
    BY <1>3, <1>4, FS_AddElement
<1>6. S \cup {"route"} = {"embed", "authz", "route"}
    BY <1>4
<1> QED BY <1>5, <1>6

\* Removing an element lowers a finite set's cardinality.
LEMMA OneLess ==
    ASSUME NEW S, IsFiniteSet(S), NEW x \in S
    PROVE  /\ IsFiniteSet(S \ {x})
           /\ Cardinality(S) \in Nat /\ Cardinality(S \ {x}) \in Nat
           /\ Cardinality(S \ {x}) < Cardinality(S)
<1>1. IsFiniteSet(S \ {x}) /\ Cardinality(S \ {x}) = Cardinality(S) - 1
    BY FS_RemoveElement
<1>2. Cardinality(S) \in Nat /\ Cardinality(S \ {x}) \in Nat
    BY <1>1, FS_CardinalityType
<1> QED BY <1>1, <1>2

LEMMA FiniteInit == Init => FiniteWork
BY FS_EmptySet DEF Init, FiniteWork

LEMMA FiniteStep == TypeInv /\ FiniteWork /\ [Next]_vars => FiniteWork'
<1> SUFFICES ASSUME TypeInv, FiniteWork, [Next]_vars PROVE FiniteWork'
    OBVIOUS
<1> USE DEF TypeInv, TypeOK, FiniteWork, callVars, cacheVars, worldVars
<1>1. ASSUME NEW c \in Calls, Start(c) PROVE FiniteWork'
    BY <1>1, Goroutines DEF Start
<1>2. ASSUME NEW c \in Calls, Embed(c) \/ GetUserTeams(c) \/ Classify(c)
      PROVE FiniteWork'
  <2>1. PICK g \in running[c] :
            /\ running' = [running EXCEPT ![c] = @ \ {g}]
            /\ unchecked' = unchecked
      BY <1>2 DEF Embed, GetUserTeams, Classify, Returned
  <2>2. IsFiniteSet(running[c] \ {g})
      BY OneLess
  <2> QED BY <2>1, <2>2
<1>3. ASSUME NEW c \in Calls, Search(c) PROVE FiniteWork'
    BY <1>3 DEF Search
<1>4. ASSUME NEW c \in Calls, CheckDocumentAccess(c) PROVE FiniteWork'
  <2>1. PICK d \in unchecked[c] :
            /\ unchecked' = [unchecked EXCEPT ![c] = @ \ {d}]
            /\ running' = running
      BY <1>4 DEF CheckDocumentAccess
  <2>2. IsFiniteSet(unchecked[c] \ {d})
      BY OneLess
  <2> QED BY <2>1, <2>2
<1>5. ASSUME NEW c \in Calls,
             \/ Wait(c) \/ GetSemantic(c) \/ GetExact(c) \/ Filtered(c)
             \/ Draft(c) \/ Evaluate(c) \/ Rewrite(c) \/ SetExact(c)
             \/ SetSemantic(c)
      PROVE FiniteWork'
    BY <1>5 DEF Wait, GetSemantic, GetExact, Filtered, Draft, Evaluate, Rewrite,
                SetExact, SetSemantic
<1>6. CASE World \/ UNCHANGED vars
    BY <1>6 DEF World, Index, Relate, ChangeTeams, Change, Expire, vars
<1> QED BY <1>1, <1>2, <1>3, <1>4, <1>5, <1>6 DEF Next, Step

\* A step of one call is none of another.
LEMMA OthersStay ==
    ASSUME TypeInv, NEW c \in Calls, Start(c) \/ Step(c),
           NEW d \in Calls, d # c
    PROVE  UNCHANGED Local(d)
<1> USE DEF TypeInv, TypeOK, Goto, callVars, cacheVars, worldVars
<1>1. args'[d] = args[d] /\ pc'[d] = pc[d]
    BY DEF Start, Step, Embed, GetUserTeams, Classify, Returned, Wait,
           GetSemantic, GetExact, Search, CheckDocumentAccess, Filtered, Draft,
           Evaluate, Rewrite, SetExact, SetSemantic, Fail, Return
<1>2. running'[d] = running[d] /\ firstErr'[d] = firstErr[d]
      /\ userTeams'[d] = userTeams[d]
    BY DEF Start, Step, Embed, GetUserTeams, Classify, Returned, Raises, Wait,
           GetSemantic, GetExact, Search, CheckDocumentAccess, Filtered, Draft,
           Evaluate, Rewrite, SetExact, SetSemantic
<1>3. hits'[d] = hits[d] /\ unchecked'[d] = unchecked[d]
      /\ sources'[d] = sources[d]
    BY DEF Start, Step, Embed, GetUserTeams, Classify, Returned, Wait,
           GetSemantic, GetExact, Search, CheckDocumentAccess, Filtered, Draft,
           Evaluate, Rewrite, SetExact, SetSemantic
<1>4. attempt'[d] = attempt[d] /\ reply'[d] = reply[d]
    BY DEF Start, Step, Embed, GetUserTeams, Classify, Returned, Wait,
           GetSemantic, GetExact, Search, CheckDocumentAccess, Filtered, Draft,
           Evaluate, Rewrite, SetExact, SetSemantic, Fail, Return
<1> QED BY <1>1, <1>2, <1>3, <1>4 DEF Local

\* A cardinality of the work of a call is a number.
LEMMA WorkCounts ==
    ASSUME FiniteWork, NEW c \in Calls
    PROVE  Cardinality(running[c]) \in Nat /\ Cardinality(unchecked[c]) \in Nat
BY FS_CardinalityType DEF FiniteWork

Lowers(c) == StepsLeft(c)' \in Nat /\ StepsLeft(c)' < StepsLeft(c)

\* A call that ends leaves no steps, and before that it has one at least.
LEMMA EndLowers ==
    ASSUME TypeInv, FiniteWork, NEW c \in Calls, pc[c] # "done",
           pc'[c] = "done"
    PROVE  Lowers(c)
<1>0. /\ TopK \in Nat /\ attempt[c] \in {0, 1, 2} /\ pc[c] \in Stages
      /\ Cardinality(running[c]) \in Nat /\ Cardinality(unchecked[c]) \in Nat
    BY WorldAssumption, WorkCounts DEF TypeInv, TypeOK, maxEvalRetries
<1>1. StepsLeft(c) \in Nat /\ StepsLeft(c) > 0
  <2>1. CASE pc[c] = "idle"
      BY <1>0, <2>1 DEF StepsLeft
  <2>2. CASE pc[c] = "phase1"
      BY <1>0, <2>2 DEF StepsLeft
  <2>3. CASE pc[c] = "semantic"
      BY <1>0, <2>3 DEF StepsLeft
  <2>4. CASE pc[c] = "exact"
      BY <1>0, <2>4 DEF StepsLeft
  <2>5. CASE pc[c] = "search"
      BY <1>0, <2>5 DEF StepsLeft
  <2>6. CASE pc[c] = "filter"
      BY <1>0, <2>6 DEF StepsLeft
  <2>7. CASE pc[c] = "draft"
      BY <1>0, <2>7 DEF StepsLeft
  <2>8. CASE pc[c] = "evaluate"
      BY <1>0, <2>8 DEF StepsLeft, maxEvalRetries
  <2>9. CASE pc[c] = "rewrite"
      BY <1>0, <2>9 DEF StepsLeft, maxEvalRetries
  <2>10. CASE pc[c] = "set_exact"
      BY <1>0, <2>10 DEF StepsLeft
  <2>11. CASE pc[c] = "set_semantic"
      BY <1>0, <2>11 DEF StepsLeft
  <2> QED BY <1>0, <2>1, <2>2, <2>3, <2>4, <2>5, <2>6,
             <2>7, <2>8, <2>9, <2>10, <2>11 DEF Stages
<1>2. StepsLeft(c)' = 0
    BY DEF StepsLeft
<1> QED BY <1>1, <1>2 DEF Lowers

LEMMA Phase1Lowers ==
    ASSUME TypeInv, FiniteWork, NEW c \in Calls,
           \/ Start(c) \/ Embed(c) \/ GetUserTeams(c) \/ Classify(c)
    PROVE  Lowers(c)
<1> USE WorldAssumption DEF TypeInv, TypeOK
<1>1. CASE Start(c)
  <2>1. PICK work : work = {"embed", "authz", "route"}
      OBVIOUS
  <2>2. pc[c] = "idle" /\ pc'[c] = "phase1" /\ running'[c] = work
      BY <1>1, <2>1 DEF Start, Goto
  <2>3. Cardinality(work) \in Nat /\ Cardinality(work) <= 3
      BY <2>1, Goroutines, FS_CardinalityType
  <2> QED BY <2>2, <2>3 DEF Lowers, StepsLeft
<1>2. CASE Embed(c) \/ GetUserTeams(c) \/ Classify(c)
  <2>1. PICK g \in running[c] : running' = [running EXCEPT ![c] = @ \ {g}]
      BY <1>2 DEF Embed, GetUserTeams, Classify, Returned
  <2>2. pc[c] = "phase1" /\ pc'[c] = "phase1"
      BY <1>2 DEF Embed, GetUserTeams, Classify, Returned
  <2>3. /\ Cardinality(running[c] \ {g}) \in Nat
        /\ Cardinality(running[c]) \in Nat
        /\ Cardinality(running[c] \ {g}) < Cardinality(running[c])
      BY OneLess DEF FiniteWork
  <2>4. running'[c] = running[c] \ {g}
      BY <2>1
  <2> QED BY <2>2, <2>3, <2>4 DEF Lowers, StepsLeft
<1> QED BY <1>1, <1>2

LEMMA LookupLowers ==
    ASSUME TypeInv, FiniteWork, NEW c \in Calls,
           \/ Wait(c) \/ GetSemantic(c) \/ GetExact(c)
    PROVE  Lowers(c)
<1>1. \/ pc'[c] = "done" /\ pc[c] # "done"
      \/ pc[c] = "phase1" /\ pc'[c] = "semantic"
      \/ pc[c] = "semantic" /\ pc'[c] = "exact"
      \/ pc[c] = "exact" /\ pc'[c] = "search"
    BY DEF Wait, GetSemantic, GetExact, Fail, Return, Goto, TypeInv, TypeOK
<1>2. Cardinality(running[c]) \in Nat /\ TopK \in Nat
    BY WorkCounts, WorldAssumption
<1>3. CASE pc'[c] = "done" /\ pc[c] # "done"
    BY <1>3, EndLowers
<1>4. CASE pc[c] = "phase1" /\ pc'[c] = "semantic"
    BY <1>2, <1>4 DEF Lowers, StepsLeft
<1>5. CASE \/ pc[c] = "semantic" /\ pc'[c] = "exact"
           \/ pc[c] = "exact" /\ pc'[c] = "search"
    BY <1>2, <1>5 DEF Lowers, StepsLeft
<1> QED BY <1>1, <1>3, <1>4, <1>5

LEMMA RetrievalLowers ==
    ASSUME TypeInv, FiniteWork, NEW c \in Calls,
           Search(c) \/ CheckDocumentAccess(c) \/ Filtered(c)
    PROVE  Lowers(c)
<1> USE WorldAssumption DEF TypeInv, TypeOK
<1>1. CASE pc'[c] = "done"
  <2>1. pc[c] # "done"
      BY DEF Search, CheckDocumentAccess, Filtered
  <2> QED BY <1>1, <2>1, EndLowers
<1>2. CASE Search(c) /\ pc'[c] # "done"
  <2>1. PICK found : /\ IsFiniteSet(found) /\ Cardinality(found) <= TopK
                     /\ unchecked' = [unchecked EXCEPT ![c] = found]
                     /\ Goto(c, "filter")
      BY <1>2 DEF Search, Fail, Return, Goto
  <2>2. pc[c] = "search" /\ pc'[c] = "filter" /\ unchecked'[c] = found
      BY <1>2, <2>1 DEF Search, Goto
  <2>3. Cardinality(found) \in Nat
      BY <2>1, FS_CardinalityType
  <2> QED BY <2>1, <2>2, <2>3 DEF Lowers, StepsLeft
<1>3. CASE CheckDocumentAccess(c)
  <2>1. PICK d \in unchecked[c] : unchecked' = [unchecked EXCEPT ![c] = @ \ {d}]
      BY <1>3 DEF CheckDocumentAccess
  <2>2. /\ pc[c] = "filter" /\ pc'[c] = "filter"
        /\ unchecked'[c] = unchecked[c] \ {d}
      BY <1>3, <2>1 DEF CheckDocumentAccess
  <2>3. /\ Cardinality(unchecked[c] \ {d}) \in Nat
        /\ Cardinality(unchecked[c]) \in Nat
        /\ Cardinality(unchecked[c] \ {d}) < Cardinality(unchecked[c])
      BY OneLess DEF FiniteWork
  <2> QED BY <2>2, <2>3 DEF Lowers, StepsLeft
<1>4. CASE Filtered(c) /\ pc'[c] # "done"
  <2>1. pc[c] = "filter" /\ pc'[c] = "draft"
      BY <1>4 DEF Filtered, Return, Goto
  <2>2. Cardinality(unchecked[c]) \in Nat
      BY WorkCounts
  <2> QED BY <2>1, <2>2 DEF Lowers, StepsLeft
<1> QED BY <1>1, <1>2, <1>3, <1>4

LEMMA AnswerLowers ==
    ASSUME TypeInv, FiniteWork, NEW c \in Calls,
           \/ Draft(c) \/ Evaluate(c) \/ Rewrite(c)
           \/ SetExact(c) \/ SetSemantic(c)
    PROVE  Lowers(c)
<1>1. CASE pc'[c] = "done"
  <2>1. pc[c] # "done"
      BY DEF Draft, Evaluate, Rewrite, SetExact, SetSemantic
  <2> QED BY <1>1, <2>1, EndLowers
<1>2. /\ attempt[c] \in {0, 1, 2}
      /\ pc[c] = "evaluate" => attempt[c] \in {1, 2}
      /\ pc[c] = "rewrite" => attempt[c] = 1
    BY DEF TypeInv, TypeOK, RoundsBounded, Drafted, maxEvalRetries
<1>3. \/ pc[c] = "draft" /\ pc'[c] = "evaluate" /\ attempt'[c] = 1
      \/ pc[c] = "evaluate" /\ pc'[c] = "set_exact"
      \/ pc[c] = "evaluate" /\ pc'[c] = "rewrite" /\ attempt'[c] = attempt[c]
      \/ /\ pc[c] = "rewrite" /\ pc'[c] = "evaluate"
         /\ attempt'[c] = attempt[c] + 1
      \/ pc[c] = "set_exact" /\ pc'[c] = "set_semantic"
      \/ pc'[c] = "done"
    BY DEF Draft, Evaluate, Rewrite, SetExact, SetSemantic, Fail, Return, Goto,
           TypeInv, TypeOK
<1>4. CASE pc[c] = "draft" /\ pc'[c] = "evaluate" /\ attempt'[c] = 1
    BY <1>4 DEF Lowers, StepsLeft, maxEvalRetries
<1>5. CASE pc[c] = "evaluate" /\ pc'[c] = "set_exact"
    BY <1>2, <1>5 DEF Lowers, StepsLeft, maxEvalRetries
<1>6. CASE /\ pc[c] = "evaluate" /\ pc'[c] = "rewrite"
           /\ attempt'[c] = attempt[c]
    BY <1>2, <1>6 DEF Lowers, StepsLeft, maxEvalRetries
<1>7. CASE /\ pc[c] = "rewrite" /\ pc'[c] = "evaluate"
           /\ attempt'[c] = attempt[c] + 1
    BY <1>2, <1>7 DEF Lowers, StepsLeft, maxEvalRetries
<1>8. CASE pc[c] = "set_exact" /\ pc'[c] = "set_semantic"
    BY <1>8 DEF Lowers, StepsLeft
<1> QED BY <1>1, <1>3, <1>4, <1>5, <1>6, <1>7, <1>8

(***************************************************************************)
(* A call of Execute takes at most 15 + TopK steps, whatever other calls   *)
(* and the world do: each of its steps lowers StepsLeft.  With the         *)
(* fairness of FairSpec that is why every call returns.                    *)
(***************************************************************************)
THEOREM CallsEnd == Spec => CallsBounded
<1>1. ASSUME TypeInv, FiniteWork, [Next]_vars, NEW c \in Calls
      PROVE  UNCHANGED Local(c) \/ Lowers(c)
  <2>1. CASE Start(c) \/ Step(c)
      BY <1>1, <2>1, Phase1Lowers, LookupLowers, RetrievalLowers, AnswerLowers
         DEF Step
  <2>2. ASSUME NEW d \in Calls, d # c, Start(d) \/ Step(d)
        PROVE  UNCHANGED Local(c)
      BY <1>1, <2>2, OthersStay
  <2>3. CASE World \/ UNCHANGED vars
      BY <2>3 DEF World, Index, Relate, ChangeTeams, Expire, callVars, vars,
                  Local
  <2> QED BY <1>1, <2>1, <2>2, <2>3 DEF Next
<1>2. Spec => []FiniteWork
    BY FiniteInit, FiniteStep, TypeInvariant, PTL DEF Spec
<1>3. TypeInv /\ FiniteWork /\ [Next]_vars =>
          [\A c \in Calls :
               \/ UNCHANGED Local(c)
               \/ StepsLeft(c)' \in Nat /\ StepsLeft(c)' < StepsLeft(c)]_vars
    BY <1>1 DEF Lowers
<1> QED BY <1>2, <1>3, TypeInvariant, PTL DEF Spec, CallsBounded

=============================================================================
