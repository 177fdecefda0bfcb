---------------------------- MODULE Orchestrator ----------------------------
(***************************************************************************)
(* The query pipeline of the gateway: concurrent Execute calls over one    *)
(* permission-scoped Redis cache, Qdrant, SpiceDB and an LLM that drafts,  *)
(* judges and rewrites answers, while documents become searchable, their   *)
(* relationships are written, users change teams and cache entries expire. *)
(*                                                                         *)
(* Every remote call may fail at any time; a call whose context deadline   *)
(* has passed only fails, so its behaviours are among those of the model.  *)
(***************************************************************************)
EXTENDS Naturals, FiniteSets

CONSTANTS
    Calls,       \* calls of Execute
    Questions,   \* their arguments: [tenant, user, query]
    Tenants, Users, Teams, Queries,
    Normal,      \* normalizeQuery, on queries
    Similar,     \* pairs of queries at or above the similarity threshold
    Docs, Doc,   \* documents and their [tenant, owner, teams]
    Members,     \* SpiceDB: tenant -> users with tenant->access
    TopK,        \* chunks a search returns at most
    MaxChanges,  \* bound on the changes of the world
    NoQuestion

ASSUME QuestionsAssumption ==
    Questions \subseteq [tenant : Tenants, user : Users, query : Queries]

ASSUME CacheKeyAssumption ==
    /\ Normal \in [Queries -> Queries]
    /\ Similar \subseteq Queries \X Queries
    /\ \A q \in Queries : <<q, q>> \in Similar

ASSUME WorldAssumption ==
    /\ Doc \in [Docs -> [tenant : Tenants, owner : Users, teams : SUBSET Teams]]
    /\ Members \in [Tenants -> SUBSET Users]
    /\ TopK \in Nat \ {0} /\ MaxChanges \in Nat
    /\ NoQuestion \notin Questions

VARIABLES
    args,      \* arguments of a call
    pc,        \* the stage a call is in
    running,   \* phase 1 goroutines that have not returned
    firstErr,  \* status of the first phase 1 error, 0 if there is none
    userTeams, \* teams phase 1 read from SpiceDB
    hits,      \* documents of the points Qdrant returned
    unchecked, \* those filterAndExtract has not checked yet
    sources,   \* those SpiceDB allowed
    attempt,   \* number of the current draft, 0 before the first
    reply,     \* what the call returned
    exact,     \* entries of the exact cache
    semantic,  \* entries of the semantic cache
    \* the world around the gateway
    indexed,   \* documents with points in Qdrant
    related,   \* documents with relationships in SpiceDB
    teamsOf,   \* team memberships in SpiceDB
    changes,
    \* history
    judged     \* answers the evaluator found grounded

callVars == <<args, pc, running, firstErr, userTeams, hits, unchecked,
              sources, attempt, reply>>
cacheVars == <<exact, semantic>>
worldVars == <<indexed, related, teamsOf, changes>>
vars == <<args, pc, running, firstErr, userTeams, hits, unchecked, sources,
          attempt, reply, exact, semantic, indexed, related, teamsOf,
          changes, judged>>

maxEvalRetries == 2

\* An answer is a draft together with the chunks it was written from.
Answer == [call : Calls, draft : 1 .. maxEvalRetries, sources : SUBSET Docs]
Scope == [tenant : Tenants, teams : SUBSET Teams]
Entry == [scope : Scope, query : Queries, answer : Answer]
Stages == {"idle", "phase1", "semantic", "exact", "search", "filter",
           "draft", "evaluate", "rewrite", "set_exact", "set_semantic",
           "done"}
NoReply == [kind |-> "none"]
Reply == [kind : {"none", "no_documents", "fallback"}]
         \cup [kind : {"error"}, status : {403, 500, 502}]
         \cup [kind : {"answer", "cached"}, answer : Answer]

\* Mutant of ScopeOf: the cache is scoped by tenant only.
TenantScope(c) == [tenant |-> args[c].tenant, teams |-> {}]

\* scopeTag and exactKey: the tenant, which IsValidTenantID keeps to the
\* characters sanitizeTenant preserves, and permissionHash, the SHA-256 of the
\* sorted teams joined by "|" -- one hash per set unless a name holds a "|".
ScopeOf(c) == [tenant |-> args[c].tenant, teams |-> userTeams[c]]
CurrentAnswer(c) ==
    [call |-> c, draft |-> attempt[c], sources |-> sources[c]]

Init ==
    /\ args = [c \in Calls |-> NoQuestion]
    /\ pc = [c \in Calls |-> "idle"]
    /\ running = [c \in Calls |-> {}]
    /\ firstErr = [c \in Calls |-> 0]
    /\ userTeams = [c \in Calls |-> {}]
    /\ hits = [c \in Calls |-> {}]
    /\ unchecked = [c \in Calls |-> {}]
    /\ sources = [c \in Calls |-> {}]
    /\ attempt = [c \in Calls |-> 0]
    /\ reply = [c \in Calls |-> NoReply]
    /\ exact = {} /\ semantic = {} /\ judged = {}
    /\ indexed = {} /\ related = {} /\ changes = 0
    /\ teamsOf \in [Users -> SUBSET Teams]

Goto(c, stage) == pc' = [pc EXCEPT ![c] = stage]
Return(c, r) == Goto(c, "done") /\ reply' = [reply EXCEPT ![c] = r]
Fail(c, status) == Return(c, [kind |-> "error", status |-> status])

-----------------------------------------------------------------------------
(***************************************************************************)
(* Phase 1: embed, authz and route run in an errgroup.                     *)
(***************************************************************************)
Start(c) ==
    /\ pc[c] = "idle"
    /\ \E q \in Questions : args' = [args EXCEPT ![c] = q]
    /\ running' = [running EXCEPT ![c] = {"embed", "authz", "route"}]
    /\ Goto(c, "phase1")
    /\ UNCHANGED <<firstErr, userTeams, hits, unchecked, sources, attempt,
                   reply, cacheVars, worldVars, judged>>

Returned(c, g) ==
    /\ pc[c] = "phase1" /\ g \in running[c]
    /\ running' = [running EXCEPT ![c] = @ \ {g}]
    /\ UNCHANGED <<args, pc, hits, unchecked, sources, attempt, reply,
                   cacheVars, worldVars, judged>>

\* The group keeps the first error; it cancels the other goroutines, whose
\* errors are dropped.
Raises(c, status) ==
    firstErr' = [firstErr EXCEPT ![c] = IF @ = 0 THEN status ELSE @]

Embed(c) ==
    /\ Returned(c, "embed")
    /\ UNCHANGED firstErr \/ Raises(c, 502)
    /\ UNCHANGED userTeams

GetUserTeams(c) ==
    /\ Returned(c, "authz")
    /\ \/ /\ userTeams' = [userTeams EXCEPT ![c] = teamsOf[args[c].user]]
          /\ UNCHANGED firstErr
       \/ Raises(c, 403) /\ UNCHANGED userTeams

\* Classify answers "complex" on any failure and never raises.
Classify(c) == Returned(c, "route") /\ UNCHANGED <<firstErr, userTeams>>

\* Mutant of Wait: an error of the group is never returned.
WaitForSuccess(c) ==
    /\ pc[c] = "phase1" /\ running[c] = {} /\ firstErr[c] = 0
    /\ Goto(c, "semantic")
    /\ UNCHANGED <<args, running, firstErr, userTeams, hits, unchecked,
                   sources, attempt, reply, cacheVars, worldVars, judged>>

Wait(c) ==
    /\ pc[c] = "phase1" /\ running[c] = {}
    /\ \/ firstErr[c] # 0 /\ Fail(c, firstErr[c])
       \/ firstErr[c] = 0 /\ Goto(c, "semantic") /\ UNCHANGED reply
    /\ UNCHANGED <<args, running, firstErr, userTeams, hits, unchecked,
                   sources, attempt, cacheVars, worldVars, judged>>

-----------------------------------------------------------------------------
(***************************************************************************)
(* Phase 2: cache lookup in the scope (tenant, teams of phase 1).          *)
(***************************************************************************)
\* Mutants of Nearest: the scope leaves out the tenant; the nearest entry
\* counts however far it is.
NearestOfAnyTenant(c) ==
    {e \in semantic : /\ e.scope.teams = userTeams[c]
                      /\ <<e.query, args[c].query>> \in Similar}
NearestAtAnyDistance(c) == {e \in semantic : e.scope = ScopeOf(c)}

\* KNN 1 returns a nearest entry of the scope; only entries at or above the
\* threshold count.  An identical query is at distance zero.
Nearest(c) ==
    LET inScope == {e \in semantic : e.scope = ScopeOf(c)}
        same == {e \in inScope : e.query = args[c].query}
    IN IF same # {} THEN same
       ELSE {e \in inScope : <<e.query, args[c].query>> \in Similar}

GetSemantic(c) ==
    /\ pc[c] = "semantic"
    /\ \/ \E e \in Nearest(c) :
              Return(c, [kind |-> "cached", answer |-> e.answer])
       \/ Goto(c, "exact") /\ UNCHANGED reply  \* a miss, or an error
    /\ UNCHANGED <<args, running, firstErr, userTeams, hits, unchecked,
                   sources, attempt, cacheVars, worldVars, judged>>

Key(c) == [scope |-> ScopeOf(c), query |-> Normal[args[c].query]]
HasKey(e, k) == e.scope = k.scope /\ e.query = k.query

GetExact(c) ==
    /\ pc[c] = "exact"
    /\ \/ \E e \in exact :
              /\ HasKey(e, Key(c))
              /\ Return(c, [kind |-> "cached", answer |-> e.answer])
       \/ Goto(c, "search") /\ UNCHANGED reply
    /\ UNCHANGED <<args, running, firstErr, userTeams, hits, unchecked,
                   sources, attempt, cacheVars, worldVars, judged>>

-----------------------------------------------------------------------------
(***************************************************************************)
(* Phase 3: retrieve, verify, draft, judge and cache.                      *)
(***************************************************************************)
\* Mutant of Matches: the search is left to the check that follows it.
MatchesTenant(c, d) == Doc[d].tenant = args[c].tenant

\* buildPermissionFilter: the tenant, and a team or the uploader.
Matches(c, d) ==
    /\ Doc[d].tenant = args[c].tenant
    /\ Doc[d].teams \cap userTeams[c] # {} \/ Doc[d].owner = args[c].user

Search(c) ==
    LET matching == {d \in indexed : Matches(c, d)}
    IN /\ pc[c] = "search"
       /\ \/ Fail(c, 500) /\ UNCHANGED <<hits, unchecked>>
          \/ /\ matching = {}
             /\ Return(c, [kind |-> "no_documents"])
             /\ UNCHANGED <<hits, unchecked>>
          \/ \E found \in (SUBSET matching) \ {{}} :
                 /\ IsFiniteSet(found) /\ Cardinality(found) <= TopK
                 /\ hits' = [hits EXCEPT ![c] = found]
                 /\ unchecked' = [unchecked EXCEPT ![c] = found]
                 /\ Goto(c, "filter")
                 /\ UNCHANGED reply
       /\ UNCHANGED <<args, running, firstErr, userTeams, sources, attempt,
                      cacheVars, worldVars, judged>>

\* The schema's view permission: (owner + viewer) & tenant->access.  A viewer
\* may be a user or a team's members; the gateway only ever writes teams.
CanView(user, d) ==
    /\ d \in related
    /\ user \in Members[Doc[d].tenant]
    /\ user = Doc[d].owner \/ teamsOf[user] \cap Doc[d].teams # {}

\* Mutant of CheckDocumentAccess: an error of SpiceDB allows.
CheckAllowsOnError(c) ==
    /\ pc[c] = "filter"
    /\ \E d \in unchecked[c] :
           /\ unchecked' = [unchecked EXCEPT ![c] = @ \ {d}]
           /\ sources' = [sources EXCEPT ![c] = @ \cup {d}]
    /\ UNCHANGED <<args, pc, running, firstErr, userTeams, hits, attempt,
                   reply, cacheVars, worldVars, judged>>

\* filterAndExtract asks SpiceDB once per document; an error denies.
CheckDocumentAccess(c) ==
    /\ pc[c] = "filter"
    /\ \E d \in unchecked[c] :
           /\ unchecked' = [unchecked EXCEPT ![c] = @ \ {d}]
           /\ \/ /\ CanView(args[c].user, d)
                 /\ sources' = [sources EXCEPT ![c] = @ \cup {d}]
              \/ UNCHANGED sources
    /\ UNCHANGED <<args, pc, running, firstErr, userTeams, hits, attempt,
                   reply, cacheVars, worldVars, judged>>

Filtered(c) ==
    /\ pc[c] = "filter" /\ unchecked[c] = {}
    /\ \/ sources[c] = {} /\ Return(c, [kind |-> "no_documents"])
       \/ sources[c] # {} /\ Goto(c, "draft") /\ UNCHANGED reply
    /\ UNCHANGED <<args, running, firstErr, userTeams, hits, unchecked,
                   sources, attempt, cacheVars, worldVars, judged>>

Draft(c) ==
    /\ pc[c] = "draft"
    /\ \/ Fail(c, 500) /\ UNCHANGED attempt
       \/ /\ attempt' = [attempt EXCEPT ![c] = 1]
          /\ Goto(c, "evaluate") /\ UNCHANGED reply
    /\ UNCHANGED <<args, running, firstErr, userTeams, hits, unchecked,
                   sources, cacheVars, worldVars, judged>>

\* Mutant of Evaluate: a negative verdict asks for a rewrite in every round.
EvaluateWithoutLimit(c) ==
    /\ pc[c] = "evaluate"
    /\ \/ /\ judged' = judged \cup {CurrentAnswer(c)}
          /\ Goto(c, "set_exact") /\ UNCHANGED reply
       \/ Goto(c, "rewrite") /\ UNCHANGED <<reply, judged>>
       \/ Return(c, [kind |-> "fallback"]) /\ UNCHANGED judged
    /\ UNCHANGED <<args, running, firstErr, userTeams, hits, unchecked,
                   sources, attempt, cacheVars, worldVars>>

\* One round of refineUntilGrounded.  An evaluator error, and a negative
\* verdict in the last round, end in the fallback answer.
Evaluate(c) ==
    /\ pc[c] = "evaluate"
    /\ \/ /\ judged' = judged \cup {CurrentAnswer(c)}
          /\ Goto(c, "set_exact") /\ UNCHANGED reply
       \/ /\ attempt[c] < maxEvalRetries
          /\ Goto(c, "rewrite") /\ UNCHANGED <<reply, judged>>
       \/ /\ attempt[c] = maxEvalRetries
          /\ Return(c, [kind |-> "fallback"]) /\ UNCHANGED judged
       \/ Return(c, [kind |-> "fallback"]) /\ UNCHANGED judged
    /\ UNCHANGED <<args, running, firstErr, userTeams, hits, unchecked,
                   sources, attempt, cacheVars, worldVars>>

\* Mutant of Rewrite: the rewritten draft is trusted.
RewriteTrusted(c) ==
    /\ pc[c] = "rewrite"
    /\ attempt' = [attempt EXCEPT ![c] = @ + 1]
    /\ Goto(c, "set_exact")
    /\ UNCHANGED <<args, running, firstErr, userTeams, hits, unchecked,
                   sources, reply, cacheVars, worldVars, judged>>

Rewrite(c) ==
    /\ pc[c] = "rewrite"
    /\ \/ Return(c, [kind |-> "fallback"]) /\ UNCHANGED attempt
       \/ /\ attempt' = [attempt EXCEPT ![c] = @ + 1]
          /\ Goto(c, "evaluate") /\ UNCHANGED reply
    /\ UNCHANGED <<args, running, firstErr, userTeams, hits, unchecked,
                   sources, cacheVars, worldVars, judged>>

\* Best effort: a failing SET (with or without its effect) is only logged.
SetExact(c) ==
    LET e == [scope |-> ScopeOf(c), query |-> Normal[args[c].query],
              answer |-> CurrentAnswer(c)]
    IN /\ pc[c] = "set_exact"
       /\ \/ exact' = {x \in exact : ~HasKey(x, Key(c))} \cup {e}
          \/ UNCHANGED exact
       /\ Goto(c, "set_semantic")
       /\ UNCHANGED <<args, running, firstErr, userTeams, hits, unchecked,
                      sources, attempt, reply, semantic, worldVars, judged>>

\* Mutant of SetSemantic: the teams are read again when the entry is written.
SetSemanticRescoped(c) ==
    LET e == [scope |-> [tenant |-> args[c].tenant,
                         teams |-> teamsOf[args[c].user]],
              query |-> args[c].query, answer |-> CurrentAnswer(c)]
    IN /\ pc[c] = "set_semantic"
       /\ semantic' = semantic \cup {e} \/ UNCHANGED semantic
       /\ Return(c, [kind |-> "answer", answer |-> CurrentAnswer(c)])
       /\ UNCHANGED <<args, running, firstErr, userTeams, hits, unchecked,
                      sources, attempt, exact, worldVars, judged>>

\* HSET under a fresh key; entries accumulate.
SetSemantic(c) ==
    LET e == [scope |-> ScopeOf(c), query |-> args[c].query,
              answer |-> CurrentAnswer(c)]
    IN /\ pc[c] = "set_semantic"
       /\ semantic' = semantic \cup {e} \/ UNCHANGED semantic
       /\ Return(c, [kind |-> "answer", answer |-> CurrentAnswer(c)])
       /\ UNCHANGED <<args, running, firstErr, userTeams, hits, unchecked,
                      sources, attempt, exact, worldVars, judged>>

-----------------------------------------------------------------------------
(***************************************************************************)
(* The world: ingestion indexes documents and the upload handler relates   *)
(* them, in either order; administrators move users between teams; Redis   *)
(* drops entries when their TTL ends.                                      *)
(***************************************************************************)
Change == changes < MaxChanges /\ changes' = changes + 1

Index(d) ==
    /\ Change /\ d \notin indexed
    /\ indexed' = indexed \cup {d}
    /\ UNCHANGED <<callVars, cacheVars, related, teamsOf, judged>>

Relate(d) ==
    /\ Change /\ d \notin related
    /\ related' = related \cup {d}
    /\ UNCHANGED <<callVars, cacheVars, indexed, teamsOf, judged>>

ChangeTeams(user) ==
    /\ Change
    /\ \E teams \in SUBSET Teams :
           /\ teams # teamsOf[user]
           /\ teamsOf' = [teamsOf EXCEPT ![user] = teams]
    /\ UNCHANGED <<callVars, cacheVars, indexed, related, judged>>

Expire ==
    /\ \/ \E e \in exact : exact' = exact \ {e} /\ UNCHANGED semantic
       \/ \E e \in semantic : semantic' = semantic \ {e} /\ UNCHANGED exact
    /\ UNCHANGED <<callVars, worldVars, judged>>

Step(c) ==
    \/ Embed(c) \/ GetUserTeams(c) \/ Classify(c) \/ Wait(c)
    \/ GetSemantic(c) \/ GetExact(c)
    \/ Search(c) \/ CheckDocumentAccess(c) \/ Filtered(c)
    \/ Draft(c) \/ Evaluate(c) \/ Rewrite(c)
    \/ SetExact(c) \/ SetSemantic(c)

World ==
    \/ \E d \in Docs : Index(d) \/ Relate(d)
    \/ \E user \in Users : ChangeTeams(user)
    \/ Expire

Next == (\E c \in Calls : Start(c) \/ Step(c)) \/ World

Spec == Init /\ [][Next]_vars

\* The handler's 30 s context bounds every remote call of a started call.
FairSpec == Spec /\ \A c \in Calls : WF_vars(Step(c))

-----------------------------------------------------------------------------
TypeOK ==
    /\ args \in [Calls -> Questions \cup {NoQuestion}]
    /\ pc \in [Calls -> Stages]
    /\ \A c \in Calls : pc[c] # "idle" => args[c] \in Questions
    /\ running \in [Calls -> SUBSET {"embed", "authz", "route"}]
    /\ firstErr \in [Calls -> {0, 403, 502}]
    /\ userTeams \in [Calls -> SUBSET Teams]
    /\ hits \in [Calls -> SUBSET Docs]
    /\ unchecked \in [Calls -> SUBSET Docs]
    /\ sources \in [Calls -> SUBSET Docs]
    /\ attempt \in [Calls -> 0 .. maxEvalRetries]
    /\ reply \in [Calls -> Reply]
    /\ exact \subseteq Entry /\ semantic \subseteq Entry
    /\ indexed \subseteq Docs /\ related \subseteq Docs
    /\ teamsOf \in [Users -> SUBSET Teams]
    /\ changes \in 0 .. MaxChanges
    /\ judged \subseteq Answer

Answered(c) == reply[c].kind \in {"answer", "cached"}

(***************************************************************************)
(* Self-reflection: every answer returned as grounded, fresh or cached,    *)
(* and every cached entry is the very draft, over the very chunks, that    *)
(* the evaluator accepted -- not the draft before its rewrite.             *)
(***************************************************************************)
OnlyJudgedAnswers ==
    /\ \A c \in Calls : Answered(c) => reply[c].answer \in judged
    /\ \A e \in exact \cup semantic : e.answer \in judged

(***************************************************************************)
(* Tenant isolation across the cache: whatever call wrote an answer, its   *)
(* chunks are of the tenant of every call that receives it.                *)
(***************************************************************************)
TenantIsolation ==
    \A c \in Calls : Answered(c) =>
        \A d \in reply[c].answer.sources : Doc[d].tenant = args[c].tenant

(***************************************************************************)
(* Permission-aware cache: a cached answer goes only to calls that read    *)
(* the same team set as the call that wrote it, although memberships       *)
(* change between the two.                                                 *)
(***************************************************************************)
CachedForSameTeams ==
    \A c \in Calls : reply[c].kind = "cached" =>
        LET writer == reply[c].answer.call
        IN /\ userTeams[writer] = userTeams[c]
           /\ args[writer].tenant = args[c].tenant

(***************************************************************************)
(* Defence in depth: the upload handler publishes a document before it     *)
(* writes its relationships, so a document may be searchable before them.  *)
(* Its chunks reach no answer until SpiceDB knows the document.            *)
(***************************************************************************)
SourcesRegistered ==
    \A c \in Calls : Answered(c) => reply[c].answer.sources \subseteq related

(***************************************************************************)
(* A cached answer was written for a query that means the same to the      *)
(* cache: a similar one, or one with the same normal form.                 *)
(***************************************************************************)
CachedForSameQuery ==
    \A c \in Calls : reply[c].kind = "cached" =>
        LET asked == args[c].query
            written == args[reply[c].answer.call].query
        IN <<written, asked>> \in Similar \/ Normal[written] = Normal[asked]

(***************************************************************************)
(* What a shared answer may reveal: whoever receives it, each document it  *)
(* was written from is shared with a team that phase 1 read for the        *)
(* receiver, or is the writer's own; and the writer may enter the tenant.  *)
(* A call never receives more than its team set and one colleague's files. *)
(***************************************************************************)
SourcesEntitled ==
    \A c \in Calls : Answered(c) =>
        LET writer == args[reply[c].answer.call].user
        IN \A d \in reply[c].answer.sources :
               /\ writer \in Members[Doc[d].tenant]
               /\ \/ Doc[d].teams \cap userTeams[c] # {}
                  \/ Doc[d].owner = writer

(***************************************************************************)
(* No call loops.  StepsLeft bounds the steps a call can still take by the *)
(* stages ahead, the goroutines to join, the documents to check and the    *)
(* rounds of self-reflection: a step of the call lowers it, and no other   *)
(* call and no change of the world raises it.                              *)
(***************************************************************************)
StepsLeft(c) ==
    CASE pc[c] = "idle" -> 15 + TopK
      [] pc[c] = "phase1" -> 11 + TopK + Cardinality(running[c])
      [] pc[c] = "semantic" -> 10 + TopK
      [] pc[c] = "exact" -> 9 + TopK
      [] pc[c] = "search" -> 8 + TopK
      [] pc[c] = "filter" -> 7 + Cardinality(unchecked[c])
      [] pc[c] = "draft" -> 6
      [] pc[c] = "evaluate" -> 3 + 2 * (maxEvalRetries - attempt[c])
      [] pc[c] = "rewrite" -> 2 + 2 * (maxEvalRetries - attempt[c])
      [] pc[c] = "set_exact" -> 2
      [] pc[c] = "set_semantic" -> 1
      [] pc[c] = "done" -> 0

Local(c) ==
    <<args[c], pc[c], running[c], firstErr[c], userTeams[c], hits[c],
      unchecked[c], sources[c], attempt[c], reply[c]>>

CallsBounded ==
    [][\A c \in Calls :
           \/ UNCHANGED Local(c)
           \/ StepsLeft(c)' \in Nat /\ StepsLeft(c)' < StepsLeft(c)]_vars

(***************************************************************************)
(* Every call of Execute that started returns a result or an error.        *)
(***************************************************************************)
EveryCallReturns == \A c \in Calls : (pc[c] # "idle") ~> (pc[c] = "done")

(***************************************************************************)
(* The pipeline implements AnswerService.  The scope of a call is known    *)
(* when phase 1 ended without error; memory is what the caches hold.       *)
(***************************************************************************)
ScopeKnown(c) == pc[c] \notin {"idle", "phase1"} /\ firstErr[c] = 0

KnownScope ==
    [c \in Calls |-> IF ScopeKnown(c) THEN ScopeOf(c) ELSE NoReply]

Memory ==
    {[scope |-> e.scope, answer |-> e.answer] : e \in exact \cup semantic}

Given ==
    [c \in Calls |->
        IF Answered(c) THEN [grounded |-> TRUE, answer |-> reply[c].answer]
        ELSE IF reply[c] = NoReply THEN NoReply
        ELSE [grounded |-> FALSE]]

Service ==
    INSTANCE AnswerService WITH
        Scopes <- Scope, None <- NoReply, scope <- KnownScope,
        vetted <- judged, memory <- Memory, given <- Given

ImplementsAnswerService == Service!Spec

-----------------------------------------------------------------------------
(***************************************************************************)
(* What the documentation says and the code does not do.                   *)
(***************************************************************************)

(* docs/api-usage.md:142: "the same query from users with different        *)
(* permissions will NOT share cache entries" -- whoever gets a cached      *)
(* answer may view the documents it was written from.                      *)
CachedSourcesViewable ==
    \A c \in Calls : reply[c].kind = "cached" =>
        \A d \in reply[c].answer.sources :
            CanView(args[c].user, d)

=============================================================================
