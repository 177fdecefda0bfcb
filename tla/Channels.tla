------------------------------ MODULE Channels ------------------------------
(***************************************************************************)
(* The channels in front of the query pipeline: the WhatsApp webhook and   *)
(* the web chat of the portaria service, and the endpoint of the legal     *)
(* service.  Each request is handled by a goroutine of its own; the        *)
(* pipeline is what AnswerService promises.  Contexts have no deadline and *)
(* the gateway may crash.                                                  *)
(*                                                                         *)
(* The messages of a delivery are those of all its entries and changes, in *)
(* order.  A message names the line it came in on: the phone_number_id     *)
(* when it is a WhatsApp message, else the tenant of the header or body.   *)
(***************************************************************************)
EXTENDS Naturals, Sequences, Citations

CONSTANTS
    Handlers,        \* goroutines that handle a request
    Requests,        \* requests that may arrive
    MaxMessages,     \* messages in one request
    MaxCrashes,      \* bound on crashes of the gateway
    Lines, People, Tenants, Teams,
    TenantOf,        \* line -> tenant; NoTenant for an unknown phone and on the
                     \* web for an invalid id (the phone map is not validated)
    Chunks, OwnerOf, \* chunks and their tenants
    Text,            \* the references in the text of a chunk
    Phrases,         \* sets of references an answer may contain
    StrictCitation,  \* LEGAL_STRICT_CITATION
    None, NoTenant, Nobody

Message == [line : Lines, from : People \cup {Nobody},
            text : {"none", "blank", "emergency", "question"}]
Request == [route : {"whatsapp", "chat", "legal"},
            body : {"forged", "garbled", "proper"},
            messages : UNION {[1 .. n -> Message] : n \in 0 .. MaxMessages}]

ASSUME RequestsAssumption ==
    /\ Requests \subseteq Request
    /\ \A r \in Requests : r.route # "whatsapp" => Len(r.messages) = 1
    /\ TenantOf \in [Lines -> Tenants \cup {NoTenant}]
    /\ NoTenant \notin Tenants /\ Nobody \notin People
    /\ None \notin Requests

ASSUME BoundsAssumption == MaxMessages \in Nat /\ MaxCrashes \in Nat

ASSUME TextAssumption ==
    /\ Text \in [Chunks -> SUBSET Mention]
    /\ OwnerOf \in [Chunks -> Tenants]
    /\ Phrases \subseteq SUBSET Mention
    /\ StrictCitation \in BOOLEAN

VARIABLES
    scope, vetted, memory, given, \* the pipeline, see AnswerService
    request,  \* what a handler was called with
    stage,    \* where it is
    at,       \* the message it has reached
    reply,    \* the reply to that message, with the error returned beside it
    status,   \* the HTTP status it answered, 0 before
    acked,    \* deliveries the platform saw acknowledged
    sends,    \* attempts to send a reply, successful or not
    crashes

pipelineVars == <<scope, vetted, memory, given>>
handlerVars == <<request, stage, at, reply, status>>
vars == <<pipelineVars, handlerVars, acked, sends, crashes>>

Calls == Handlers \X (1 .. MaxMessages)
Scope == [tenant : Tenants, teams : SUBSET Teams]
Answer == [call : Calls, sources : SUBSET Chunks, phrases : Phrases]

Pipeline == INSTANCE AnswerService WITH Scopes <- Scope

CallOf(h) == <<h, at[h]>>
MessageOf(h) == request[h].messages[at[h]]

\* Mutant of TenantFor: the tenant is resolved once per delivery.
TenantOfFirst(h) == TenantOf[request[h].messages[1].line]
TenantFor(h) == TenantOf[MessageOf(h).line]

Init ==
    /\ Pipeline!Init
    /\ request = [h \in Handlers |-> None]
    /\ stage = [h \in Handlers |-> "idle"]
    /\ at = [h \in Handlers |-> 1]
    /\ reply = [h \in Handlers |-> None]
    /\ status = [h \in Handlers |-> 0]
    /\ acked = {} /\ sends = {} /\ crashes = 0

Goto(h, s) == stage' = [stage EXCEPT ![h] = s]
Respond(h, code) == Goto(h, "done") /\ status' = [status EXCEPT ![h] = code]
Compose(h, r) == reply' = [reply EXCEPT ![h] = r]

-----------------------------------------------------------------------------
(***************************************************************************)
(* Requests arrive.  The platform delivers again what it has not seen      *)
(* acknowledged, also while an earlier delivery is still being handled.    *)
(***************************************************************************)
Arrive(h) ==
    /\ stage[h] = "idle"
    /\ \E r \in Requests \ acked :
           /\ request' = [request EXCEPT ![h] = r]
           /\ \/ r.body = "forged" /\ Respond(h, 401)
              \/ r.body = "garbled" /\ Respond(h, 400)
              \/ r.body = "proper" /\ Goto(h, "reading") /\ UNCHANGED status
    /\ UNCHANGED <<pipelineVars, at, reply, acked, sends, crashes>>

Reading(h) == stage[h] = "reading" /\ at[h] <= Len(request[h].messages)
Route(h) == request[h].route

\* Chat and Query require a tenant, a user and a text.
Invalid(h) ==
    /\ Reading(h) /\ Route(h) # "whatsapp"
    /\ \/ TenantFor(h) = NoTenant \/ MessageOf(h).from = Nobody
       \/ MessageOf(h).text = "none"
    /\ Respond(h, 400)
    /\ UNCHANGED <<pipelineVars, request, at, reply, acked, sends, crashes>>

\* Mutant of Skip: the nil reply of HandleMessage is not returned upon.
SkipToReply(h) ==
    /\ Reading(h) /\ Route(h) = "whatsapp"
    /\ \/ TenantFor(h) = NoTenant \/ MessageOf(h).from = Nobody
       \/ MessageOf(h).text = "none"
    /\ Goto(h, "replying")
    /\ UNCHANGED <<pipelineVars, request, at, reply, status, acked, sends,
                   crashes>>

\* The webhook passes over unknown phones, messages without text, and those
\* HandleMessage has no reply to because they lack a sender.
Skip(h) ==
    /\ Reading(h) /\ Route(h) = "whatsapp"
    /\ \/ TenantFor(h) = NoTenant \/ MessageOf(h).from = Nobody
       \/ MessageOf(h).text = "none"
    /\ at' = [at EXCEPT ![h] = @ + 1]
    /\ UNCHANGED <<pipelineVars, request, stage, reply, status, acked, sends,
                   crashes>>

Usable(h) ==
    /\ Reading(h)
    /\ TenantFor(h) # NoTenant /\ MessageOf(h).from # Nobody
    /\ MessageOf(h).text # "none"

-----------------------------------------------------------------------------
(***************************************************************************)
(* portaria.HandleMessage and legal.HandleQuery, up to Execute.            *)
(***************************************************************************)
TextReply(kind, text, err) == [kind |-> kind, text |-> text, err |-> err]

Canned(h, kind, text) ==
    /\ Compose(h, TextReply(kind, text, FALSE))
    /\ Goto(h, "replying")
    /\ UNCHANGED <<pipelineVars, request, at, status, acked, sends, crashes>>

Greet(h) ==
    /\ Usable(h) /\ Route(h) # "legal" /\ MessageOf(h).text = "blank"
    /\ Canned(h, "noop", "greeting")

Alarm(h) ==
    /\ Usable(h) /\ Route(h) # "legal" /\ MessageOf(h).text = "emergency"
    /\ Canned(h, "human", "emergency")

\* A blank query passes Query's own check and has no reply.
RejectBlank(h) ==
    /\ Usable(h) /\ Route(h) = "legal" /\ MessageOf(h).text = "blank"
    /\ Respond(h, 500)
    /\ UNCHANGED <<pipelineVars, request, at, reply, acked, sends, crashes>>

\* Mutant of Ask: emergencies reach the pipeline on every channel.
AskEmergencies(h) ==
    /\ Usable(h) /\ MessageOf(h).text \in {"question", "emergency"}
    /\ Goto(h, "waiting")
    /\ UNCHANGED <<pipelineVars, request, at, reply, status, acked, sends,
                   crashes>>

Ask(h) ==
    /\ Usable(h)
    /\ MessageOf(h).text \in {"question"} \cup
           (IF Route(h) = "legal" THEN {"emergency"} ELSE {})
    /\ Goto(h, "waiting")
    /\ UNCHANGED <<pipelineVars, request, at, reply, status, acked, sends,
                   crashes>>

-----------------------------------------------------------------------------
(***************************************************************************)
(* Execute: steps of the pipeline for the message a handler waits for, as  *)
(* AnswerService allows them.  Two things are known besides from           *)
(* Orchestrator: a scope has the caller's tenant, and answers are written  *)
(* from chunks of the tenant of their scope (its TenantIsolation).         *)
(***************************************************************************)
Execute(h) ==
    LET c == CallOf(h)
    IN /\ stage[h] = "waiting" /\ given[c] = None
       /\ \/ \E s \in Scope : /\ s.tenant = TenantFor(h)
                              /\ scope' = [scope EXCEPT ![c] = s]
                              /\ Pipeline!Begin(c)
          \/ /\ scope[c] # None /\ \A a \in vetted : a.call # c
             /\ \E chunks \in (SUBSET Chunks) \ {{}}, p \in Phrases :
                    /\ \A k \in chunks : OwnerOf[k] = scope[c].tenant
                    /\ vetted' = vetted \cup
                           {[call |-> c, sources |-> chunks, phrases |-> p]}
             /\ Pipeline!Vet(c)
          \/ \E a \in vetted :
                 /\ a.call = c
                 /\ memory' = memory \cup {[scope |-> scope[c], answer |-> a]}
                 /\ Pipeline!Remember(c)
          \/ memory' = memory /\ Pipeline!Answer(c)
          \/ Pipeline!Recall(c)
          \/ Pipeline!Apologise(c)
       /\ UNCHANGED <<handlerVars, acked, sends, crashes>>

Forget ==
    /\ \E m \in memory : memory' = memory \ {m}
    /\ Pipeline!Forget
    /\ UNCHANGED <<handlerVars, acked, sends, crashes>>

-----------------------------------------------------------------------------
(***************************************************************************)
(* The reply to what Execute returned: after an error and for a result     *)
(* that is not grounded a fallback -- which on the portaria's channels, as *)
(* in an emergency, points to a person -- else the answer, on the legal    *)
(* endpoint once its citations were verified.                              *)
(***************************************************************************)
FallbackReply(h, err) ==
    TextReply(IF Route(h) # "legal" THEN "human"
              ELSE IF err THEN "orchestrator_error" ELSE "ungrounded",
              "fallback", err)

Answered(kind, a) == [kind |-> kind, answer |-> a, err |-> FALSE]

PortariaReply(a) == Answered("llm", a)

Entities(a) == UNION {ExtractEntities(Text[k]) : k \in a.sources}
Unverified(a) == VerifyCitations(ExtractCitations(a.phrases), Entities(a))

Withheld == TextReply("unverified_citations", "fallback", FALSE)

\* Mutant of LegalReply: answers from the cache were verified when written.
LegalReplyTrusting(h, a) ==
    IF a.call # CallOf(h) \/ Unverified(a) = {}
    THEN Answered("grounded", a) ELSE Withheld

LegalReply(h, a) ==
    IF a.sources = {} THEN Answered("no_context", a)
    ELSE IF Unverified(a) = {} THEN Answered("grounded", a)
    ELSE IF StrictCitation THEN Withheld
    ELSE Answered("unverified_citations", a)

Returned(h) ==
    LET g == given[CallOf(h)]
    IN /\ stage[h] = "waiting" /\ g # None
       /\ \/ /\ g.grounded
             /\ Compose(h, IF Route(h) = "legal" THEN LegalReply(h, g.answer)
                           ELSE PortariaReply(g.answer))
          \/ /\ ~g.grounded
             /\ \E err \in BOOLEAN : Compose(h, FallbackReply(h, err))
       /\ Goto(h, "replying")
       /\ UNCHANGED <<pipelineVars, request, at, status, acked, sends,
                      crashes>>

\* SendText; when it fails that is logged, and the next message is taken up.
SendText(h) ==
    /\ stage[h] = "replying" /\ Route(h) = "whatsapp"
    /\ sends' = sends \cup
           {[handler |-> h, at |-> at[h], line |-> MessageOf(h).line,
             reply |-> reply[h]]}
    /\ at' = [at EXCEPT ![h] = @ + 1]
    /\ Goto(h, "reading")
    /\ UNCHANGED <<pipelineVars, request, reply, status, acked, crashes>>

\* The web channels answer with the reply, with status 502 after an error.
Show(h) ==
    /\ stage[h] = "replying" /\ Route(h) # "whatsapp"
    /\ Respond(h, IF reply[h].err THEN 502 ELSE 200)
    /\ UNCHANGED <<pipelineVars, request, at, reply, acked, sends, crashes>>

\* Mutant of Ack: the webhook answers before it handles the messages.
AckFirst(h) ==
    /\ stage[h] = "reading" /\ Route(h) = "whatsapp" /\ status[h] = 0
    /\ status' = [status EXCEPT ![h] = 200]
    /\ acked' = acked \cup {request[h]}
    /\ UNCHANGED <<pipelineVars, request, stage, at, reply, sends, crashes>>

\* All messages handled: 200, which the platform may not wait for.
Ack(h) ==
    /\ stage[h] = "reading" /\ Route(h) = "whatsapp"
    /\ at[h] > Len(request[h].messages)
    /\ Respond(h, 200)
    /\ acked' \in {acked, acked \cup {request[h]}}
    /\ UNCHANGED <<pipelineVars, request, at, reply, sends, crashes>>

Crash ==
    /\ crashes < MaxCrashes /\ crashes' = crashes + 1
    /\ stage' = [h \in Handlers |->
                    IF stage[h] = "idle" THEN "idle" ELSE "done"]
    /\ UNCHANGED <<pipelineVars, request, at, reply, status, acked, sends>>

Step(h) ==
    \/ Invalid(h) \/ Skip(h) \/ Greet(h) \/ Alarm(h) \/ RejectBlank(h)
    \/ Ask(h) \/ Execute(h) \/ Returned(h) \/ SendText(h) \/ Show(h) \/ Ack(h)

Next == (\E h \in Handlers : Arrive(h) \/ Step(h)) \/ Forget \/ Crash

Spec == Init /\ [][Next]_vars

-----------------------------------------------------------------------------
Reply == [kind : {"noop", "human", "orchestrator_error", "ungrounded",
                  "unverified_citations"},
          text : {"greeting", "emergency", "fallback"}, err : BOOLEAN]
         \cup [kind : {"llm", "grounded", "no_context",
                       "unverified_citations"},
               answer : Answer, err : {FALSE}]

TypeOK ==
    /\ scope \in [Calls -> Scope \cup {None}]
    /\ vetted \subseteq Answer
    /\ memory \subseteq [scope : Scope, answer : Answer]
    /\ request \in [Handlers -> Requests \cup {None}]
    /\ stage \in [Handlers -> {"idle", "reading", "waiting", "replying",
                               "done"}]
    /\ at \in [Handlers -> Nat \ {0}]
    /\ \A h \in Handlers : stage[h] \in {"waiting", "replying"} =>
                              at[h] \in 1 .. Len(request[h].messages)
    /\ reply \in [Handlers -> Reply \cup {None}]
    /\ status \in [Handlers -> {0, 200, 400, 401, 500, 502}]
    /\ acked \subseteq Requests
    /\ sends \subseteq [handler : Handlers, at : 1 .. MaxMessages,
                        line : Lines, reply : Reply]
    /\ crashes \in 0 .. MaxCrashes

Concerns(m) ==
    TenantOf[m.line] # NoTenant /\ m.from # Nobody /\ m.text # "none"

(***************************************************************************)
(* A delivery that the platform saw acknowledged, and so never repeats,    *)
(* was worked off: a reply was attempted to every message in it that       *)
(* concerns the portaria, whatever crashed in between and although one     *)
(* delivery may be handled by several goroutines at once.  The attempt may *)
(* have failed: that is logged, and nothing tries again.                   *)
(***************************************************************************)
AckedAttempted ==
    \A r \in acked : \A i \in DOMAIN r.messages :
        Concerns(r.messages[i]) =>
            \E s \in sends : request[s.handler] = r /\ s.at = i

(***************************************************************************)
(* One condominium, one phone number, one tenant: an answer given on a     *)
(* line -- the tenant's own or one another channel left in the cache, in   *)
(* a delivery that mixes lines -- was written from that tenant's chunks.   *)
(***************************************************************************)
FromTenant(r, line) ==
    "answer" \in DOMAIN r =>
        \A k \in r.answer.sources : OwnerOf[k] = TenantOf[line]

LinesApart ==
    /\ \A s \in sends : FromTenant(s.reply, s.line)
    /\ \A h \in Handlers : reply[h] # None /\ Route(h) # "whatsapp" =>
           FromTenant(reply[h], MessageOf(h).line)

(***************************************************************************)
(* Citation verification, as far as its patterns see: in strict mode every *)
(* reference of a form they know, in an answer of the legal service, is    *)
(* one of the same category and number that a source of the answer makes,  *)
(* with the letter o after the number in both or in neither -- also when   *)
(* the answer came from the cache, where the other channels leave answers  *)
(* nobody verified.  Qualifiers ("Complementar"), letters ("150-A") and    *)
(* ordinal signs are not compared, and other forms are not looked at.      *)
(***************************************************************************)
SameNumber(x, m) ==
    /\ x.kind = m.kind /\ x.number = m.number
    /\ x.ordinal = "o" <=> m.ordinal = "o"

SaidBySources(m, a) ==
    \E k \in a.sources : \E x \in Text[k] : SameNumber(x, m)

CitationsInSources ==
    \A h \in Handlers :
        /\ reply[h] # None /\ Route(h) = "legal"
        /\ "answer" \in DOMAIN reply[h]
        /\ StrictCitation \/ reply[h].kind = "grounded"
        => \A m \in reply[h].answer.phrases :
               Seen(m) => SaidBySources(m, reply[h].answer)

(***************************************************************************)
(* Verification rejects no more than it must: an answer is not replied to  *)
(* as having citations nobody could verify when each of its references     *)
(* that the patterns see has a counterpart in one of its sources: of the   *)
(* same category and number, with the letter o after it in both or in      *)
(* neither, which the worker recognises and no other punctuation than a    *)
(* full stop follows.  Whether the answer itself has the mark "n", a       *)
(* letter, an ordinal sign or punctuation makes no difference.             *)
(***************************************************************************)
PlainlySaid(m, a) ==
    \E k \in a.sources : \E x \in Text[k] :
        SameNumber(x, m) /\ Recognised(x) /\ x.tail # "-"

PlainlySaidAccepted ==
    \A h \in Handlers :
        LET g == given[CallOf(h)]
        IN /\ stage[h] = "replying" /\ Route(h) = "legal"
           /\ g.grounded
           /\ \A m \in g.answer.phrases : Seen(m) => PlainlySaid(m, g.answer)
           => reply[h].kind # "unverified_citations"

(***************************************************************************)
(* Of the messages of a delivery each gets the reply that is its own,      *)
(* whichever precede it and however many handlers have the delivery: the   *)
(* emergency text and only an emergency, the greeting and only a blank     *)
(* message, and a question the very answer the pipeline gave to the call   *)
(* made for it, or the fallback when that call ended without one.          *)
(***************************************************************************)
HasText(r, text) == "text" \in DOMAIN r /\ r.text = text
HasAnswer(r, a) == "answer" \in DOMAIN r /\ r.answer = a

ReplyFits(r, m, g) ==
    /\ HasText(r, "emergency") <=> m.text = "emergency"
    /\ HasText(r, "greeting") <=> m.text = "blank"
    /\ m.text = "question" =>
           /\ g # None
           /\ IF g.grounded THEN HasAnswer(r, g.answer)
              ELSE HasText(r, "fallback")

RepliesFitMessages ==
    \A s \in sends :
        ReplyFits(s.reply, request[s.handler].messages[s.at],
                  given[<<s.handler, s.at>>])

-----------------------------------------------------------------------------
(***************************************************************************)
(* What comments say and the code does not do.                             *)
(***************************************************************************)

(* citations.go:8: "These patterns MUST stay in sync" with those of the    *)
(* worker -- an answer that makes only references its sources make, word   *)
(* for word, is not rejected as citing what they do not say.               *)
VerbatimAccepted ==
    \A h \in Handlers :
        LET g == given[CallOf(h)]
        IN /\ stage[h] = "replying" /\ Route(h) = "legal"
           /\ g.grounded
           /\ g.answer.phrases \subseteq
                  UNION {Text[k] : k \in g.answer.sources}
           => reply[h].kind # "unverified_citations"

=============================================================================
