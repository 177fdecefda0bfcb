--------------------------- MODULE Channels_proofs ---------------------------
(***************************************************************************)
(* Proofs about the channels in front of the query pipeline.               *)
(***************************************************************************)
EXTENDS Channels, SequenceTheorems, TLAPS

(***************************************************************************)
(* A handler past its arrival has a request, which is fixed from then on;  *)
(* while it waits for or gives a reply it is at a message that concerns    *)
(* the tenant.                                                             *)
(***************************************************************************)
Walk(h) ==
    /\ stage[h] = "idle" => at[h] = 1 /\ reply[h] = None
    /\ stage[h] # "idle" => request[h] \in Requests
    /\ stage[h] \in {"waiting", "replying"} => Concerns(MessageOf(h))
    /\ stage[h] = "replying" => reply[h] \in Reply
    /\ at[h] # 1 => Route(h) = "whatsapp"
Walks == \A h \in Handlers : Walk(h)

Given == [grounded : {FALSE}] \cup [grounded : {TRUE}, answer : Answer]
GivenOK == given \in [Calls -> Given \cup {None}]

TypeInv == TypeOK /\ GivenOK /\ Walks

(***************************************************************************)
(* The pipeline answers a message from chunks of the tenant of its line:   *)
(* a scope is that of the message, a vetted answer is written from chunks  *)
(* of its scope, and memory gives it to calls of that scope only.          *)
(***************************************************************************)
Own(a, s) == \A k \in a.sources : OwnerOf[k] = s.tenant

ScopesFit ==
    \A h \in Handlers : \A i \in 1 .. MaxMessages :
        scope[<<h, i>>] # None =>
            /\ stage[h] # "idle"
            /\ scope[<<h, i>>].tenant = TenantOf[request[h].messages[i].line]

VettedOwn ==
    \A a \in vetted : /\ scope[a.call] # None /\ Own(a, scope[a.call])
                      /\ a.sources # {}
MemoryOwn ==
    \A m \in memory : m.scope # None /\ m.answer \in vetted /\ Own(m.answer, m.scope)
GivenOwn ==
    \A c \in Calls : given[c] # None /\ given[c].grounded =>
        /\ scope[c] # None /\ given[c].answer \in vetted
        /\ Own(given[c].answer, scope[c])

PipelineInv == ScopesFit /\ VettedOwn /\ MemoryOwn /\ GivenOwn

\* What a handler is about to send, or showed, is of its message's tenant.
RepliesOwn ==
    \A h \in Handlers :
        stage[h] = "replying" \/ (reply[h] # None /\ Route(h) # "whatsapp") =>
            FromTenant(reply[h], MessageOf(h).line)
SendsOwn == \A s \in sends : FromTenant(s.reply, s.line)

\* A webhook handler attempted a reply to every message it has left behind.
LeftAnswered ==
    \A h \in Handlers : stage[h] # "idle" =>
        \A i \in 1 .. Len(request[h].messages) :
            i < at[h] /\ Concerns(request[h].messages[i]) =>
                \E s \in sends : s.handler = h /\ s.at = i
SendersBusy == \A s \in sends : stage[s.handler] # "idle"

\* On the portaria's channels only questions wait for the pipeline, and the
\* reply a handler has at hand is one for the message it is at.
WaitingAsks ==
    \A h \in Handlers : stage[h] = "waiting" /\ Route(h) # "legal" =>
                            MessageOf(h).text = "question"
ReplyingFits ==
    \A h \in Handlers : stage[h] = "replying" /\ Route(h) # "legal" =>
                            ReplyFits(reply[h], MessageOf(h), given[CallOf(h)])

ChannelInv == /\ PipelineInv /\ RepliesOwn /\ SendsOwn
              /\ LeftAnswered /\ SendersBusy /\ AckedAttempted
              /\ CitationsInSources /\ PlainlySaidAccepted
              /\ WaitingAsks /\ ReplyingFits /\ RepliesFitMessages

-----------------------------------------------------------------------------
(***************************************************************************)
(* Types.                                                                  *)
(***************************************************************************)
\* The messages of a request are a sequence of at most MaxMessages messages.
LEMMA MessagesType ==
    ASSUME NEW r \in Requests
    PROVE  /\ r.route \in {"whatsapp", "chat", "legal"}
           /\ r.messages \in Seq(Message)
           /\ Len(r.messages) \in 0 .. MaxMessages
           /\ DOMAIN r.messages = 1 .. Len(r.messages)
           /\ r.route # "whatsapp" => Len(r.messages) = 1
<1>1. r \in Request
    BY RequestsAssumption
<1>2. PICK n \in 0 .. MaxMessages : r.messages \in [1 .. n -> Message]
    BY <1>1 DEF Request
<1>3. n \in Nat
    BY <1>2, BoundsAssumption
<1>4. r.messages \in Seq(Message)
    BY <1>2, <1>3, SeqDef
<1>5. DOMAIN r.messages = 1 .. Len(r.messages) /\ Len(r.messages) \in Nat
    BY <1>4, LenProperties
<1>6. Len(r.messages) = n
    BY <1>2, <1>3, <1>5
<1> QED BY <1>1, <1>2, <1>4, <1>5, <1>6, RequestsAssumption DEF Request

LEMMA MessageType ==
    ASSUME NEW m \in Message
    PROVE  /\ m.line \in Lines /\ m.from \in People \cup {Nobody}
           /\ TenantOf[m.line] \in Tenants \cup {NoTenant}
BY RequestsAssumption DEF Message

\* The message a handler waits or replies for.
LEMMA Current ==
    ASSUME TypeInv, NEW h \in Handlers, stage[h] \in {"waiting", "replying"}
    PROVE  /\ request[h] \in Requests
           /\ at[h] \in 1 .. MaxMessages /\ at[h] \in 1 .. Len(request[h].messages)
           /\ MessageOf(h) \in Message /\ Concerns(MessageOf(h))
           /\ CallOf(h) \in Calls /\ CallOf(h) = <<h, at[h]>>
<1>1. /\ request[h] \in Requests /\ at[h] \in 1 .. Len(request[h].messages)
      /\ Concerns(MessageOf(h))
    BY DEF TypeInv, TypeOK, Walks, Walk
<1>2. at[h] \in 1 .. MaxMessages
    BY <1>1, MessagesType, BoundsAssumption
<1>3. MessageOf(h) \in Message
    BY <1>1, MessagesType DEF MessageOf
<1> QED BY <1>1, <1>2, <1>3 DEF CallOf, Calls

\* A message that is read in turn and that the handler may answer.
LEMMA Readable ==
    ASSUME TypeInv, NEW h \in Handlers, Reading(h)
    PROVE  /\ request[h] \in Requests
           /\ at[h] \in 1 .. Len(request[h].messages)
           /\ MessageOf(h) \in Message
           /\ Usable(h) <=> Concerns(MessageOf(h))
<1>1. request[h] \in Requests /\ at[h] \in Nat \ {0}
    BY DEF TypeInv, TypeOK, Walks, Walk, Reading
<1>2. Len(request[h].messages) \in Nat /\ request[h].messages \in Seq(Message)
    BY <1>1, MessagesType, BoundsAssumption
<1>3. at[h] \in 1 .. Len(request[h].messages)
    BY <1>1, <1>2 DEF Reading
<1>4. MessageOf(h) \in Message
    BY <1>2, <1>3 DEF MessageOf
<1>5. Usable(h) <=> Concerns(MessageOf(h))
    BY DEF Usable, Concerns, TenantFor
<1> QED BY <1>1, <1>3, <1>4, <1>5

\* Replies are of their type.
LEMMA CannedType ==
    ASSUME NEW kind \in {"noop", "human", "orchestrator_error", "ungrounded",
                         "unverified_citations"},
           NEW text \in {"greeting", "emergency", "fallback"},
           NEW err \in BOOLEAN
    PROVE  TextReply(kind, text, err) \in Reply
BY DEF TextReply, Reply

LEMMA FallbackType ==
    ASSUME NEW h, NEW err \in BOOLEAN PROVE FallbackReply(h, err) \in Reply
<1>1. \E kind \in {"human", "orchestrator_error", "ungrounded"} :
          FallbackReply(h, err) = TextReply(kind, "fallback", err)
    BY DEF FallbackReply
<1> QED BY <1>1, CannedType

LEMMA AnsweredType ==
    ASSUME NEW a \in Answer, NEW h
    PROVE  PortariaReply(a) \in Reply /\ LegalReply(h, a) \in Reply
<1>1. \A kind \in {"llm", "grounded", "no_context", "unverified_citations"} :
          Answered(kind, a) \in Reply
    BY DEF Answered, Reply
<1>2. Withheld \in Reply
    BY CannedType DEF Withheld
<1> QED BY <1>1, <1>2 DEF PortariaReply, LegalReply

LEMMA TypeInit == Init => TypeInv
<1> SUFFICES ASSUME Init PROVE TypeInv
    OBVIOUS
<1> USE DEF Init, Pipeline!Init
<1>1. TypeOK
    BY BoundsAssumption DEF TypeOK
<1>2. GivenOK /\ Walks
    BY DEF GivenOK, Walks, Walk
<1> QED BY <1>1, <1>2 DEF TypeInv

\* What a step of the pipeline does for the call of a waiting handler.
Begins(c, s) ==
    /\ s \in Scope /\ scope[c] = None
    /\ scope' = [scope EXCEPT ![c] = s]
    /\ UNCHANGED <<vetted, memory, given>>
Vets(c, a) ==
    /\ scope[c] # None /\ a \in Answer /\ a.call = c
    /\ a.sources # {} /\ Own(a, scope[c])
    /\ vetted' = vetted \cup {a}
    /\ UNCHANGED <<scope, memory, given>>
Remembering(c, a) ==
    /\ scope[c] # None /\ a \in vetted /\ a.call = c
    /\ memory' = memory \cup {[scope |-> scope[c], answer |-> a]}
    /\ UNCHANGED <<scope, vetted, given>>
Gives(c, g) ==
    /\ \/ g = [grounded |-> FALSE]
       \/ \E a \in vetted : /\ a.call = c /\ scope[c] # None
                            /\ g = [grounded |-> TRUE, answer |-> a]
       \/ \E m \in memory : /\ m.scope = scope[c]
                            /\ g = [grounded |-> TRUE, answer |-> m.answer]
    /\ given' = [given EXCEPT ![c] = g]
    /\ UNCHANGED <<scope, vetted, memory>>

LEMMA ExecuteEffect ==
    ASSUME TypeInv, NEW h \in Handlers, Execute(h)
    PROVE  /\ stage[h] = "waiting" /\ given[CallOf(h)] = None
           /\ UNCHANGED <<handlerVars, acked, sends, crashes>>
           /\ \/ \E s : Begins(CallOf(h), s) /\ s.tenant = TenantFor(h)
              \/ \E a : Vets(CallOf(h), a)
              \/ \E a : Remembering(CallOf(h), a)
              \/ \E g : Gives(CallOf(h), g)
<1> DEFINE c == CallOf(h)
           Goal == \/ \E s : Begins(c, s) /\ s.tenant = TenantFor(h)
                   \/ \E a : Vets(c, a)
                   \/ \E a : Remembering(c, a)
                   \/ \E g : Gives(c, g)
<1>1. /\ stage[h] = "waiting" /\ given[c] = None
      /\ UNCHANGED <<handlerVars, acked, sends, crashes>>
    BY DEF Execute
<1>2. c \in Calls
    BY <1>1, Current
<1>3. ASSUME NEW s \in Scope, s.tenant = TenantFor(h),
             scope' = [scope EXCEPT ![c] = s], Pipeline!Begin(c)
      PROVE  Goal
    BY <1>3 DEF Pipeline!Begin, Begins
<1>4. ASSUME scope[c] # None,
             NEW chunks \in (SUBSET Chunks) \ {{}}, NEW p \in Phrases,
             \A k \in chunks : OwnerOf[k] = scope[c].tenant,
             vetted' = vetted \cup
                 {[call |-> c, sources |-> chunks, phrases |-> p]},
             Pipeline!Vet(c)
      PROVE  Goal
  <2> DEFINE a == [call |-> c, sources |-> chunks, phrases |-> p]
  <2>1. /\ a \in Answer /\ a.call = c
        /\ a.sources # {} /\ Own(a, scope[c])
      BY <1>2, <1>4 DEF Answer, Own
  <2>2. UNCHANGED <<scope, memory, given>>
      BY <1>4 DEF Pipeline!Vet
  <2>3. Vets(c, a)
      BY <1>4, <2>1, <2>2 DEF Vets
  <2> QED BY <2>3
<1>5. ASSUME NEW a \in vetted, a.call = c,
             memory' = memory \cup {[scope |-> scope[c], answer |-> a]},
             Pipeline!Remember(c)
      PROVE  Goal
    BY <1>5 DEF Pipeline!Remember, Remembering
<1>6. ASSUME memory' = memory, Pipeline!Answer(c) PROVE Goal
    BY <1>6 DEF Pipeline!Answer, Pipeline!Give, Gives
<1>7. ASSUME Pipeline!Recall(c) PROVE Goal
    BY <1>7 DEF Pipeline!Recall, Pipeline!Give, Gives
<1>8. ASSUME Pipeline!Apologise(c) PROVE Goal
    BY <1>8 DEF Pipeline!Apologise, Pipeline!Give, Gives
<1> QED BY <1>1, <1>3, <1>4, <1>5, <1>6, <1>7, <1>8 DEF Execute

\* A step of the pipeline keeps the types of its variables.
PipelineTypes ==
    /\ scope \in [Calls -> Scope \cup {None}]
    /\ vetted \subseteq Answer
    /\ memory \subseteq [scope : Scope, answer : Answer]
    /\ GivenOK

LEMMA ExecuteTypes ==
    ASSUME TypeInv, NEW h \in Handlers, Execute(h)
    PROVE  PipelineTypes'
<1> DEFINE c == CallOf(h)
<1>1. c \in Calls
    BY ExecuteEffect, Current
<1>2. PipelineTypes
    BY DEF TypeInv, TypeOK, PipelineTypes
<1>3. ASSUME NEW s, Begins(c, s) PROVE PipelineTypes'
    BY <1>1, <1>2, <1>3 DEF PipelineTypes, Begins, GivenOK
<1>4. ASSUME NEW a, Vets(c, a) PROVE PipelineTypes'
    BY <1>2, <1>4 DEF PipelineTypes, Vets, GivenOK
<1>5. ASSUME NEW a, Remembering(c, a) PROVE PipelineTypes'
  <2>1. scope[c] \in Scope /\ a \in Answer
      BY <1>1, <1>2, <1>5 DEF PipelineTypes, Remembering
  <2>2. [scope |-> scope[c], answer |-> a] \in [scope : Scope, answer : Answer]
      BY <2>1
  <2> QED BY <1>2, <1>5, <2>2 DEF PipelineTypes, Remembering, GivenOK
<1>6. ASSUME NEW g, Gives(c, g) PROVE PipelineTypes'
  <2>1. g \in Given
    <3>1. CASE g = [grounded |-> FALSE]
        BY <3>1 DEF Given
    <3>2. ASSUME NEW a \in Answer, g = [grounded |-> TRUE, answer |-> a]
          PROVE  g \in Given
        BY <3>2 DEF Given
    <3>3. \A m \in memory : m.answer \in Answer
        BY <1>2 DEF PipelineTypes
    <3> QED BY <1>2, <1>6, <3>1, <3>2, <3>3 DEF Gives, PipelineTypes
  <2> QED BY <1>1, <1>2, <1>6, <2>1 DEF PipelineTypes, Gives, GivenOK
<1> QED BY <1>3, <1>4, <1>5, <1>6, ExecuteEffect

LEMMA ReturnedReply ==
    ASSUME TypeInv, NEW h \in Handlers, Returned(h)
    PROVE  \E r \in Reply : /\ Compose(h, r)
                            /\ \/ /\ ~given[CallOf(h)].grounded
                                  /\ \E err \in BOOLEAN : r = FallbackReply(h, err)
                               \/ /\ given[CallOf(h)] \in Given
                                  /\ given[CallOf(h)].grounded
                                  /\ given[CallOf(h)].answer \in Answer
                                  /\ r = IF Route(h) = "legal"
                                         THEN LegalReply(h, given[CallOf(h)].answer)
                                         ELSE PortariaReply(given[CallOf(h)].answer)
<1> DEFINE g == given[CallOf(h)]
<1>1. stage[h] = "waiting" /\ g # None
    BY DEF Returned
<1>2. g \in Given
    BY <1>1, Current DEF TypeInv, GivenOK
<1>3. CASE g.grounded
  <2>1. g.answer \in Answer
      BY <1>2, <1>3 DEF Given
  <2> DEFINE r == IF Route(h) = "legal" THEN LegalReply(h, g.answer)
                                       ELSE PortariaReply(g.answer)
  <2>2. r \in Reply
      BY <2>1, AnsweredType
  <2>3. Compose(h, r)
      BY <1>3 DEF Returned
  <2> QED BY <1>2, <1>3, <2>1, <2>2, <2>3
<1>4. CASE ~g.grounded
  <2>1. PICK err \in BOOLEAN : Compose(h, FallbackReply(h, err))
      BY <1>4 DEF Returned
  <2> QED BY <1>4, <2>1, FallbackType
<1> QED BY <1>3, <1>4

\* Only SendText sends.
SendType == [handler : Handlers, at : 1 .. MaxMessages,
             line : Lines, reply : Reply]

LEMMA SendTypes ==
    ASSUME TypeInv, NEW h \in Handlers, stage[h] = "replying"
    PROVE  [handler |-> h, at |-> at[h], line |-> MessageOf(h).line,
            reply |-> reply[h]] \in SendType
<1>1. MessageOf(h).line \in Lines
    BY Current, MessageType
<1>2. reply[h] \in Reply
    BY DEF TypeInv, Walks, Walk
<1> QED BY <1>1, <1>2, Current DEF SendType

\* A step of one handler leaves the others where they are.
Others(h) ==
    \A g \in Handlers : g # h => /\ request'[g] = request[g]
                                 /\ stage'[g] = stage[g] /\ at'[g] = at[g]
                                 /\ reply'[g] = reply[g]

LEMMA WalkStays ==
    ASSUME NEW h, request'[h] = request[h], stage'[h] = stage[h],
           at'[h] = at[h], reply'[h] = reply[h], Walk(h)
    PROVE  Walk(h)'
BY DEF Walk, MessageOf, Route, Concerns

LEMMA OneWalks ==
    ASSUME TypeInv, NEW h \in Handlers, Others(h), Walk(h)' PROVE Walks'
BY WalkStays DEF Others, Walks, TypeInv

LEMMA TypeStep == TypeInv /\ [Next]_vars => TypeInv'
<1> SUFFICES ASSUME TypeInv, [Next]_vars PROVE TypeInv'
    OBVIOUS
<1> USE DEF pipelineVars, handlerVars, Goto, Respond, Compose
<1>0. TypeOK /\ GivenOK
    BY DEF TypeInv
<1>1. ASSUME NEW h \in Handlers, Arrive(h) PROVE TypeInv'
  <2> USE <1>1 DEF Arrive
  <2>4. PICK r \in Requests, s \in {"done", "reading"} :
            /\ request' = [request EXCEPT ![h] = r]
            /\ stage' = [stage EXCEPT ![h] = s]
      OBVIOUS
  <2>5. PICK code \in {400, 401} :
            status' \in {status, [status EXCEPT ![h] = code]}
      OBVIOUS
  <2>6. status' \in [Handlers -> {0, 200, 400, 401, 500, 502}]
    <3>1. status \in [Handlers -> {0, 200, 400, 401, 500, 502}]
        BY <1>0 DEF TypeOK
    <3> HIDE <1>1
    <3> QED BY <2>5, <3>1
  <2>7. /\ request' \in [Handlers -> Requests \cup {None}]
        /\ stage' \in [Handlers -> {"idle", "reading", "waiting", "replying",
                                    "done"}]
    <3>1. /\ request \in [Handlers -> Requests \cup {None}]
          /\ stage \in [Handlers -> {"idle", "reading", "waiting", "replying",
                                     "done"}]
        BY <1>0 DEF TypeOK
    <3> HIDE <1>1
    <3> QED BY <2>4, <3>1
  <2>8. \A g \in Handlers : stage'[g] \in {"waiting", "replying"} =>
            at'[g] \in 1 .. Len(request'[g].messages)
      BY <1>0, <2>4 DEF TypeOK
  <2>1. TypeOK'
      BY <1>0, <2>6, <2>7, <2>8 DEF TypeOK
  <2>2. Others(h) /\ GivenOK'
      BY <1>0 DEF Others, GivenOK, TypeOK
  <2>3. Walk(h)'
      BY DEF TypeInv, TypeOK, Walks, Walk
  <2> QED BY <2>1, <2>2, <2>3, OneWalks DEF TypeInv
<1>2. ASSUME NEW h \in Handlers, Invalid(h) \/ RejectBlank(h) \/ Show(h) \/ Ack(h)
      PROVE  TypeInv'
  <2>0. PICK code \in {200, 400, 500, 502} : status' = [status EXCEPT ![h] = code]
      BY <1>2 DEF Invalid, RejectBlank, Show, Ack
  <2>1. /\ stage[h] \in {"reading", "replying"}
        /\ stage' = [stage EXCEPT ![h] = "done"]
        /\ status' \in [Handlers -> {0, 200, 400, 401, 500, 502}]
        /\ acked' \in {acked, acked \cup {request[h]}}
        /\ UNCHANGED <<pipelineVars, request, at, reply, sends, crashes>>
    <3>1. status' \in [Handlers -> {0, 200, 400, 401, 500, 502}]
        BY <1>0, <2>0 DEF TypeOK
    <3> QED BY <1>2, <3>1
            DEF Invalid, RejectBlank, Show, Ack, Reading, Usable
  <2>2. request[h] \in Requests
      BY <2>1 DEF TypeInv, Walks, Walk
  <2>3. TypeOK'
      BY <1>0, <2>1, <2>2 DEF TypeOK
  <2>4. Others(h) /\ GivenOK'
      BY <1>0, <2>1 DEF Others, GivenOK, TypeOK
  <2>5. Walk(h)'
      BY <1>0, <2>1, <2>2 DEF TypeInv, TypeOK, Walks, Walk, Route
  <2> QED BY <2>3, <2>4, <2>5, OneWalks DEF TypeInv
<1>3. ASSUME NEW h \in Handlers, Skip(h) PROVE TypeInv'
  <2> USE <1>3 DEF Skip
  <2>1. TypeOK'
      BY <1>0 DEF TypeOK, Reading
  <2>2. Others(h) /\ GivenOK'
      BY <1>0 DEF Others, GivenOK, TypeOK
  <2>3. Walk(h)'
      BY DEF TypeInv, TypeOK, Walks, Walk, Reading, Route
  <2> QED BY <2>1, <2>2, <2>3, OneWalks DEF TypeInv
<1>4. ASSUME NEW h \in Handlers, Greet(h) \/ Alarm(h) PROVE TypeInv'
  <2>1. PICK kind \in {"noop", "human"}, text \in {"greeting", "emergency"} :
            Usable(h) /\ Canned(h, kind, text)
      BY <1>4 DEF Greet, Alarm
  <2> DEFINE r == TextReply(kind, text, FALSE)
  <2>2. r \in Reply
      BY CannedType
  <2>7. /\ Usable(h) /\ reply' = [reply EXCEPT ![h] = r]
        /\ stage' = [stage EXCEPT ![h] = "replying"]
        /\ UNCHANGED <<pipelineVars, request, at, status, acked, sends, crashes>>
      BY <2>1 DEF Canned
  <2> HIDE DEF r
  <2> USE <2>7
  <2>3. /\ request[h] \in Requests /\ at[h] \in 1 .. Len(request[h].messages)
        /\ Concerns(MessageOf(h))
      BY Readable DEF Usable
  <2>4. TypeOK'
      BY <1>0, <2>2, <2>3 DEF TypeOK
  <2>5. Others(h) /\ GivenOK'
      BY <1>0 DEF Others, GivenOK, TypeOK
  <2>6. Walk(h)'
      BY <2>2, <2>3 DEF TypeInv, TypeOK, Walks, Walk, Route, MessageOf, Concerns
  <2> QED BY <2>4, <2>5, <2>6, OneWalks DEF TypeInv
<1>5. ASSUME NEW h \in Handlers, Ask(h) PROVE TypeInv'
  <2> USE <1>5 DEF Ask
  <2>1. /\ request[h] \in Requests /\ at[h] \in 1 .. Len(request[h].messages)
        /\ Concerns(MessageOf(h))
      BY Readable DEF Usable
  <2>2. TypeOK'
      BY <1>0, <2>1 DEF TypeOK
  <2>3. Others(h) /\ GivenOK'
      BY <1>0 DEF Others, GivenOK, TypeOK
  <2>4. Walk(h)'
      BY <2>1 DEF TypeInv, TypeOK, Walks, Walk, Route, MessageOf, Concerns
  <2> QED BY <2>2, <2>3, <2>4, OneWalks DEF TypeInv
<1>6. ASSUME NEW h \in Handlers, Execute(h) PROVE TypeInv'
  <2>1. UNCHANGED <<handlerVars, acked, sends, crashes>>
      BY <1>6, ExecuteEffect
  <2>2. PipelineTypes'
      BY <1>6, ExecuteTypes
  <2>3. TypeOK' /\ GivenOK'
      BY <1>0, <2>1, <2>2 DEF TypeOK, PipelineTypes
  <2>4. Walks'
      BY <2>1, WalkStays DEF TypeInv, Walks
  <2> QED BY <2>3, <2>4 DEF TypeInv
<1>7. ASSUME NEW h \in Handlers, Returned(h) PROVE TypeInv'
  <2>1. PICK r \in Reply : Compose(h, r)
      BY <1>7, ReturnedReply
  <2>2. /\ stage[h] = "waiting" /\ stage' = [stage EXCEPT ![h] = "replying"]
        /\ reply' = [reply EXCEPT ![h] = r]
        /\ UNCHANGED <<pipelineVars, request, at, status, acked, sends, crashes>>
      BY <1>7, <2>1 DEF Returned
  <2>3. TypeOK'
      BY <1>0, <2>2 DEF TypeOK
  <2>4. Others(h) /\ GivenOK'
      BY <1>0, <2>2 DEF Others, GivenOK, TypeOK
  <2>5. Walk(h)'
      BY <2>2 DEF TypeInv, TypeOK, Walks, Walk, Route, MessageOf, Concerns
  <2> QED BY <2>3, <2>4, <2>5, OneWalks DEF TypeInv
<1>8. ASSUME NEW h \in Handlers, SendText(h) PROVE TypeInv'
  <2> USE <1>8 DEF SendText
  <2>1. sends' \subseteq SendType
      BY <1>0, SendTypes DEF TypeOK, SendType
  <2>2. TypeOK'
      BY <1>0, <2>1 DEF TypeOK, SendType
  <2>3. Others(h) /\ GivenOK'
      BY <1>0 DEF Others, GivenOK, TypeOK
  <2>4. Walk(h)'
      BY DEF TypeInv, TypeOK, Walks, Walk, Route
  <2> QED BY <2>2, <2>3, <2>4, OneWalks DEF TypeInv
<1>9. CASE Forget
  <2>1. TypeOK'
      BY <1>0, <1>9 DEF Forget, Pipeline!Forget, TypeOK
  <2>2. GivenOK' /\ Walks'
      BY <1>9, WalkStays DEF Forget, Pipeline!Forget, GivenOK, TypeInv, Walks
  <2> QED BY <2>1, <2>2 DEF TypeInv
<1>10. CASE Crash
  <2> USE <1>10 DEF Crash
  <2>1. TypeOK'
      BY <1>0, BoundsAssumption DEF TypeOK
  <2>2. GivenOK'
      BY <1>0 DEF GivenOK
  <2>3. Walks'
      BY <1>0 DEF TypeInv, Walks, Walk, Route
  <2> QED BY <2>1, <2>2, <2>3 DEF TypeInv
<1>11. CASE UNCHANGED vars
  <2>1. TypeOK' /\ GivenOK'
      BY <1>0, <1>11 DEF vars, TypeOK, GivenOK
  <2>2. Walks'
      BY <1>11, WalkStays DEF vars, TypeInv, Walks
  <2> QED BY <2>1, <2>2 DEF TypeInv
<1> QED
    BY <1>1, <1>2, <1>3, <1>4, <1>5, <1>6, <1>7, <1>8, <1>9, <1>10, <1>11
    DEF Next, Step

(***************************************************************************)
(* Every delivery, message, reply and send has its type, for any set of    *)
(* handlers, requests and crashes.                                         *)
(***************************************************************************)
THEOREM TypeCorrect == Spec => []TypeOK
<1>1. TypeInv => TypeOK
    BY DEF TypeInv
<1> QED BY <1>1, TypeInit, TypeStep, PTL DEF Spec

-----------------------------------------------------------------------------
(***************************************************************************)
(* What a step may change.                                                 *)
(***************************************************************************)
\* A handler that has a request keeps it.
LEMMA BusyStays ==
    ASSUME TypeInv, [Next]_vars, NEW h \in Handlers, stage[h] # "idle"
    PROVE  stage'[h] # "idle" /\ request'[h] = request[h]
<1>1. stage \in [Handlers -> {"idle", "reading", "waiting", "replying", "done"}]
      /\ request \in [Handlers -> Requests \cup {None}]
    BY DEF TypeInv, TypeOK
<1>2. ASSUME NEW g \in Handlers, Execute(g) \/ Forget \/ UNCHANGED vars
      PROVE  stage'[h] # "idle" /\ request'[h] = request[h]
    BY <1>2, ExecuteEffect DEF Forget, vars, handlerVars
<1>3. ASSUME NEW g \in Handlers,
             \/ Arrive(g) \/ Invalid(g) \/ Skip(g) \/ Greet(g) \/ Alarm(g)
             \/ RejectBlank(g) \/ Ask(g) \/ Returned(g) \/ SendText(g)
             \/ Show(g) \/ Ack(g) \/ Crash
      PROVE  stage'[h] # "idle" /\ request'[h] = request[h]
    BY <1>1, <1>3
    DEF Arrive, Invalid, Skip, Greet, Alarm, RejectBlank, Ask, Returned,
        SendText, Show, Ack, Crash, Canned, Respond, Goto
<1> QED BY <1>2, <1>3 DEF Next, Step

\* Only Execute and Forget change the pipeline.
LEMMA PipelineChange ==
    ASSUME [Next]_vars
    PROVE  \/ \E h \in Handlers : Execute(h)
           \/ Forget
           \/ UNCHANGED pipelineVars
BY DEF Next, Step, vars, Arrive, Invalid, Skip, Greet, Alarm, RejectBlank,
       Ask, Returned, SendText, Show, Ack, Crash, Canned

\* A call's scope is settled once.
LEMMA ScopeStays ==
    ASSUME TypeInv, [Next]_vars, NEW c \in Calls, scope[c] # None
    PROVE  scope'[c] = scope[c]
<1>1. ASSUME NEW h \in Handlers, Execute(h) PROVE scope'[c] = scope[c]
  <2>1. scope \in [Calls -> Scope \cup {None}] /\ CallOf(h) \in Calls
      BY <1>1, ExecuteEffect, Current DEF TypeInv, TypeOK
  <2> QED BY <1>1, <2>1, ExecuteEffect DEF Begins, Vets, Remembering, Gives
<1>2. CASE Forget
    BY <1>2 DEF Forget, Pipeline!Forget
<1>3. CASE UNCHANGED pipelineVars
    BY <1>3 DEF pipelineVars
<1> QED BY <1>1, <1>2, <1>3, PipelineChange

-----------------------------------------------------------------------------
(***************************************************************************)
(* The pipeline stays within the tenant of a message's line.               *)
(***************************************************************************)
LEMMA ScopesStep == TypeInv /\ ScopesFit /\ [Next]_vars => ScopesFit'
<1> SUFFICES ASSUME TypeInv, ScopesFit, [Next]_vars,
                    NEW g \in Handlers, NEW i \in 1 .. MaxMessages,
                    scope'[<<g, i>>] # None
             PROVE  /\ stage'[g] # "idle"
                    /\ scope'[<<g, i>>].tenant
                           = TenantOf[request'[g].messages[i].line]
    BY DEF ScopesFit
<1>1. <<g, i>> \in Calls
    BY DEF Calls
<1>2. CASE scope[<<g, i>>] # None
  <2>1. /\ stage[g] # "idle"
        /\ scope[<<g, i>>].tenant = TenantOf[request[g].messages[i].line]
      BY <1>2 DEF ScopesFit
  <2> QED BY <1>1, <1>2, <2>1, BusyStays, ScopeStays
<1>3. CASE scope[<<g, i>>] = None
  <2>1. PICK h \in Handlers : Execute(h)
      BY <1>3, PipelineChange DEF Forget, Pipeline!Forget, pipelineVars
  <2>2. PICK s : Begins(CallOf(h), s) /\ s.tenant = TenantFor(h)
      BY <1>3, <2>1, ExecuteEffect DEF Vets, Remembering, Gives
  <2>3. scope \in [Calls -> Scope \cup {None}] /\ stage[h] = "waiting"
      BY <2>1, ExecuteEffect DEF TypeInv, TypeOK
  <2>4. <<g, i>> = CallOf(h) /\ scope'[<<g, i>>] = s
      BY <1>1, <1>3, <2>2, <2>3 DEF Begins
  <2>5. g = h /\ i = at[h]
      BY <2>4 DEF CallOf
  <2>6. stage'[g] # "idle" /\ request'[g] = request[g]
      BY <2>3, <2>5, BusyStays
  <2> QED BY <2>2, <2>4, <2>5, <2>6 DEF TenantFor, MessageOf
<1> QED BY <1>2, <1>3

LEMMA PipelineStep == TypeInv /\ PipelineInv /\ [Next]_vars => PipelineInv'
<1> SUFFICES ASSUME TypeInv, PipelineInv, [Next]_vars PROVE PipelineInv'
    OBVIOUS
<1>1. ScopesFit'
    BY ScopesStep DEF PipelineInv
<1>2. /\ scope \in [Calls -> Scope \cup {None}] /\ vetted \subseteq Answer
      /\ memory \subseteq [scope : Scope, answer : Answer]
      /\ given \in [Calls -> Given \cup {None}]
      /\ \A a \in vetted : a.call \in Calls
    BY DEF TypeInv, TypeOK, GivenOK, Answer
<1>3. VettedOwn /\ MemoryOwn /\ GivenOwn
    BY DEF PipelineInv
<1>4. \A a \in vetted : /\ scope'[a.call] # None /\ Own(a, scope'[a.call])
                        /\ a.sources # {}
    BY <1>2, <1>3, ScopeStays DEF VettedOwn
<1>5. \A c \in Calls : given[c] # None /\ given[c].grounded =>
          /\ scope'[c] # None /\ given[c].answer \in vetted
          /\ Own(given[c].answer, scope'[c])
    BY <1>3, ScopeStays DEF GivenOwn
<1>6. ASSUME NEW h \in Handlers, Execute(h)
      PROVE  VettedOwn' /\ MemoryOwn' /\ GivenOwn'
  <2> DEFINE c == CallOf(h)
  <2>0. c \in Calls
      BY <1>6, ExecuteEffect, Current
  <2>1. ASSUME NEW s, Begins(c, s) PROVE VettedOwn' /\ MemoryOwn' /\ GivenOwn'
      BY <1>3, <1>4, <1>5, <2>1 DEF Begins, VettedOwn, MemoryOwn, GivenOwn, Own
  <2>2. ASSUME NEW a, Vets(c, a) PROVE VettedOwn' /\ MemoryOwn' /\ GivenOwn'
      BY <1>3, <1>4, <1>5, <2>2 DEF Vets, VettedOwn, MemoryOwn, GivenOwn, Own
  <2>3. ASSUME NEW a, Remembering(c, a)
        PROVE  VettedOwn' /\ MemoryOwn' /\ GivenOwn'
      BY <1>3, <1>4, <1>5, <2>3 DEF Remembering, VettedOwn, MemoryOwn, GivenOwn, Own
  <2>4. ASSUME NEW g, Gives(c, g) PROVE VettedOwn' /\ MemoryOwn' /\ GivenOwn'
    <3>1. VettedOwn' /\ MemoryOwn'
        BY <1>3, <1>4, <2>4 DEF Gives, VettedOwn, MemoryOwn, Own
    <3>2. g.grounded => /\ scope[c] # None /\ g.answer \in vetted
                        /\ Own(g.answer, scope[c])
        BY <1>3, <2>4 DEF Gives, VettedOwn, MemoryOwn
    <3>3. GivenOwn'
        BY <1>2, <1>5, <2>0, <2>4, <3>2 DEF Gives, GivenOwn, Own
    <3> QED BY <3>1, <3>3
  <2> QED BY <1>6, <2>1, <2>2, <2>3, <2>4, ExecuteEffect
<1>7. CASE Forget \/ UNCHANGED pipelineVars
  <2>1. scope' = scope /\ vetted' = vetted /\ given' = given
      BY <1>7 DEF Forget, Pipeline!Forget, pipelineVars
  <2>2. memory' \subseteq memory
      BY <1>7 DEF Forget, Pipeline!Forget, pipelineVars
  <2>3. VettedOwn'
      BY <1>4, <2>1 DEF VettedOwn, Own
  <2>4. MemoryOwn'
      BY <1>3, <2>1, <2>2 DEF MemoryOwn, Own
  <2>5. GivenOwn'
      BY <1>5, <2>1 DEF GivenOwn, Own
  <2> QED BY <1>1, <2>3, <2>4, <2>5 DEF PipelineInv
<1> QED BY <1>1, <1>6, <1>7, PipelineChange DEF PipelineInv

-----------------------------------------------------------------------------
(***************************************************************************)
(* Replies stay within the tenant of the line they are given on.           *)
(***************************************************************************)
\* The answer a reply carries is the one the pipeline gave.
LEMMA AnswerKept ==
    ASSUME NEW a, NEW h, "answer" \in DOMAIN LegalReply(h, a)
    PROVE  LegalReply(h, a).answer = a
BY DEF LegalReply, Answered, Withheld, TextReply

LEMMA CannedFromTenant ==
    ASSUME NEW kind, NEW text, NEW err, NEW line
    PROVE  FromTenant(TextReply(kind, text, err), line)
BY DEF FromTenant, TextReply

LEMMA ReturnedFromTenant ==
    ASSUME TypeInv, PipelineInv, NEW h \in Handlers, Returned(h)
    PROVE  FromTenant(reply'[h], MessageOf(h).line)
<1> DEFINE g == given[CallOf(h)]
<1>1. PICK r \in Reply :
          /\ Compose(h, r)
          /\ \/ \E err \in BOOLEAN : r = FallbackReply(h, err)
             \/ /\ g \in Given /\ g.grounded /\ g.answer \in Answer
                /\ r = IF Route(h) = "legal" THEN LegalReply(h, g.answer)
                                             ELSE PortariaReply(g.answer)
    BY ReturnedReply
<1>2. stage[h] = "waiting" /\ g # None
    BY DEF Returned
<1>3. reply'[h] = r
    BY <1>1 DEF Compose, TypeInv, TypeOK
<1>4. CASE \E err \in BOOLEAN : r = FallbackReply(h, err)
    BY <1>3, <1>4, CannedFromTenant DEF FallbackReply
<1>5. CASE /\ g.grounded
           /\ r = IF Route(h) = "legal" THEN LegalReply(h, g.answer)
                                        ELSE PortariaReply(g.answer)
  <2>1. /\ CallOf(h) \in Calls /\ CallOf(h) = <<h, at[h]>>
        /\ at[h] \in 1 .. MaxMessages
      BY <1>2, Current
  <2>2. /\ scope[<<h, at[h]>>] # None
        /\ Own(g.answer, scope[<<h, at[h]>>])
      BY <1>2, <1>5, <2>1 DEF PipelineInv, GivenOwn
  <2>3. scope[<<h, at[h]>>].tenant = TenantOf[MessageOf(h).line]
      BY <2>1, <2>2 DEF PipelineInv, ScopesFit, MessageOf
  <2>4. "answer" \in DOMAIN r => r.answer = g.answer
      BY <1>5, AnswerKept DEF PortariaReply, Answered
  <2> QED BY <1>3, <2>2, <2>3, <2>4 DEF FromTenant, Own
<1> QED BY <1>1, <1>4, <1>5

\* A handler either keeps its message and its reply, or takes a new message
\* or forms a new reply in one of these ways.
LEMMA ReplyChange ==
    ASSUME TypeInv, [Next]_vars, NEW h \in Handlers
    PROVE  \/ Arrive(h) \/ Skip(h) \/ SendText(h) \/ Returned(h)
           \/ Greet(h) \/ Alarm(h)
           \/ /\ request'[h] = request[h] /\ at'[h] = at[h]
              /\ reply'[h] = reply[h]
              /\ stage'[h] = "replying" => stage[h] = "replying"
<1> DEFINE Stays == /\ request'[h] = request[h] /\ at'[h] = at[h]
                    /\ reply'[h] = reply[h]
                    /\ stage'[h] = "replying" => stage[h] = "replying"
           Goal == \/ Arrive(h) \/ Skip(h) \/ SendText(h) \/ Returned(h)
                   \/ Greet(h) \/ Alarm(h)
                   \/ Stays
<1> USE DEF handlerVars, Goto, Respond, Compose
<1>0. /\ stage \in [Handlers -> {"idle", "reading", "waiting", "replying", "done"}]
      /\ request \in [Handlers -> Requests \cup {None}]
      /\ at \in [Handlers -> Nat \ {0}]
      /\ reply \in [Handlers -> Reply \cup {None}]
    BY DEF TypeInv, TypeOK
<1>1. ASSUME NEW g \in Handlers, Execute(g) \/ Forget \/ UNCHANGED vars
      PROVE  Goal
    BY <1>1, ExecuteEffect DEF Forget, vars
<1>2. ASSUME NEW g \in Handlers,
             \/ Invalid(g) \/ RejectBlank(g) \/ Ask(g) \/ Show(g) \/ Ack(g)
             \/ Crash
      PROVE  Goal
    BY <1>0, <1>2 DEF Invalid, RejectBlank, Ask, Show, Ack, Crash
<1>3. ASSUME NEW g \in Handlers, g # h,
             \/ Arrive(g) \/ Skip(g) \/ Greet(g) \/ Alarm(g) \/ Returned(g)
             \/ SendText(g)
      PROVE  Stays
    BY <1>0, <1>3
    DEF Arrive, Skip, Greet, Alarm, Returned, SendText, Canned
<1> QED BY <1>1, <1>2, <1>3 DEF Next, Step

LEMMA RepliesStep ==
    TypeInv /\ PipelineInv /\ RepliesOwn /\ [Next]_vars => RepliesOwn'
<1> SUFFICES ASSUME TypeInv, PipelineInv, RepliesOwn, [Next]_vars,
                    NEW h \in Handlers,
                    \/ stage'[h] = "replying"
                    \/ reply'[h] # None /\ Route(h)' # "whatsapp"
             PROVE  FromTenant(reply'[h], MessageOf(h)'.line)
    BY DEF RepliesOwn, FromTenant
<1> USE DEF handlerVars, Goto, Respond, Compose
<1>0. /\ stage \in [Handlers -> {"idle", "reading", "waiting", "replying", "done"}]
      /\ reply \in [Handlers -> Reply \cup {None}]
    BY DEF TypeInv, TypeOK
<1>1. ~Arrive(h)
  <2>1. stage[h] = "idle" => reply[h] = None
      BY DEF TypeInv, Walks, Walk
  <2> QED BY <1>0, <2>1 DEF Arrive
<1>2. ~Skip(h) /\ ~SendText(h)
    BY <1>0 DEF Skip, SendText, Route, Reading
<1>3. CASE Returned(h)
  <2>1. MessageOf(h)' = MessageOf(h)
      BY <1>3 DEF Returned, MessageOf
  <2> QED BY <1>3, <2>1, ReturnedFromTenant
<1>4. ASSUME NEW kind, NEW text, Canned(h, kind, text)
      PROVE  FromTenant(reply'[h], MessageOf(h)'.line)
  <2>1. reply'[h] = TextReply(kind, text, FALSE)
      BY <1>0, <1>4 DEF Canned
  <2> QED BY <2>1, CannedFromTenant
<1>5. CASE /\ request'[h] = request[h] /\ at'[h] = at[h]
           /\ reply'[h] = reply[h]
           /\ stage'[h] = "replying" => stage[h] = "replying"
  <2>1. MessageOf(h)' = MessageOf(h) /\ Route(h)' = Route(h)
      BY <1>5 DEF MessageOf, Route
  <2>2. FromTenant(reply[h], MessageOf(h).line)
      BY <1>5, <2>1 DEF RepliesOwn
  <2> QED BY <1>5, <2>1, <2>2
<1> QED BY <1>1, <1>2, <1>3, <1>4, <1>5, ReplyChange DEF Greet, Alarm

\* Sends only grow, by the reply of a handler to its message.
Message1(h) == [handler |-> h, at |-> at[h], line |-> MessageOf(h).line,
                reply |-> reply[h]]

LEMMA SendsChange ==
    ASSUME [Next]_vars
    PROVE  \/ sends' = sends
           \/ \E h \in Handlers : SendText(h) /\ sends' = sends \cup {Message1(h)}
<1>1. \/ sends' = sends
      \/ \E h \in Handlers : SendText(h)
      \/ \E h \in Handlers : Execute(h)
    BY DEF Next, Step, vars, Arrive, Invalid, Skip, Greet, Alarm, RejectBlank,
           Ask, Returned, Show, Ack, Crash, Canned, Forget
<1> QED BY <1>1 DEF SendText, Execute, Message1

LEMMA SendsStep ==
    TypeInv /\ RepliesOwn /\ SendsOwn /\ [Next]_vars => SendsOwn'
<1> SUFFICES ASSUME TypeInv, RepliesOwn, SendsOwn, [Next]_vars,
                    NEW s \in sends'
             PROVE  FromTenant(s.reply, s.line)
    BY DEF SendsOwn, FromTenant
<1>1. CASE s \in sends
    BY <1>1 DEF SendsOwn
<1>2. ASSUME NEW h \in Handlers, SendText(h), s = Message1(h)
      PROVE  FromTenant(s.reply, s.line)
  <2>1. FromTenant(reply[h], MessageOf(h).line)
      BY <1>2 DEF SendText, RepliesOwn
  <2>2. s.reply = reply[h] /\ s.line = MessageOf(h).line
      BY <1>2 DEF Message1
  <2> QED BY <2>1, <2>2
<1> QED BY <1>1, <1>2, SendsChange

-----------------------------------------------------------------------------
(***************************************************************************)
(* An acknowledged delivery was worked off to its last message.            *)
(***************************************************************************)
LEMMA BusyStep == TypeInv /\ SendersBusy /\ [Next]_vars => SendersBusy'
<1> SUFFICES ASSUME TypeInv, SendersBusy, [Next]_vars, NEW s \in sends'
             PROVE  stage'[s.handler] # "idle"
    BY DEF SendersBusy
<1>1. CASE s \in sends
  <2>1. s.handler \in Handlers /\ stage[s.handler] # "idle"
      BY <1>1 DEF TypeInv, TypeOK, SendersBusy
  <2> QED BY <2>1, BusyStays
<1>2. ASSUME NEW h \in Handlers, SendText(h), s = Message1(h)
      PROVE  stage'[s.handler] # "idle"
  <2>1. s.handler = h /\ stage[h] # "idle"
      BY <1>2 DEF Message1, SendText
  <2> QED BY <2>1, BusyStays
<1> QED BY <1>1, <1>2, SendsChange

LEMMA AtChange ==
    ASSUME TypeInv, [Next]_vars, NEW h \in Handlers
    PROVE  at'[h] = at[h] \/ Skip(h) \/ SendText(h)
<1>1. at \in [Handlers -> Nat \ {0}]
    BY DEF TypeInv, TypeOK
<1>2. ASSUME NEW g \in Handlers, Skip(g) \/ SendText(g), g # h
      PROVE  at'[h] = at[h]
    BY <1>1, <1>2 DEF Skip, SendText
<1>3. ASSUME NEW g \in Handlers, Execute(g) PROVE at'[h] = at[h]
    BY <1>3, ExecuteEffect DEF handlerVars
<1>4. \/ at' = at
      \/ \E g \in Handlers : Skip(g) \/ SendText(g) \/ Execute(g)
    BY DEF Next, Step, vars, handlerVars, Arrive, Invalid, Greet, Alarm,
           RejectBlank, Ask, Returned, Show, Ack, Crash, Canned, Forget
<1> QED BY <1>2, <1>3, <1>4

LEMMA LeftStep == TypeInv /\ LeftAnswered /\ [Next]_vars => LeftAnswered'
<1> SUFFICES ASSUME TypeInv, LeftAnswered, [Next]_vars,
                    NEW h \in Handlers, stage'[h] # "idle",
                    NEW i \in 1 .. Len(request'[h].messages),
                    i < at'[h], Concerns(request'[h].messages[i])
             PROVE  \E s \in sends' : s.handler = h /\ s.at = i
    BY DEF LeftAnswered, Concerns
<1>0. i \in Int /\ at[h] \in Nat /\ at[h] >= 1
  <2>1. at \in [Handlers -> Nat \ {0}] /\ at[h] \in Nat \ {0}
      BY DEF TypeInv, TypeOK
  <2> QED BY <2>1
<1>1. \A s \in sends : s \in sends'
    BY SendsChange
<1>2. CASE stage[h] = "idle"
  <2>1. at[h] = 1
      BY <1>2 DEF TypeInv, Walks, Walk
  <2>2. at'[h] = at[h]
      BY <1>2, AtChange DEF Skip, SendText, Reading
  <2> QED BY <1>0, <2>1, <2>2
<1>3. CASE stage[h] # "idle"
  <2>1. request'[h] = request[h]
      BY <1>3, BusyStays
  <2>2. CASE i < at[h]
      BY <1>1, <1>3, <2>1, <2>2 DEF LeftAnswered
  <2>3. CASE ~(i < at[h])
    <3>1. Skip(h) \/ SendText(h)
        BY <2>3, AtChange
    <3>2. at'[h] = at[h] + 1
        BY <3>1 DEF Skip, SendText, TypeInv, TypeOK
    <3>3. i = at[h]
        BY <1>0, <2>3, <3>2
    <3>4. Concerns(MessageOf(h))
        BY <2>1, <3>3 DEF MessageOf
    <3>5. SendText(h)
        BY <3>1, <3>4 DEF Skip, Concerns, TenantFor
    <3>6. Message1(h) \in sends'
        BY <3>5 DEF SendText, Message1
    <3> QED BY <3>3, <3>6 DEF Message1
  <2> QED BY <2>2, <2>3
<1> QED BY <1>2, <1>3

LEMMA AckedStep ==
    TypeInv /\ LeftAnswered /\ SendersBusy /\ AckedAttempted /\ [Next]_vars
        => AckedAttempted'
<1> SUFFICES ASSUME TypeInv, LeftAnswered, SendersBusy, AckedAttempted,
                    [Next]_vars,
                    NEW r \in acked', NEW i \in DOMAIN r.messages,
                    Concerns(r.messages[i])
             PROVE  \E s \in sends' : request'[s.handler] = r /\ s.at = i
    BY DEF AckedAttempted, Concerns
<1>1. ASSUME NEW s \in sends, request[s.handler] = r
      PROVE  s \in sends' /\ request'[s.handler] = r
  <2>1. s.handler \in Handlers /\ stage[s.handler] # "idle"
      BY DEF TypeInv, TypeOK, SendersBusy
  <2> QED BY <1>1, <2>1, BusyStays, SendsChange
<1>2. CASE r \in acked
  <2>1. PICK s \in sends : request[s.handler] = r /\ s.at = i
      BY <1>2 DEF AckedAttempted
  <2> QED BY <1>1, <2>1
<1>3. CASE r \notin acked
  <2>1. PICK h \in Handlers : Ack(h) \/ Execute(h)
      BY <1>3
      DEF Next, Step, vars, Arrive, Invalid, Skip, Greet, Alarm, RejectBlank,
          Ask, Returned, SendText, Show, Crash, Canned, Forget
  <2>2. ~Execute(h)
      BY <1>3, ExecuteEffect
  <2>3. Ack(h) /\ r = request[h] /\ stage[h] = "reading"
      BY <1>3, <2>1, <2>2 DEF Ack
  <2>4. r \in Requests /\ at[h] > Len(r.messages)
      BY <2>3 DEF Ack, TypeInv, Walks, Walk
  <2>5. i \in 1 .. Len(r.messages) /\ Len(r.messages) \in Nat
      BY <2>4, MessagesType, BoundsAssumption
  <2>6. at[h] \in Nat
      BY DEF TypeInv, TypeOK
  <2>7. i < at[h]
      BY <2>4, <2>5, <2>6
  <2>8. PICK s \in sends : s.handler = h /\ s.at = i
      BY <2>3, <2>5, <2>7 DEF LeftAnswered
  <2> QED BY <1>1, <2>3, <2>8
<1> QED BY <1>2, <1>3

-----------------------------------------------------------------------------
(***************************************************************************)
(* Citations.  A reference of an answer that verification passes matches   *)
(* an entity the worker extracted from the text of one of its sources.     *)
(***************************************************************************)
\* Comparison looks at what SameNumber does, and at the tail.
LEMMA MatchesSame ==
    ASSUME NEW m, NEW x, NEW e, e = Captured(x), Matches(Trimmed(m), e)
    PROVE  SameNumber(x, m)
<1>1. /\ Normal(e).kind = x.kind /\ Normal(e).number = x.number
      /\ Normal(e).ordinal = IF x.ordinal = "sign" THEN "" ELSE x.ordinal
    BY DEF Normal, Captured
<1>2. /\ Normal(Trimmed(m)).kind = m.kind
      /\ Normal(Trimmed(m)).number = m.number
      /\ Normal(Trimmed(m)).ordinal = IF m.ordinal = "sign" THEN "" ELSE m.ordinal
    BY DEF Normal, Trimmed, Captured
<1> QED BY <1>1, <1>2 DEF Matches, SameNumber

LEMMA SameMatches ==
    ASSUME NEW m \in Mention, NEW x \in Mention, SameNumber(x, m), x.tail # "-"
    PROVE  Matches(Trimmed(m), Captured(x))
<1>1. /\ m.ordinal \in {"", "sign", "o"} /\ x.ordinal \in {"", "sign", "o"}
      /\ x.tail \in {"", "."}
    BY DEF Mention
<1> DEFINE c == Trimmed(m)
           e == Captured(x)
<1>2. /\ c.kind = m.kind /\ c.number = m.number /\ c.ordinal = m.ordinal
      /\ c.tail = ""
    BY DEF Trimmed, Captured
<1>3. /\ e.kind = x.kind /\ e.number = x.number /\ e.ordinal = x.ordinal
      /\ e.tail \in {"", "."}
    BY <1>1 DEF Captured
<1> HIDE DEF c, e
<1>4. Normal(c).tail = "" /\ Normal(e).tail = ""
    BY <1>2, <1>3 DEF Normal
<1>5. Normal(c).ordinal = Normal(e).ordinal
    BY <1>1, <1>2, <1>3 DEF Normal, SameNumber
<1>6. Normal(c).kind = Normal(e).kind /\ Normal(c).number = Normal(e).number
    BY <1>2, <1>3 DEF Normal, SameNumber
<1>7. Normal(c) = Normal(e)
    BY <1>4, <1>5, <1>6 DEF Normal
<1> QED BY <1>7 DEF Matches, c, e

LEMMA VerifiedSaid ==
    ASSUME NEW a, Unverified(a) = {}, NEW m \in a.phrases, Seen(m)
    PROVE  SaidBySources(m, a)
<1>1. Trimmed(m) \in ExtractCitations(a.phrases)
    BY DEF ExtractCitations
<1>2. PICK e \in Entities(a) : Matches(Trimmed(m), e)
    BY <1>1 DEF Unverified, VerifyCitations
<1>3. PICK k \in a.sources : e \in ExtractEntities(Text[k])
    BY <1>2 DEF Entities
<1>4. PICK x \in Text[k] : e = Captured(x)
    BY <1>3 DEF ExtractEntities
<1>5. SameNumber(x, m)
    BY <1>2, <1>4, MatchesSame
<1> QED BY <1>5 DEF SaidBySources

LEMMA LegalVerified ==
    ASSUME NEW h, NEW a, a.sources # {},
           "answer" \in DOMAIN LegalReply(h, a),
           StrictCitation \/ LegalReply(h, a).kind = "grounded"
    PROVE  Unverified(a) = {} /\ LegalReply(h, a).answer = a
<1>1. LegalReply(h, a).answer = a
    BY AnswerKept
<1>2. CASE Unverified(a) # {} /\ StrictCitation
    BY <1>2 DEF LegalReply, Withheld, TextReply
<1>3. CASE Unverified(a) # {} /\ ~StrictCitation
    BY <1>3 DEF LegalReply, Answered
<1> QED BY <1>1, <1>2, <1>3

LEMMA CitationsStep ==
    TypeInv /\ PipelineInv /\ CitationsInSources /\ [Next]_vars
        => CitationsInSources'
<1> SUFFICES ASSUME TypeInv, PipelineInv, CitationsInSources, [Next]_vars,
                    NEW h \in Handlers, reply'[h] # None, Route(h)' = "legal",
                    "answer" \in DOMAIN reply'[h],
                    StrictCitation \/ reply'[h].kind = "grounded",
                    NEW m \in reply'[h].answer.phrases, Seen(m)
             PROVE  SaidBySources(m, reply'[h].answer)
    BY DEF CitationsInSources, SaidBySources, SameNumber
<1> USE DEF Goto, Respond, Compose
<1>0. reply \in [Handlers -> Reply \cup {None}]
    BY DEF TypeInv, TypeOK
<1>1. ~Arrive(h)
  <2>1. stage[h] = "idle" => reply[h] = None
      BY DEF TypeInv, Walks, Walk
  <2> QED BY <2>1 DEF Arrive
<1>2. ~Skip(h) /\ ~SendText(h)
    BY DEF Skip, SendText, Route
<1>3. CASE Returned(h)
  <2> DEFINE g == given[CallOf(h)]
  <2>1. PICK r \in Reply :
            /\ Compose(h, r)
            /\ \/ \E err \in BOOLEAN : r = FallbackReply(h, err)
               \/ /\ g \in Given /\ g.grounded /\ g.answer \in Answer
                  /\ r = IF Route(h) = "legal" THEN LegalReply(h, g.answer)
                                               ELSE PortariaReply(g.answer)
      BY <1>3, ReturnedReply
  <2>2. stage[h] = "waiting" /\ g # None /\ Route(h) = "legal"
      BY <1>3 DEF Returned, Route
  <2>3. reply'[h] = r
      BY <1>0, <2>1
  <2>4. \A err \in BOOLEAN : r # FallbackReply(h, err)
      BY <2>3 DEF FallbackReply, TextReply
  <2>5. g.grounded /\ r = LegalReply(h, g.answer)
      BY <2>1, <2>2, <2>4
  <2>6. g.answer.sources # {}
      BY <2>2, <2>5, Current DEF PipelineInv, GivenOwn, VettedOwn
  <2>7. Unverified(g.answer) = {} /\ r.answer = g.answer
      BY <2>3, <2>5, <2>6, LegalVerified
  <2> QED BY <2>3, <2>7, VerifiedSaid
<1>4. ASSUME NEW kind, NEW text, Canned(h, kind, text) PROVE FALSE
    BY <1>0, <1>4 DEF Canned, TextReply
<1>5. CASE /\ request'[h] = request[h] /\ at'[h] = at[h]
           /\ reply'[h] = reply[h]
    BY <1>5 DEF CitationsInSources, Route
<1> QED BY <1>1, <1>2, <1>3, <1>4, <1>5, ReplyChange DEF Greet, Alarm

LEMMA SaidVerified ==
    ASSUME NEW a \in Answer,
           \A m \in a.phrases : Seen(m) => PlainlySaid(m, a)
    PROVE  Unverified(a) = {}
<1> SUFFICES ASSUME NEW m \in a.phrases, Seen(m)
             PROVE  \E e \in Entities(a) : Matches(Trimmed(m), e)
    BY DEF Unverified, VerifyCitations, ExtractCitations
<1>1. PICK k \in a.sources : \E x \in Text[k] :
          SameNumber(x, m) /\ Recognised(x) /\ x.tail # "-"
    BY DEF PlainlySaid
<1>2. PICK x \in Text[k] : SameNumber(x, m) /\ Recognised(x) /\ x.tail # "-"
    BY <1>1
<1>3. m \in Mention /\ x \in Mention
    BY TextAssumption DEF Answer
<1>4. Captured(x) \in Entities(a)
    BY <1>2 DEF Entities, ExtractEntities
<1>5. Matches(Trimmed(m), Captured(x))
    BY <1>2, <1>3, SameMatches
<1> QED BY <1>4, <1>5

LEMMA AcceptedKind ==
    ASSUME NEW h, NEW a, Unverified(a) = {}
    PROVE  LegalReply(h, a).kind \in {"no_context", "grounded"}
BY DEF LegalReply, Answered

\* What was given to a call, and that nothing is given to one nobody waits
\* for, is final.
LEMMA GivenStays ==
    ASSUME TypeInv, [Next]_vars, NEW c \in Calls,
           \/ given[c] # None
           \/ \A f \in Handlers : stage[f] = "waiting" => CallOf(f) # c
    PROVE  given'[c] = given[c]
<1>1. ASSUME NEW f \in Handlers, Execute(f) PROVE given'[c] = given[c]
  <2>1. CallOf(f) # c
      BY <1>1, ExecuteEffect
  <2>2. given \in [Calls -> Given \cup {None}]
      BY DEF TypeInv, GivenOK
  <2> QED BY <1>1, <2>1, <2>2, ExecuteEffect
          DEF Begins, Vets, Remembering, Gives
<1>2. CASE Forget
    BY <1>2 DEF Forget, Pipeline!Forget
<1> QED BY <1>1, <1>2, PipelineChange DEF pipelineVars

LEMMA GivenKept ==
    ASSUME TypeInv, [Next]_vars, NEW h \in Handlers, stage[h] = "replying"
    PROVE  given'[CallOf(h)] = given[CallOf(h)]
<1>1. CallOf(h) \in Calls
    BY Current
<1>2. \A f \in Handlers : stage[f] = "waiting" => CallOf(f) # CallOf(h)
    BY DEF CallOf
<1> QED BY <1>1, <1>2, GivenStays

LEMMA AcceptedStep ==
    TypeInv /\ PlainlySaidAccepted /\ [Next]_vars => PlainlySaidAccepted'
<1> SUFFICES ASSUME TypeInv, PlainlySaidAccepted, [Next]_vars,
                    NEW h \in Handlers,
                    stage'[h] = "replying", Route(h)' = "legal",
                    given'[CallOf(h)'].grounded,
                    \A m \in given'[CallOf(h)'].answer.phrases :
                        Seen(m) => PlainlySaid(m, given'[CallOf(h)'].answer)
             PROVE  reply'[h].kind # "unverified_citations"
    BY DEF PlainlySaidAccepted, PlainlySaid, SameNumber
<1> USE DEF Goto, Respond, Compose
<1>0. /\ stage \in [Handlers -> {"idle", "reading", "waiting", "replying", "done"}]
      /\ reply \in [Handlers -> Reply \cup {None}]
    BY DEF TypeInv, TypeOK
<1>1. ~Arrive(h) /\ ~Skip(h) /\ ~SendText(h)
    BY <1>0 DEF Arrive, Skip, SendText, Route, Reading
<1>2. CASE Returned(h)
  <2> DEFINE a == given[CallOf(h)].answer
  <2>1. /\ given'[CallOf(h)'] = given[CallOf(h)] /\ Route(h) = "legal"
      BY <1>2 DEF Returned, CallOf, Route, pipelineVars
  <2>2. reply'[h] = LegalReply(h, a)
      BY <1>0, <1>2, <2>1 DEF Returned
  <2>5. a \in Answer
    <3>1. given[CallOf(h)] \in Given
        BY <1>2, Current DEF Returned, TypeInv, GivenOK
    <3> QED BY <2>1, <3>1 DEF Given
  <2>3. Unverified(a) = {}
      BY <2>1, <2>5, SaidVerified
  <2>4. LegalReply(h, a).kind \in {"no_context", "grounded"}
      BY <2>3, AcceptedKind
  <2> QED BY <2>2, <2>4
<1>3. ASSUME NEW kind \in {"noop", "human"}, NEW text, Canned(h, kind, text)
      PROVE  reply'[h].kind # "unverified_citations"
    BY <1>0, <1>3 DEF Canned, TextReply
<1>4. CASE /\ request'[h] = request[h] /\ at'[h] = at[h]
           /\ reply'[h] = reply[h]
           /\ stage'[h] = "replying" => stage[h] = "replying"
  <2>1. stage[h] = "replying" /\ Route(h) = "legal"
      BY <1>4 DEF Route
  <2>2. CallOf(h)' = CallOf(h)
      BY <1>4 DEF CallOf
  <2>3. given'[CallOf(h)'] = given[CallOf(h)]
      BY <2>1, <2>2, GivenKept
  <2> QED BY <1>4, <2>1, <2>3 DEF PlainlySaidAccepted
<1> QED BY <1>1, <1>2, <1>3, <1>4, ReplyChange DEF Greet, Alarm

-----------------------------------------------------------------------------
(***************************************************************************)
(* A reply is formed for the message it is sent to.                        *)
(***************************************************************************)
LEMMA AsksStep == TypeInv /\ WaitingAsks /\ [Next]_vars => WaitingAsks'
<1> SUFFICES ASSUME TypeInv, WaitingAsks, [Next]_vars, NEW h \in Handlers,
                    stage'[h] = "waiting", Route(h)' # "legal"
             PROVE  MessageOf(h)'.text = "question"
    BY DEF WaitingAsks
<1> USE DEF Goto, Respond, Compose
<1>0. /\ stage \in [Handlers -> {"idle", "reading", "waiting", "replying", "done"}]
      /\ request \in [Handlers -> Requests \cup {None}]
      /\ at \in [Handlers -> Nat \ {0}]
    BY DEF TypeInv, TypeOK
<1>1. CASE Ask(h)
    BY <1>1 DEF Ask, Route, MessageOf
<1>2. CASE stage[h] = "waiting"
  <2>1. request'[h] = request[h]
      BY <1>2, BusyStays
  <2>2. ~Skip(h) /\ ~SendText(h)
      BY <1>2 DEF Skip, SendText, Reading
  <2>3. at'[h] = at[h]
      BY <2>2, AtChange
  <2> QED BY <1>2, <2>1, <2>3 DEF WaitingAsks, Route, MessageOf
<1>3. CASE stage[h] # "waiting" /\ ~Ask(h)
  <2>1. ASSUME NEW g \in Handlers, Execute(g) \/ Forget \/ UNCHANGED vars
        PROVE  FALSE
      BY <1>3, <2>1, ExecuteEffect DEF Forget, vars, handlerVars
  <2>2. ASSUME NEW g \in Handlers,
               \/ Arrive(g) \/ Invalid(g) \/ Skip(g) \/ Greet(g) \/ Alarm(g)
               \/ RejectBlank(g) \/ Returned(g) \/ SendText(g)
               \/ Show(g) \/ Ack(g) \/ Crash \/ (Ask(g) /\ g # h)
        PROVE  FALSE
      BY <1>0, <1>3, <2>2
      DEF Arrive, Invalid, Skip, Greet, Alarm, RejectBlank, Ask, Returned,
          SendText, Show, Ack, Crash, Canned
  <2> QED BY <1>3, <2>1, <2>2 DEF Next, Step
<1> QED BY <1>1, <1>2, <1>3

LEMMA ReturnedFits ==
    ASSUME TypeInv, WaitingAsks, NEW h \in Handlers, Returned(h),
           Route(h) # "legal"
    PROVE  ReplyFits(reply'[h], MessageOf(h), given[CallOf(h)])
<1> DEFINE g == given[CallOf(h)]
<1>1. PICK r \in Reply :
          /\ Compose(h, r)
          /\ \/ ~g.grounded /\ \E err \in BOOLEAN : r = FallbackReply(h, err)
             \/ g.grounded /\ r = PortariaReply(g.answer)
    BY ReturnedReply
<1>2. reply'[h] = r
    BY <1>1 DEF Compose, TypeInv, TypeOK
<1>3. MessageOf(h).text = "question" /\ g # None
    BY DEF Returned, WaitingAsks
<1>4. CASE ~g.grounded /\ \E err \in BOOLEAN : r = FallbackReply(h, err)
  <2>1. DOMAIN r = {"kind", "text", "err"} /\ r.text = "fallback"
      BY <1>4 DEF FallbackReply, TextReply
  <2> QED BY <1>2, <1>3, <1>4, <2>1 DEF ReplyFits, HasText
<1>5. CASE g.grounded /\ r = PortariaReply(g.answer)
  <2>1. DOMAIN r = {"kind", "answer", "err"} /\ r.answer = g.answer
      BY <1>5 DEF PortariaReply, Answered
  <2> QED BY <1>2, <1>3, <1>5, <2>1 DEF ReplyFits, HasText, HasAnswer
<1> QED BY <1>1, <1>4, <1>5

\* The canned replies fit whatever the call of the message was given.
LEMMA CannedFits ==
    ASSUME NEW kind, NEW text, NEW m, NEW g,
           \/ text = "greeting" /\ m.text = "blank"
           \/ text = "emergency" /\ m.text = "emergency"
    PROVE  ReplyFits(TextReply(kind, text, FALSE), m, g)
<1> DEFINE r == TextReply(kind, text, FALSE)
<1>1. DOMAIN r = {"kind", "text", "err"} /\ r.text = text
    BY DEF TextReply
<1> QED BY <1>1 DEF ReplyFits, HasText

LEMMA ReplyingStep ==
    TypeInv /\ WaitingAsks /\ ReplyingFits /\ [Next]_vars => ReplyingFits'
<1> SUFFICES ASSUME TypeInv, WaitingAsks, ReplyingFits, [Next]_vars,
                    NEW h \in Handlers,
                    stage'[h] = "replying", Route(h)' # "legal"
             PROVE  ReplyFits(reply'[h], MessageOf(h)', given'[CallOf(h)'])
    BY DEF ReplyingFits, ReplyFits, HasText, HasAnswer
<1> USE DEF handlerVars, Goto, Respond, Compose
<1>0. /\ stage \in [Handlers -> {"idle", "reading", "waiting", "replying", "done"}]
      /\ reply \in [Handlers -> Reply \cup {None}]
    BY DEF TypeInv, TypeOK
<1>1. ~Arrive(h) /\ ~Skip(h) /\ ~SendText(h)
    BY <1>0 DEF Arrive, Skip, SendText, Reading
<1>2. CASE Returned(h)
  <2>1. MessageOf(h)' = MessageOf(h) /\ Route(h) # "legal"
      BY <1>2 DEF Returned, MessageOf, Route
  <2>2. given'[CallOf(h)'] = given[CallOf(h)]
      BY <1>2 DEF Returned, CallOf, pipelineVars
  <2> QED BY <1>2, <2>1, <2>2, ReturnedFits
<1>3. ASSUME NEW kind, NEW text, Canned(h, kind, text),
             \/ text = "greeting" /\ MessageOf(h).text = "blank"
             \/ text = "emergency" /\ MessageOf(h).text = "emergency"
      PROVE  ReplyFits(reply'[h], MessageOf(h)', given'[CallOf(h)'])
  <2>1. MessageOf(h)' = MessageOf(h)
      BY <1>3 DEF Canned, MessageOf
  <2>2. reply'[h] = TextReply(kind, text, FALSE)
      BY <1>0, <1>3 DEF Canned
  <2> QED BY <1>3, <2>1, <2>2, CannedFits
<1>4. CASE /\ request'[h] = request[h] /\ at'[h] = at[h]
           /\ reply'[h] = reply[h]
           /\ stage'[h] = "replying" => stage[h] = "replying"
  <2>1. MessageOf(h)' = MessageOf(h) /\ Route(h)' = Route(h)
      BY <1>4 DEF MessageOf, Route
  <2>2. CallOf(h)' = CallOf(h)
      BY <1>4 DEF CallOf
  <2>3. given'[CallOf(h)'] = given[CallOf(h)]
      BY <1>4, <2>2, GivenKept
  <2> QED BY <1>4, <2>1, <2>3 DEF ReplyingFits
<1>5. CASE Greet(h)
  <2>1. Canned(h, "noop", "greeting") /\ MessageOf(h).text = "blank"
      BY <1>5 DEF Greet
  <2> QED BY <1>3, <2>1
<1>6. CASE Alarm(h)
  <2>1. Canned(h, "human", "emergency") /\ MessageOf(h).text = "emergency"
      BY <1>6 DEF Alarm
  <2> QED BY <1>3, <2>1
<1> QED BY <1>1, <1>2, <1>4, <1>5, <1>6, ReplyChange

LEMMA FitStep ==
    TypeInv /\ SendersBusy /\ ReplyingFits /\ RepliesFitMessages
        /\ [Next]_vars => RepliesFitMessages'
<1> SUFFICES ASSUME TypeInv, SendersBusy, ReplyingFits, RepliesFitMessages,
                    [Next]_vars, NEW s \in sends'
             PROVE  ReplyFits(s.reply, request'[s.handler].messages[s.at],
                              given'[<<s.handler, s.at>>])
    BY DEF RepliesFitMessages, ReplyFits, HasText, HasAnswer
<1>1. CASE s \in sends
  <2> DEFINE c == <<s.handler, s.at>>
             m == request[s.handler].messages[s.at]
  <2>1. s.handler \in Handlers /\ stage[s.handler] # "idle" /\ c \in Calls
      BY <1>1 DEF TypeInv, TypeOK, SendersBusy, Calls
  <2>2. request'[s.handler] = request[s.handler]
      BY <2>1, BusyStays
  <2>3. ReplyFits(s.reply, m, given[c])
      BY <1>1 DEF RepliesFitMessages
  <2>4. m.text = "question" => given'[c] = given[c]
      BY <2>1, <2>3, GivenStays DEF ReplyFits
  <2>5. ReplyFits(s.reply, m, given'[c])
      BY <2>3, <2>4 DEF ReplyFits
  <2> QED BY <2>2, <2>5
<1>2. ASSUME NEW h \in Handlers, SendText(h), s = Message1(h)
      PROVE  ReplyFits(s.reply, request'[s.handler].messages[s.at],
                       given'[<<s.handler, s.at>>])
  <2>1. /\ stage[h] = "replying" /\ Route(h) = "whatsapp"
        /\ request'[h] = request[h] /\ given' = given
      BY <1>2 DEF SendText, pipelineVars
  <2>2. ReplyFits(reply[h], MessageOf(h), given[CallOf(h)])
      BY <2>1 DEF ReplyingFits
  <2> QED BY <1>2, <2>1, <2>2 DEF Message1, MessageOf, CallOf
<1> QED BY <1>1, <1>2, SendsChange

-----------------------------------------------------------------------------
LEMMA ChannelInit == Init => ChannelInv
<1> SUFFICES ASSUME Init PROVE ChannelInv
    OBVIOUS
<1> USE DEF Init, Pipeline!Init
<1>1. PipelineInv
  <2>1. ScopesFit
      BY DEF ScopesFit, Calls
  <2>2. VettedOwn /\ MemoryOwn /\ GivenOwn
      BY DEF VettedOwn, MemoryOwn, GivenOwn
  <2> QED BY <2>1, <2>2 DEF PipelineInv
<1>2. RepliesOwn /\ SendsOwn /\ LeftAnswered /\ SendersBusy
    BY DEF RepliesOwn, SendsOwn, LeftAnswered, SendersBusy
<1>3. AckedAttempted /\ CitationsInSources
    BY DEF AckedAttempted, CitationsInSources
<1>4. /\ PlainlySaidAccepted /\ WaitingAsks /\ ReplyingFits
      /\ RepliesFitMessages
    BY DEF PlainlySaidAccepted, WaitingAsks, ReplyingFits, RepliesFitMessages
<1> QED BY <1>1, <1>2, <1>3, <1>4 DEF ChannelInv

LEMMA ChannelStep == TypeInv /\ ChannelInv /\ [Next]_vars => ChannelInv'
BY PipelineStep, RepliesStep, SendsStep, LeftStep, BusyStep, AckedStep,
   CitationsStep, AcceptedStep, AsksStep, ReplyingStep, FitStep
   DEF ChannelInv

LEMMA Invariance == Spec => [](TypeInv /\ ChannelInv)
<1> QED BY TypeInit, TypeStep, ChannelInit, ChannelStep, PTL DEF Spec

(***************************************************************************)
(* Whatever crashes, and however many goroutines handle a delivery at the  *)
(* same time, the platform sees it acknowledged only when every message    *)
(* that concerns the portaria had an attempted reply, sent or not.         *)
(***************************************************************************)
THEOREM AcksComeLast == Spec => []AckedAttempted
<1>1. ChannelInv => AckedAttempted
    BY DEF ChannelInv
<1> QED BY <1>1, Invariance, PTL

(***************************************************************************)
(* An answer reaches only lines of the tenant whose chunks it was written  *)
(* from, through any mix of channels, deliveries and cached answers.       *)
(***************************************************************************)
THEOREM TenantsKeptApart == Spec => []LinesApart
<1>1. TypeInv /\ ChannelInv => LinesApart
    BY DEF ChannelInv, RepliesOwn, SendsOwn, LinesApart
<1> QED BY <1>1, Invariance, PTL

(***************************************************************************)
(* What verification sees of the references of a strict legal answer, in   *)
(* category, number and letter o, a source of the answer says.             *)
(***************************************************************************)
THEOREM CitationsSaid == Spec => []CitationsInSources
<1>1. ChannelInv => CitationsInSources
    BY DEF ChannelInv
<1> QED BY <1>1, Invariance, PTL

(***************************************************************************)
(* An answer is never rejected for its citations when each of those that   *)
(* verification sees has a counterpart in a source, of the same category,  *)
(* number and letter o, which the worker recognises and nothing but a full *)
(* stop follows -- also when the answer came from the cache.               *)
(***************************************************************************)
THEOREM PlainCitationsPass == Spec => []PlainlySaidAccepted
<1>1. ChannelInv => PlainlySaidAccepted
    BY DEF ChannelInv
<1> QED BY <1>1, Invariance, PTL

(***************************************************************************)
(* Whatever was replied before in a delivery: the emergency text goes to   *)
(* emergencies only, and a question gets the answer the pipeline gave to   *)
(* its own call, or the fallback when that call ended without an answer.   *)
(***************************************************************************)
THEOREM RepliesInPlace == Spec => []RepliesFitMessages
<1>1. ChannelInv => RepliesFitMessages
    BY DEF ChannelInv
<1> QED BY <1>1, Invariance, PTL

-----------------------------------------------------------------------------
(***************************************************************************)
(* The channels use the pipeline within what AnswerService promises.       *)
(***************************************************************************)
LEMMA PipelineMoves ==
    TypeInv /\ [Next]_vars => [Pipeline!Next]_pipelineVars
<1> SUFFICES ASSUME TypeInv, [Next]_vars, ~UNCHANGED pipelineVars
             PROVE  Pipeline!Next
    OBVIOUS
<1>1. ASSUME NEW h \in Handlers, Execute(h) PROVE Pipeline!Next
  <2>1. CallOf(h) \in Calls
      BY <1>1, ExecuteEffect, Current
  <2>2. \/ Pipeline!Begin(CallOf(h)) \/ Pipeline!Vet(CallOf(h))
        \/ Pipeline!Remember(CallOf(h)) \/ Pipeline!Answer(CallOf(h))
        \/ Pipeline!Recall(CallOf(h)) \/ Pipeline!Apologise(CallOf(h))
      BY <1>1 DEF Execute
  <2> QED BY <2>1, <2>2 DEF Pipeline!Next
<1>2. CASE Forget
    BY <1>2 DEF Forget, Pipeline!Next
<1> QED BY <1>1, <1>2, PipelineChange

(***************************************************************************)
(* Every behaviour of the channels is one of AnswerService in the          *)
(* variables of the pipeline: crashes, redeliveries and replies apart, a   *)
(* channel sees nothing but what the pipeline promises every caller.       *)
(***************************************************************************)
THEOREM DrivesAnswerService == Spec => Pipeline!Spec
<1>1. Init => Pipeline!Init
    BY DEF Init
<1>2. pipelineVars = Pipeline!svcVars
    BY DEF pipelineVars, Pipeline!svcVars
<1>3. TypeInv /\ [Next]_vars => [Pipeline!Next]_Pipeline!svcVars
    BY <1>2, PipelineMoves DEF pipelineVars, Pipeline!svcVars
<1> QED BY <1>1, <1>3, Invariance, PTL DEF Spec, Pipeline!Spec

=============================================================================
