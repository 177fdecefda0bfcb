------------------------ MODULE AnswerService_proofs ------------------------
(***************************************************************************)
(* What follows from the promises of AnswerService, for every program that *)
(* implements it.                                                          *)
(***************************************************************************)
EXTENDS AnswerService, TLAPS

\* Memory holds vetted answers under the scope of the calls they are of.
MemoryVetted ==
    \A m \in memory : /\ m.scope # None /\ m.answer \in vetted
                      /\ scope[m.answer.call] = m.scope

VettedOfCalls == \A a \in vetted : a.call \in Calls

Promise == /\ scope \in [Calls -> Scopes \cup {None}]
           /\ DOMAIN given = Calls
           /\ VettedOfCalls /\ MemoryVetted /\ ServedInScope

LEMMA PromiseInit == Init => Promise
BY DEF Init, Promise, VettedOfCalls, MemoryVetted, ServedInScope

\* What a step may do to scopes and replies.
LEMMA Settled ==
    ASSUME Promise, [Next]_svcVars, NEW c \in Calls
    PROVE  /\ given[c] # None => given'[c] = given[c]
           /\ scope[c] # None => scope'[c] = scope[c]
BY DEF Promise, Next, svcVars, Begin, Vet, Remember, Forget, Give, Apologise,
       Answer, Recall

\* What remains true of memory and of the replies when scopes stay settled.
LEMMA RememberStep ==
    ASSUME Promise, NEW c \in Calls, NEW a \in vetted, a.call = c,
           scope[c] # None, Remembers(c, a), UNCHANGED <<scope, vetted>>
    PROVE  MemoryVetted'
<1>1. ASSUME NEW m \in memory' PROVE m \in memory \/ m = [scope |-> scope[c], answer |-> a]
    BY DEF Remembers
<1> QED BY <1>1 DEF Promise, MemoryVetted

LEMMA GiveStep ==
    ASSUME Promise, NEW c \in Calls, NEW r, Give(c, r),
           UNCHANGED <<scope, vetted>>,
           r.grounded => /\ r.answer \in vetted /\ scope[c] # None
                         /\ scope[r.answer.call] = scope[c]
    PROVE  ServedInScope' /\ DOMAIN given' = Calls
BY DEF Promise, Give, ServedInScope

LEMMA PromiseStep == Promise /\ [Next]_svcVars => Promise'
<1> SUFFICES ASSUME Promise, [Next]_svcVars PROVE Promise'
    OBVIOUS
<1>0. /\ scope \in [Calls -> Scopes \cup {None}] /\ DOMAIN given = Calls
      /\ VettedOfCalls /\ MemoryVetted /\ ServedInScope
    BY DEF Promise
<1>1. ASSUME NEW c \in Calls, Begin(c) PROVE Promise'
  <2>1. PICK s \in Scopes : scope' = [scope EXCEPT ![c] = s]
      BY <1>1 DEF Begin
  <2>2. scope' \in [Calls -> Scopes \cup {None}]
      BY <1>0, <2>1
  <2>3. \A d \in Calls : scope[d] # None => scope'[d] = scope[d]
      BY Settled
  <2>4. MemoryVetted'
    <3>1. ASSUME NEW m \in memory
          PROVE  /\ m.scope # None /\ m.answer \in vetted
                 /\ scope'[m.answer.call] = m.scope
        BY <1>0, <2>3 DEF MemoryVetted, VettedOfCalls
    <3> QED BY <1>1, <3>1 DEF Begin, MemoryVetted
  <2>5. ServedInScope'
      BY <1>0, <1>1, <2>3 DEF Begin, ServedInScope, VettedOfCalls
  <2> QED BY <1>0, <1>1, <2>2, <2>4, <2>5 DEF Begin, Promise, VettedOfCalls
<1>2. ASSUME NEW c \in Calls, Vet(c) PROVE Promise'
  <2>1. vetted \subseteq vetted' /\ UNCHANGED <<scope, memory, given>>
      BY <1>2 DEF Vet
  <2>2. VettedOfCalls'
      BY <1>0, <1>2 DEF Vet, VettedOfCalls
  <2>3. MemoryVetted' /\ ServedInScope'
      BY <1>0, <2>1 DEF MemoryVetted, ServedInScope
  <2> QED BY <1>0, <2>1, <2>2, <2>3 DEF Promise
<1>3. ASSUME NEW c \in Calls, Remember(c) PROVE Promise'
  <2>1. MemoryVetted'
      BY <1>3, RememberStep DEF Remember
  <2> QED BY <1>0, <1>3, <2>1
          DEF Remember, Promise, VettedOfCalls, ServedInScope
<1>4. ASSUME NEW c \in Calls, Apologise(c) PROVE Promise'
  <2>1. ServedInScope' /\ DOMAIN given' = Calls
      BY <1>4, GiveStep DEF Apologise
  <2> QED BY <1>0, <1>4, <2>1
          DEF Apologise, Promise, VettedOfCalls, MemoryVetted
<1>5. ASSUME NEW c \in Calls, Answer(c) PROVE Promise'
  <2>1. PICK a \in vetted : /\ a.call = c /\ Remembers(c, a)
                            /\ Give(c, [grounded |-> TRUE, answer |-> a])
      BY <1>5 DEF Answer
  <2>2. scope[c] # None /\ UNCHANGED <<scope, vetted>>
      BY <1>5 DEF Answer
  <2>3. MemoryVetted'
      BY <2>1, <2>2, RememberStep
  <2>4. ServedInScope' /\ DOMAIN given' = Calls
      BY <2>1, <2>2, GiveStep
  <2> QED BY <1>0, <2>2, <2>3, <2>4 DEF Promise, VettedOfCalls
<1>6. ASSUME NEW c \in Calls, Recall(c) PROVE Promise'
  <2>1. PICK m \in memory :
            /\ m.scope = scope[c]
            /\ Give(c, [grounded |-> TRUE, answer |-> m.answer])
      BY <1>6 DEF Recall
  <2>2. /\ m.answer \in vetted /\ scope[c] # None
        /\ scope[m.answer.call] = scope[c]
      BY <1>0, <2>1 DEF MemoryVetted
  <2>3. UNCHANGED <<scope, vetted, memory>>
      BY <1>6 DEF Recall
  <2>4. ServedInScope' /\ DOMAIN given' = Calls
      BY <2>1, <2>2, <2>3, GiveStep
  <2> QED BY <1>0, <2>3, <2>4 DEF Promise, VettedOfCalls, MemoryVetted
<1>7. CASE Forget \/ UNCHANGED svcVars
  <2>1. memory' \subseteq memory /\ UNCHANGED <<scope, vetted, given>>
      BY <1>7 DEF Forget, svcVars
  <2> QED BY <1>0, <2>1
          DEF Promise, VettedOfCalls, MemoryVetted, ServedInScope
<1> QED BY <1>1, <1>2, <1>3, <1>4, <1>5, <1>6, <1>7 DEF Next

LEMMA PromiseHolds == Spec => []Promise
<1> QED BY PromiseInit, PromiseStep, PTL DEF Spec

(***************************************************************************)
(* A grounded reply, fresh or from memory, is an answer that was vetted,   *)
(* of a call with the scope of the caller.                                 *)
(***************************************************************************)
THEOREM RepliesServedInScope == Spec => []ServedInScope
<1>1. Promise => ServedInScope
    BY DEF Promise
<1> QED BY <1>1, PromiseHolds, PTL

(***************************************************************************)
(* A reply is final, and so is the scope of a call.                        *)
(***************************************************************************)
THEOREM RepliesAreFinal == Spec => FinalReplies
<1>1. Promise /\ [Next]_svcVars =>
          [\A c \in Calls : /\ given[c] # None => given'[c] = given[c]
                            /\ scope[c] # None => scope'[c] = scope[c]]_svcVars
    BY Settled
<1> QED BY <1>1, PromiseHolds, PTL DEF Spec, FinalReplies

=============================================================================
