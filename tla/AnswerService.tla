---------------------------- MODULE AnswerService ----------------------------
(***************************************************************************)
(* What the query pipeline promises its callers.  A call is replied to at  *)
(* most once and the reply is final.  An answer is given as grounded only  *)
(* after it was vetted: the call's own answer, or one from memory.  Memory *)
(* holds vetted answers only, each under the scope (tenant and teams) of   *)
(* the call it was written for, and serves it to calls of that scope only. *)
(***************************************************************************)
CONSTANTS Calls, Scopes, None

VARIABLES scope,  \* scope of a call, None until it is known
          vetted, \* answers found grounded
          memory, \* [scope, answer] records that may be served again
          given   \* reply of a call, None before it

svcVars == <<scope, vetted, memory, given>>

Init ==
    /\ scope = [c \in Calls |-> None]
    /\ vetted = {} /\ memory = {}
    /\ given = [c \in Calls |-> None]

Begin(c) ==
    /\ scope[c] = None /\ given[c] = None
    /\ \E s \in Scopes : scope' = [scope EXCEPT ![c] = s]
    /\ UNCHANGED <<vetted, memory, given>>

\* The answer of a call is vetted while the caller still waits for it.
Vet(c) ==
    /\ given[c] = None
    /\ vetted \subseteq vetted'
    /\ \A a \in vetted' \ vetted : a.call = c
    /\ UNCHANGED <<scope, memory, given>>

\* Memory may always forget, and takes in a vetted answer of a waiting call.
Remembers(c, a) ==
    memory' \subseteq memory \cup {[scope |-> scope[c], answer |-> a]}

Remember(c) ==
    /\ given[c] = None /\ scope[c] # None
    /\ \E a \in vetted : a.call = c /\ Remembers(c, a)
    /\ UNCHANGED <<scope, vetted, given>>

Forget == memory' \subseteq memory /\ UNCHANGED <<scope, vetted, given>>

Give(c, r) == given[c] = None /\ given' = [given EXCEPT ![c] = r]

\* An error, "no documents", or the fallback sentence.
Apologise(c) ==
    /\ Give(c, [grounded |-> FALSE])
    /\ UNCHANGED <<scope, vetted, memory>>

Answer(c) ==
    /\ scope[c] # None
    /\ \E a \in vetted :
           /\ a.call = c
           /\ Give(c, [grounded |-> TRUE, answer |-> a])
           /\ Remembers(c, a)
    /\ UNCHANGED <<scope, vetted>>

Recall(c) ==
    /\ \E m \in memory :
           /\ m.scope = scope[c]
           /\ Give(c, [grounded |-> TRUE, answer |-> m.answer])
    /\ UNCHANGED <<scope, vetted, memory>>

Next ==
    \/ \E c \in Calls : \/ Begin(c) \/ Vet(c) \/ Remember(c) \/ Apologise(c)
                        \/ Answer(c) \/ Recall(c)
    \/ Forget

Spec == Init /\ [][Next]_svcVars

-----------------------------------------------------------------------------
(***************************************************************************)
(* What a caller can rely on.  A grounded reply is a vetted answer, written *)
(* for the caller's own scope, by whichever call it was written.           *)
(***************************************************************************)
ServedInScope ==
    \A c \in Calls : given[c] # None /\ given[c].grounded =>
        LET a == given[c].answer
        IN a \in vetted /\ scope[c] # None /\ scope[a.call] = scope[c]

\* A reply is never changed or withdrawn, and no call changes its scope,
\* although answers of other calls come and go in memory.
FinalReplies ==
    [][\A c \in Calls : /\ given[c] # None => given'[c] = given[c]
                        /\ scope[c] # None => scope'[c] = scope[c]]_svcVars

=============================================================================
