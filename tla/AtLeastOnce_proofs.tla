------------------------- MODULE AtLeastOnce_proofs -------------------------
(***************************************************************************)
(* What follows from the promises of AtLeastOnce, for every program that   *)
(* implements it.                                                          *)
(***************************************************************************)
EXTENDS AtLeastOnce, SequenceTheorems, TLAPS

IsSequence(s) == \E S : s \in Seq(S)

\* Only published records are handled, an acknowledged one was, and none in
\* hand is acknowledged.
Promise ==
    /\ published = [p \in Partitions |-> published[p]]
    /\ \A p \in Partitions : IsSequence(published[p])
    /\ acked \in [Partitions -> Nat]
    /\ \A p \in Partitions : \A o \in Nat :
           <<p, o>> \in done => o \in 1 .. Len(published[p])
    /\ \A p \in Partitions : \A o \in 1 .. acked[p] : <<p, o>> \in done
    /\ NoneRetaken

LEMMA PromiseInit == Init => Promise
<1> SUFFICES ASSUME Init PROVE Promise
    OBVIOUS
<1>1. IsSequence(<<>>)
  <2>1. <<>> \in Seq({})
      OBVIOUS
  <2> QED BY <2>1 DEF IsSequence
<1>2. ASSUME NEW p \in Partitions PROVE 1 .. acked[p] = {}
  <2>1. acked[p] = 0
      BY DEF Init
  <2> QED BY <2>1
<1> QED BY <1>1, <1>2 DEF Init, Promise, NoneRetaken

LEMMA Appended ==
    ASSUME NEW s, IsSequence(s), NEW x
    PROVE  /\ IsSequence(Append(s, x)) /\ Len(s) \in Nat
           /\ Len(Append(s, x)) = Len(s) + 1
           /\ \A o \in 1 .. Len(s) : Append(s, x)[o] = s[o]
<1>1. PICK S : s \in Seq(S)
    BY DEF IsSequence
<1> DEFINE T == S \cup {x}
<1>2. s \in Seq(T) /\ x \in T
    BY <1>1
<1> HIDE DEF T
<1>3. /\ Append(s, x) \in Seq(T) /\ Len(Append(s, x)) = Len(s) + 1
      /\ \A o \in 1 .. Len(s) : Append(s, x)[o] = s[o]
    BY <1>2, AppendProperties
<1> QED BY <1>2, <1>3, LenProperties DEF IsSequence

\* Records are only added to a partition.
Grows(p) ==
    /\ IsSequence(published'[p])
    /\ Len(published[p]) \in Nat /\ Len(published'[p]) \in Nat
    /\ Len(published[p]) <= Len(published'[p])
    /\ \A o \in 1 .. Len(published[p]) : published'[p][o] = published[p][o]

LEMMA SequencesGrow ==
    ASSUME Promise, [Next]_aloVars, NEW p \in Partitions PROVE Grows(p)
<1>1. IsSequence(published[p]) /\ Len(published[p]) \in Nat
    BY Appended DEF Promise
<1>2. ASSUME NEW q \in Partitions, Publish(q) PROVE Grows(p)
  <2>1. PICK x : published' = [published EXCEPT ![q] = Append(@, x)]
      BY <1>2 DEF Publish
  <2>2. CASE p = q
    <3>1. published'[p] = Append(published[p], x)
        BY <2>1, <2>2 DEF Promise
    <3> QED BY <1>1, <3>1, Appended DEF Grows
  <2>3. CASE p # q
    <3>1. published'[p] = published[p]
        BY <2>1, <2>3 DEF Promise
    <3> QED BY <1>1, <3>1 DEF Grows
  <2> QED BY <2>2, <2>3
<1>3. CASE UNCHANGED published
    BY <1>1, <1>3 DEF Grows
<1> QED BY <1>2, <1>3 DEF Next, aloVars, Take, Handle, PutDown, Acknowledge

\* Nor is anything handled or acknowledged taken back.
Keeps(p) ==
    /\ acked[p] \in Nat /\ acked'[p] \in Nat /\ acked[p] <= acked'[p]
    /\ done \subseteq done'
    /\ \A o \in 1 .. acked'[p] : <<p, o>> \in done'

LEMMA AcksKept ==
    ASSUME Promise, [Next]_aloVars, NEW p \in Partitions PROVE Keeps(p)
<1>1. acked \in [Partitions -> Nat] /\ acked[p] \in Nat
    BY DEF Promise
<1>2. \A o \in 1 .. acked[p] : <<p, o>> \in done
    BY DEF Promise
<1>3. CASE Acknowledge
    BY <1>1, <1>3 DEF Acknowledge, Keeps
<1>4. CASE acked' = acked /\ done \subseteq done'
    BY <1>1, <1>2, <1>4 DEF Keeps
<1> QED BY <1>3, <1>4 DEF Next, aloVars, Publish, Take, Handle, PutDown

LEMMA PromiseStep == Promise /\ [Next]_aloVars => Promise'
<1> SUFFICES ASSUME Promise, [Next]_aloVars PROVE Promise'
    OBVIOUS
<1>1. published' = [p \in Partitions |-> published'[p]]
    BY DEF Promise, Next, aloVars, Publish, Take, Handle, PutDown, Acknowledge
<1>2. \A p \in Partitions : IsSequence(published'[p])
    BY SequencesGrow DEF Grows
<1>3. acked' \in [Partitions -> Nat]
    BY DEF Promise, Next, aloVars, Publish, Take, Handle, PutDown, Acknowledge
<1>4. \A p \in Partitions : \A o \in 1 .. acked'[p] : <<p, o>> \in done'
    BY AcksKept DEF Keeps
<1>5. ASSUME NEW p \in Partitions, NEW o \in Nat, <<p, o>> \in done'
      PROVE  o \in 1 .. Len(published'[p])
  <2>1. o \in 1 .. Len(published[p])
    <3>1. CASE <<p, o>> \in done
        BY <3>1 DEF Promise
    <3>2. CASE <<p, o>> \notin done
      <4>1. PICK q \in Partitions :
                \E n \in 1 .. Len(published[q]) : Handle(q, n)
          BY <1>5, <3>2 DEF Next, aloVars, Publish, Take, PutDown, Acknowledge
      <4>2. PICK n \in 1 .. Len(published[q]) : Handle(q, n)
          BY <4>1
      <4>3. <<p, o>> = <<q, n>>
          BY <1>5, <3>2, <4>2 DEF Handle
      <4> QED BY <4>2, <4>3
    <3> QED BY <3>1, <3>2
  <2> QED BY <2>1, SequencesGrow DEF Grows
<1>6. NoneRetaken'
  <2> SUFFICES ASSUME NEW p \in Partitions, NEW o \in 1 .. acked'[p],
                      <<p, o>> \in working'
               PROVE  FALSE
      BY DEF NoneRetaken
  <2>1. acked[p] \in Nat /\ acked'[p] \in Nat
      BY <1>3 DEF Promise
  <2>2. o > acked[p] \/ <<p, o>> \notin working
      BY <2>1 DEF Promise, NoneRetaken
  <2>3. CASE acked' = acked /\ working' \subseteq working
      BY <2>1, <2>2, <2>3
  <2>4. ASSUME NEW q \in Partitions, NEW n \in 1 .. Len(published[q]),
               Take(q, n)
        PROVE  FALSE
      BY <2>1, <2>4 DEF Take
  <2>5. ~Acknowledge
      BY DEF Acknowledge
  <2> QED BY <2>3, <2>4, <2>5
          DEF Next, aloVars, Publish, Handle, PutDown
<1> QED BY <1>1, <1>2, <1>3, <1>4, <1>5, <1>6 DEF Promise

LEMMA PromiseHolds == Spec => []Promise
<1> QED BY PromiseInit, PromiseStep, PTL DEF Spec

(***************************************************************************)
(* Only published records are acknowledged, and only after each was        *)
(* handled.                                                                *)
(***************************************************************************)
THEOREM AcknowledgedHandled == Spec => []NoneLost
<1>1. Promise => NoneLost
  <2> SUFFICES ASSUME Promise, NEW p \in Partitions
               PROVE  /\ acked[p] \in 0 .. Len(published[p])
                      /\ \A o \in 1 .. acked[p] : <<p, o>> \in done
      BY DEF NoneLost
  <2>1. /\ acked[p] \in Nat /\ Len(published[p]) \in Nat
        /\ \A o \in 1 .. acked[p] : <<p, o>> \in done
      BY Appended DEF Promise
  <2>2. acked[p] # 0 => acked[p] \in 1 .. Len(published[p])
    <3>1. acked[p] # 0 => <<p, acked[p]>> \in done
        BY <2>1
    <3> QED BY <2>1, <3>1 DEF Promise
  <2> QED BY <2>1, <2>2
<1> QED BY <1>1, PromiseHolds, PTL

(***************************************************************************)
(* A record that was acknowledged is never in hand again, whatever was put *)
(* down or taken up in between.                                            *)
(***************************************************************************)
THEOREM AcknowledgedLeftAlone == Spec => []NoneRetaken
<1>1. Promise => NoneRetaken
    BY DEF Promise
<1> QED BY <1>1, PromiseHolds, PTL

(***************************************************************************)
(* Nothing published, handled or acknowledged is taken back.               *)
(***************************************************************************)
THEOREM NothingTakenBack == Spec => NothingUndone
<1> DEFINE Kept ==
        \A p \in Partitions :
           /\ acked[p] <= acked'[p] /\ done \subseteq done'
           /\ Len(published[p]) <= Len(published'[p])
           /\ \A o \in 1 .. Len(published[p]) :
                  published'[p][o] = published[p][o]
<1>1. Promise /\ [Next]_aloVars => [Kept]_aloVars
    BY SequencesGrow, AcksKept DEF Promise, Grows, Keeps
<1> QED BY <1>1, PromiseHolds, PTL DEF Spec, NothingUndone

=============================================================================
