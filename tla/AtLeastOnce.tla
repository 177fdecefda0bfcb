----------------------------- MODULE AtLeastOnce -----------------------------
(***************************************************************************)
(* What the ingestion pipeline promises of the records of a partitioned    *)
(* topic: a record is acknowledged only after it was handled and never     *)
(* while one is in hand, records are acknowledged in order and for good,   *)
(* an acknowledged record is not taken up again, and nothing published or  *)
(* done is taken back.  A record may be taken up and handled several times *)
(* before it is acknowledged, and put down without being handled.          *)
(***************************************************************************)
EXTENDS Naturals, Sequences

CONSTANT Partitions

VARIABLES published, \* the messages of each partition
          done,      \* <<partition, offset>> of the messages handled
          acked,     \* acknowledged prefix of each partition
          working    \* <<partition, offset>> of the message in hand, if any

aloVars == <<published, done, acked, working>>

Init ==
    /\ published = [p \in Partitions |-> <<>>]
    /\ done = {}
    /\ acked = [p \in Partitions |-> 0]
    /\ working = {}

Publish(p) ==
    LET last == Len(published[p]) + 1
    IN /\ Len(published'[p]) = last
       /\ published' =
              [published EXCEPT ![p] = Append(@, published'[p][last])]
       /\ UNCHANGED <<done, acked, working>>

Take(p, o) ==
    /\ working = {} /\ acked[p] < o
    /\ working' = {<<p, o>>}
    /\ UNCHANGED <<published, done, acked>>

Handle(p, o) ==
    /\ <<p, o>> \in working
    /\ done' = done \cup {<<p, o>>}
    /\ UNCHANGED <<published, acked, working>>

PutDown == working' = {} /\ UNCHANGED <<published, done, acked>>

Acknowledge ==
    /\ working = {}
    /\ acked' \in [Partitions -> Nat]
    /\ \A p \in Partitions :
           /\ acked[p] <= acked'[p]
           /\ \A o \in 1 .. acked'[p] : <<p, o>> \in done
    /\ UNCHANGED <<published, done, working>>

Next ==
    \/ \E p \in Partitions : Publish(p)
    \/ \E p \in Partitions : \E o \in 1 .. Len(published[p]) :
           Take(p, o) \/ Handle(p, o)
    \/ PutDown \/ Acknowledge

Spec == Init /\ [][Next]_aloVars

-----------------------------------------------------------------------------
(***************************************************************************)
(* What an uploader can rely on.  Every record up to the acknowledged one  *)
(* was published and handled, and from one moment to the next records are  *)
(* only added at the end, handled or acknowledged.                         *)
(***************************************************************************)
NoneLost ==
    \A p \in Partitions : /\ acked[p] \in 0 .. Len(published[p])
                          /\ \A o \in 1 .. acked[p] : <<p, o>> \in done

\* A record once acknowledged is never in hand again.
NoneRetaken ==
    \A p \in Partitions : \A o \in 1 .. acked[p] : <<p, o>> \notin working

NothingUndone ==
    [][\A p \in Partitions :
           /\ acked[p] <= acked'[p] /\ done \subseteq done'
           /\ Len(published[p]) <= Len(published'[p])
           /\ \A o \in 1 .. Len(published[p]) :
                  published'[p][o] = published[p][o]
      ]_aloVars

=============================================================================
