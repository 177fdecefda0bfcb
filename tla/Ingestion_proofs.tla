-------------------------- MODULE Ingestion_proofs --------------------------
(***************************************************************************)
(* Proofs about document ingestion.                                        *)
(***************************************************************************)
EXTENDS Ingestion, TLAPS

(***************************************************************************)
(* The type invariant is not inductive alone: the worker computes a path   *)
(* from the request behind a record, and indexes a partition by the record *)
(* it handles.                                                             *)
(***************************************************************************)
\* Only admitted uploads reach the writer and the topic, and a batch the
\* writer still holds has an attempt left.
Logged(u) == \E p \in Partitions : \E i \in 1 .. Len(log[p]) :
                 log[p][i].upload = u
EventsAdmitted ==
    \A u \in Uploads :
        /\ batch[u].state # "none" \/ Logged(u) => Admitted(u)
        /\ batch[u].state = "queued" => batch[u].tries < MaxAttempts

\* The worker handles a record of the topic, with bytes of some upload.
Reading == wpc \in {"download", "store", "report", "fail", "commit",
                    "commit_and_exit"}
MsgIsRecord ==
    /\ Reading => msg \in Coordinate /\ IsRecord(msg)
    /\ wpc = "store" => doc \in Uploads /\ RecordAt(msg).upload # Malformed

TypeInv == TypeOK /\ EventsAdmitted /\ MsgIsRecord

USE DEF Admitted, InProgress

LEMMA TypeInit == Init => TypeInv
<1> SUFFICES ASSUME Init PROVE TypeInv
    OBVIOUS
<1> USE DEF Init, HandlerInit, WriterInit, WorkerInit
<1>1. batch \in [Uploads -> Batch]
    BY SizesAssumption DEF Batch
<1>2. /\ log \in [Partitions -> Seq(Record)] /\ msg \in {NoRecord}
      /\ points \in [Paths -> [Chunks -> Point \cup {NoPoint}]]
      /\ faults \in 0 .. MaxFaults
    BY SizesAssumption
<1>5. TypeOK
    BY <1>1, <1>2 DEF TypeOK
<1>3. EventsAdmitted
    BY DEF EventsAdmitted, Logged
<1>4. MsgIsRecord
    BY DEF MsgIsRecord, Reading
<1> QED BY <1>3, <1>4, <1>5 DEF TypeInv
\* A coordinate inside the log names a record of its type.
LEMMA RecordType ==
    ASSUME TypeOK, NEW c \in Coordinate, IsRecord(c)
    PROVE  /\ RecordAt(c) \in Record
           /\ RecordAt(c).upload # Malformed =>
                  RecordAt(c).upload \in Uploads /\ Logged(RecordAt(c).upload)
<1>1. log[c.part] \in Seq(Record) /\ c.part \in Partitions
    BY DEF TypeOK, Coordinate
<1>2. RecordAt(c) \in Record
    BY <1>1 DEF IsRecord, RecordAt
<1>3. Logged(RecordAt(c).upload)
    BY <1>1 DEF IsRecord, RecordAt, Logged
<1> QED BY <1>2, <1>3 DEF Record

\* The writer appends a record of an admitted upload, or of nobody.
LEMMA AppendType ==
    ASSUME TypeOK, NEW p \in Partitions, NEW m \in Uploads \cup {Malformed},
           Append1(p, m)
    PROVE  /\ log' \in [Partitions -> Seq(Record)] /\ appends' \in Nat
           /\ \A u \in Uploads : Logged(u)' => Logged(u) \/ u = m
           /\ \A c \in Coordinate : IsRecord(c) =>
                  IsRecord(c)' /\ RecordAt(c)' = RecordAt(c)
<1> USE DEF TypeOK, Append1
<1> DEFINE r == [upload |-> m, at |-> appends]
<1>1. r \in Record
    BY DEF Record
<1>2. log' \in [Partitions -> Seq(Record)] /\ appends' \in Nat
    BY <1>1
<1>3. ASSUME NEW q \in Partitions, NEW i \in 1 .. Len(log'[q])
      PROVE  log'[q][i] = r \/ (i \in 1 .. Len(log[q]) /\ log'[q][i] = log[q][i])
    BY <1>1
<1>4. ASSUME NEW q \in Partitions, NEW i \in 1 .. Len(log[q])
      PROVE  i \in 1 .. Len(log'[q]) /\ log'[q][i] = log[q][i]
    BY <1>1
<1>5. ASSUME NEW u \in Uploads, Logged(u)' PROVE Logged(u) \/ u = m
  <2>1. PICK q \in Partitions : \E i \in 1 .. Len(log'[q]) :
                                    log'[q][i].upload = u
      BY <1>5 DEF Logged
  <2>2. PICK i \in 1 .. Len(log'[q]) : log'[q][i].upload = u
      BY <2>1
  <2>3. CASE log'[q][i] = r
      BY <2>2, <2>3
  <2>4. CASE i \in 1 .. Len(log[q]) /\ log'[q][i] = log[q][i]
      BY <2>2, <2>4 DEF Logged
  <2> QED BY <1>3, <2>3, <2>4
<1>6. \A c \in Coordinate : IsRecord(c) => IsRecord(c)' /\ RecordAt(c)' = RecordAt(c)
    BY <1>4 DEF Coordinate, IsRecord, RecordAt
<1> QED BY <1>2, <1>5, <1>6

\* One write attempt leaves the writer's batches well formed.
LEMMA AttemptType ==
    ASSUME TypeInv, NEW u \in Uploads, Attempt(u)
    PROVE  /\ batch' \in [Uploads -> Batch]
           /\ batch[u].part \in Partitions /\ Admitted(u)
           /\ \A v \in Uploads :
                  /\ batch'[v].state # "none" => Admitted(v)
                  /\ batch'[v].state = "queued" => batch'[v].tries < MaxAttempts
<1> DEFINE b == batch[u]
<1>1. batch \in [Uploads -> Batch] /\ b \in Batch
    BY DEF TypeInv, TypeOK
<1>2. b.state = "queued" /\ Admitted(u) /\ b.tries < MaxAttempts
    BY DEF Attempt, TypeInv, EventsAdmitted
<1>3. b.part \in Partitions /\ b.tries \in Nat /\ MaxAttempts \in Nat
    BY <1>1, SizesAssumption DEF Batch
<1>4. PICK s \in {"queued", "written", "failed"} :
          /\ batch' = [batch EXCEPT ![u] = [state |-> s, part |-> b.part,
                                            tries |-> b.tries + 1]]
          /\ s = "queued" => b.tries + 1 < MaxAttempts
    BY <1>1, <1>2 DEF Attempt, Batch
<1>5. [state |-> s, part |-> b.part, tries |-> b.tries + 1] \in Batch
    BY <1>2, <1>3 DEF Batch
<1>6. batch' \in [Uploads -> Batch]
    BY <1>1, <1>4, <1>5
<1>7. ASSUME NEW v \in Uploads
      PROVE  /\ batch'[v].state # "none" => Admitted(v)
             /\ batch'[v].state = "queued" => batch'[v].tries < MaxAttempts
  <2>1. CASE v = u
      BY <1>1, <1>2, <1>4, <2>1
  <2>2. CASE v # u
      BY <1>1, <1>4, <2>2 DEF TypeInv, EventsAdmitted
  <2> QED BY <2>1, <2>2
<1> QED BY <1>2, <1>3, <1>6, <1>7

LEMMA TypeStep == TypeInv /\ [Next]_vars => TypeInv'
<1> SUFFICES ASSUME TypeInv, [Next]_vars PROVE TypeInv'
    OBVIOUS
<1> USE DEF TypeInv, TypeOK, gatewayVars, storeVars, topicVars, workerVars
<1>0. UNCHANGED log => \A u \in Uploads : Logged(u)' <=> Logged(u)
    BY DEF Logged
<1>1. ASSUME NEW u \in Uploads, Receive(u) PROVE TypeInv'
  <2> USE <1>1 DEF Receive
  <2>1. TypeOK'
      BY RequestsAssumption, NullsAssumption DEF Valid
  <2>2. EventsAdmitted'
      BY <1>0 DEF EventsAdmitted
  <2>3. MsgIsRecord'
      BY DEF MsgIsRecord, Reading, IsRecord, RecordAt
  <2> QED BY <2>1, <2>2, <2>3
<1>2. ASSUME NEW u \in Uploads, PutObject(u) PROVE TypeInv'
  <2> USE <1>2 DEF PutObject
  <2>1. TypeOK'
      OBVIOUS
  <2>2. EventsAdmitted'
      BY <1>0 DEF EventsAdmitted
  <2>3. MsgIsRecord'
      BY DEF MsgIsRecord, Reading, IsRecord, RecordAt
  <2> QED BY <2>1, <2>2, <2>3
<1>3. ASSUME NEW u \in Uploads, Publish(u) PROVE TypeInv'
  <2> USE <1>3 DEF Publish
  <2>4. \A p \in Partitions :
            [state |-> "queued", part |-> p, tries |-> 0] \in Batch
      BY SizesAssumption DEF Batch
  <2>1. TypeOK'
      BY <2>4
  <2>2. EventsAdmitted'
    <3>1. PICK p \in Partitions : batch' = [batch EXCEPT
                     ![u] = [state |-> "queued", part |-> p, tries |-> 0]]
        OBVIOUS
    <3>2. ASSUME NEW v \in Uploads
          PROVE  /\ batch'[v].state # "none" => Admitted(v)'
                 /\ batch'[v].state = "queued" => batch'[v].tries < MaxAttempts
        BY <3>1, SizesAssumption DEF EventsAdmitted
    <3>3. ASSUME NEW v \in Uploads, Admitted(v) PROVE Admitted(v)'
        BY <3>3
    <3> QED BY <1>0, <3>2, <3>3 DEF EventsAdmitted
  <2>3. MsgIsRecord'
      BY DEF MsgIsRecord, Reading, IsRecord, RecordAt
  <2> QED BY <2>1, <2>2, <2>3
<1>4. ASSUME NEW u \in Uploads, Await(u) PROVE TypeInv'
  <2> USE <1>4 DEF Await
  <2>1. TypeOK'
      OBVIOUS
  <2>2. EventsAdmitted'
      BY <1>0 DEF EventsAdmitted
  <2>3. MsgIsRecord'
      BY DEF MsgIsRecord, Reading, IsRecord, RecordAt
  <2> QED BY <2>1, <2>2, <2>3
<1>5. ASSUME NEW u \in Uploads, CreateDocumentRelationships(u) PROVE TypeInv'
  <2> USE <1>5 DEF CreateDocumentRelationships
  <2>1. DocumentTuples(u) \subseteq Tuple
    <3>1. /\ request[u].tenant \in Tenants /\ request[u].user \in Users
          /\ request[u].file \in Files /\ request[u].teams \subseteq Teams
        BY RequestsAssumption DEF Valid
    <3>2. ObjectName[request[u].file] \in ObjectNames
        BY <3>1, SizesAssumption
    <3> QED BY <3>1, <3>2 DEF DocumentTuples, Tuple
  <2>2. TypeOK'
      BY <2>1
  <2>3. EventsAdmitted'
      BY <1>0 DEF EventsAdmitted
  <2>4. MsgIsRecord'
      BY DEF MsgIsRecord, Reading, IsRecord, RecordAt
  <2> QED BY <2>2, <2>3, <2>4

<1>6. ASSUME NEW u \in Uploads, Attempt(u) PROVE TypeInv'
  <2> USE <1>6 DEF Attempt
  <2>3. /\ batch' \in [Uploads -> Batch]
        /\ batch[u].part \in Partitions /\ Admitted(u)
        /\ \A v \in Uploads :
               /\ batch'[v].state # "none" => Admitted(v)
               /\ batch'[v].state = "queued" => batch'[v].tries < MaxAttempts
      BY AttemptType
  <2>4. CASE UNCHANGED topicVars
    <3>1. TypeOK'
        BY <2>3, <2>4
    <3>2. EventsAdmitted'
        BY <1>0, <2>3, <2>4 DEF EventsAdmitted
    <3>3. MsgIsRecord'
        BY <2>4 DEF MsgIsRecord, Reading, IsRecord, RecordAt
    <3> QED BY <3>1, <3>2, <3>3
  <2>5. CASE Append1(batch[u].part, u)
    <3>1. /\ log' \in [Partitions -> Seq(Record)] /\ appends' \in Nat
          /\ \A v \in Uploads : Logged(v)' => Logged(v) \/ v = u
          /\ \A c \in Coordinate : IsRecord(c) =>
                 IsRecord(c)' /\ RecordAt(c)' = RecordAt(c)
        BY <2>3, <2>5, AppendType
    <3>2. TypeOK'
        BY <2>3, <3>1
    <3>3. EventsAdmitted'
        BY <2>3, <3>1 DEF EventsAdmitted
    <3>4. MsgIsRecord'
        BY <3>1 DEF MsgIsRecord, Reading
    <3> QED BY <3>2, <3>3, <3>4
  <2> QED BY <2>4, <2>5
<1>7. ASSUME GatewayCrash PROVE TypeInv'
  <2> USE <1>7 DEF GatewayCrash
  <2>3. \A u \in Uploads : batch[u] \in Batch
      OBVIOUS
  <2>4. \A u \in Uploads :
            \E s \in {"none", "queued", "written", "failed"} :
                /\ batch'[u] = [state |-> s, part |-> batch[u].part,
                                tries |-> batch[u].tries]
                /\ s # "queued" /\ (s = "none" => batch[u].state = "none")
      BY <2>3 DEF Batch
  <2>5. batch' \in [Uploads -> Batch]
    <3>1. ASSUME NEW u \in Uploads PROVE batch'[u] \in Batch
        BY <2>3, <2>4 DEF Batch
    <3> QED BY <3>1
  <2>1. TypeOK'
      BY <2>5, SizesAssumption
  <2>2. EventsAdmitted'
      BY <1>0, <2>4 DEF EventsAdmitted
  <2>6. MsgIsRecord'
      BY DEF MsgIsRecord, Reading, IsRecord, RecordAt
  <2> QED BY <2>1, <2>2, <2>6
<1>8. ASSUME NEW p \in Partitions, PublishForeign(p) PROVE TypeInv'
  <2> USE <1>8 DEF PublishForeign
  <2>1. /\ log' \in [Partitions -> Seq(Record)] /\ appends' \in Nat
        /\ \A u \in Uploads : Logged(u)' => Logged(u) \/ u = Malformed
        /\ \A c \in Coordinate : IsRecord(c) =>
               IsRecord(c)' /\ RecordAt(c)' = RecordAt(c)
      BY AppendType
  <2>2. TypeOK'
      BY <2>1
  <2>3. EventsAdmitted'
      BY <2>1, NullsAssumption DEF EventsAdmitted
  <2>4. MsgIsRecord'
      BY <2>1 DEF MsgIsRecord, Reading
  <2> QED BY <2>2, <2>3, <2>4
<1>9. ASSUME NEW p \in Partitions, Poll(p) PROVE TypeInv'
  <2> USE <1>9 DEF Poll
  <2>1. TypeOK'
      BY DEF Coordinate
  <2>2. EventsAdmitted'
      BY <1>0 DEF EventsAdmitted
  <2>3. MsgIsRecord'
      BY DEF MsgIsRecord, Reading, IsRecord, RecordAt, Coordinate
  <2> QED BY <2>1, <2>2, <2>3
<1>10. ASSUME Download PROVE TypeInv'
  <2> USE <1>10 DEF Download
  <2> DEFINE m == RecordAt(msg).upload
  <2>1. msg \in Coordinate /\ IsRecord(msg)
      BY DEF MsgIsRecord, Reading
  <2>2. m # Malformed => m \in Uploads /\ Path(m) \in Paths
    <3> SUFFICES ASSUME m # Malformed PROVE m \in Uploads /\ Path(m) \in Paths
        OBVIOUS
    <3>1. m \in Uploads /\ Admitted(m)
        BY <2>1, RecordType DEF EventsAdmitted
    <3> QED BY <3>1, RequestsAssumption DEF Path, Paths, Valid
  <2>3. handled' \subseteq Result
      BY <2>1 DEF Conclude, Result, Outcome
  <2>4. TypeOK'
      BY <2>2, <2>3
  <2>5. EventsAdmitted'
      BY <1>0 DEF EventsAdmitted
  <2>6. MsgIsRecord'
      BY <2>1, <2>2 DEF MsgIsRecord, Reading, IsRecord, RecordAt
  <2> QED BY <2>4, <2>5, <2>6
<1>11. ASSUME Store PROVE TypeInv'
  <2> USE <1>11 DEF Store
  <2> DEFINE m == RecordAt(msg).upload
  <2>1. msg \in Coordinate /\ IsRecord(msg) /\ doc \in Uploads /\ m # Malformed
      BY DEF MsgIsRecord, Reading
  <2>2. m \in Uploads
      BY <2>1, RecordType
  <2>3. handled' \subseteq Result
      BY <2>1 DEF Conclude, Result, Outcome
  <2>4. Upserted(Path(m), doc, m) \in [Paths -> [Chunks -> Point \cup {NoPoint}]]
      BY <2>1, <2>2 DEF Upserted, Point
  <2>5. TypeOK'
      BY <2>3, <2>4
  <2>6. EventsAdmitted'
      BY <1>0 DEF EventsAdmitted
  <2>7. MsgIsRecord'
      BY <2>1 DEF MsgIsRecord, Reading, IsRecord, RecordAt
  <2> QED BY <2>5, <2>6, <2>7
<1>12. ASSUME PublishProcessed PROVE TypeInv'
  <2> USE <1>12 DEF PublishProcessed
  <2>1. TypeOK'
      BY DEF MsgIsRecord, Reading, Result, Outcome
  <2>2. EventsAdmitted'
      BY <1>0 DEF EventsAdmitted
  <2>3. MsgIsRecord'
      BY DEF MsgIsRecord, Reading, IsRecord, RecordAt
  <2> QED BY <2>1, <2>2, <2>3
<1>13. ASSUME PublishFailed PROVE TypeInv'
  <2> USE <1>13 DEF PublishFailed
  <2>1. TypeOK'
      BY DEF MsgIsRecord, Reading, Result, Outcome
  <2>2. EventsAdmitted'
      BY <1>0 DEF EventsAdmitted
  <2>3. MsgIsRecord'
      BY DEF MsgIsRecord, Reading, IsRecord, RecordAt
  <2> QED BY <2>1, <2>2, <2>3
<1>14. ASSUME Commit PROVE TypeInv'
  <2> USE <1>14 DEF Commit
  <2>1. TypeOK'
      OBVIOUS
  <2>2. EventsAdmitted'
      BY <1>0 DEF EventsAdmitted
  <2>3. MsgIsRecord'
      BY DEF MsgIsRecord, Reading, IsRecord, RecordAt
  <2> QED BY <2>1, <2>2, <2>3
<1>15. ASSUME CommitFails PROVE TypeInv'
  <2> USE <1>15 DEF CommitFails
  <2>1. TypeOK'
      BY SizesAssumption
  <2>2. EventsAdmitted'
      BY <1>0 DEF EventsAdmitted
  <2>3. MsgIsRecord'
      BY DEF MsgIsRecord, Reading, IsRecord, RecordAt
  <2> QED BY <2>1, <2>2, <2>3
<1>16. ASSUME Stop PROVE TypeInv'
  <2> USE <1>16 DEF Stop
  <2>1. TypeOK'
      BY SizesAssumption
  <2>2. EventsAdmitted'
      BY <1>0 DEF EventsAdmitted
  <2>3. MsgIsRecord'
      BY DEF MsgIsRecord, Reading, IsRecord, RecordAt
  <2> QED BY <2>1, <2>2, <2>3
<1>17. ASSUME Flush PROVE TypeInv'
  <2> USE <1>17 DEF Flush
  <2>1. TypeOK'
      OBVIOUS
  <2>2. EventsAdmitted'
      BY <1>0 DEF EventsAdmitted
  <2>3. MsgIsRecord'
      BY DEF MsgIsRecord, Reading, IsRecord, RecordAt
  <2> QED BY <2>1, <2>2, <2>3
<1>18. ASSUME Crash PROVE TypeInv'
  <2> USE <1>18 DEF Crash
  <2>1. TypeOK'
      BY SizesAssumption
  <2>2. EventsAdmitted'
      BY <1>0 DEF EventsAdmitted
  <2>3. MsgIsRecord'
      BY DEF MsgIsRecord, Reading, IsRecord, RecordAt
  <2> QED BY <2>1, <2>2, <2>3
<1>19. ASSUME Restart PROVE TypeInv'
  <2> USE <1>19 DEF Restart
  <2>1. TypeOK'
      OBVIOUS
  <2>2. EventsAdmitted'
      BY <1>0 DEF EventsAdmitted
  <2>3. MsgIsRecord'
      BY DEF MsgIsRecord, Reading, IsRecord, RecordAt
  <2> QED BY <2>1, <2>2, <2>3
<1>20. ASSUME NEW e \in outbox, Deliver(e) PROVE TypeInv'
  <2> USE <1>20 DEF Deliver
  <2>1. TypeOK'
      OBVIOUS
  <2>2. EventsAdmitted'
      BY <1>0 DEF EventsAdmitted
  <2>3. MsgIsRecord'
      BY DEF MsgIsRecord, Reading, IsRecord, RecordAt
  <2> QED BY <2>1, <2>2, <2>3
<1>21. ASSUME UNCHANGED vars PROVE TypeInv'
  <2> USE <1>21 DEF vars
  <2>1. TypeOK'
      OBVIOUS
  <2>2. EventsAdmitted'
      BY <1>0 DEF EventsAdmitted
  <2>3. MsgIsRecord'
      BY DEF MsgIsRecord, Reading, IsRecord, RecordAt
  <2> QED BY <2>1, <2>2, <2>3
<1> QED
  BY <1>1, <1>2, <1>3, <1>4, <1>5, <1>6, <1>7, <1>8, <1>9, <1>10, <1>11,
     <1>12, <1>13, <1>14, <1>15, <1>16, <1>17, <1>18, <1>19, <1>20, <1>21
  DEF Next, HandlerStep, WorkerStep

(***************************************************************************)
(* Every reachable state of the pipeline is well typed, for any number of  *)
(* uploads, partitions, retries and faults.                                *)
(***************************************************************************)
THEOREM TypeCorrect == Spec => []TypeOK
<1>1. TypeInv => TypeOK
    BY DEF TypeInv
<1> QED BY <1>1, TypeInit, TypeStep, PTL DEF Spec

-----------------------------------------------------------------------------
(***************************************************************************)
(* CommittedHandled is inductive together with what the consumer's cursor  *)
(* guarantees: a commit stores the position of every partition, so every   *)
(* offset up to the position must be that of a handled record, but for the *)
(* record in hand before its outcome.                                      *)
(***************************************************************************)
Undecided == wpc \in {"download", "store"}

CursorBounds ==
    \A p \in Partitions :
        committed[p] <= position[p] /\ position[p] <= Len(log[p])

MsgAtCursor ==
    Reading => /\ msg.off = position[msg.part]
               /\ committed[msg.part] < msg.off

ReadHandled ==
    wpc # "down" =>
        \A p \in Partitions : \A o \in 1 .. position[p] :
            \/ Handled([part |-> p, off |-> o])
            \/ Undecided /\ msg = [part |-> p, off |-> o]

HandledAreRecords == \A e \in handled : IsRecord(e.of)

CursorInv == /\ CursorBounds /\ MsgAtCursor /\ ReadHandled
             /\ HandledAreRecords /\ CommittedHandled

LEMMA CursorInit == Init => CursorInv
<1> SUFFICES ASSUME Init PROVE CursorInv
    OBVIOUS
<1>1. CursorBounds /\ MsgAtCursor /\ ReadHandled /\ HandledAreRecords
    BY DEF Init, WorkerInit, CursorBounds, MsgAtCursor, ReadHandled,
           HandledAreRecords, Reading
<1>2. CommittedHandled
    BY DEF Init, CommittedHandled
<1> QED BY <1>1, <1>2 DEF CursorInv

\* Handled records stay handled, and records stay in place.
LEMMA HistoryGrows ==
    ASSUME TypeInv, [Next]_vars
    PROVE  /\ handled \subseteq handled'
           /\ \A p \in Partitions : Len(log[p]) <= Len(log'[p])
           /\ \A c \in Coordinate : IsRecord(c) => IsRecord(c)'
<1> USE DEF gatewayVars, storeVars, topicVars, workerVars
<1>1. handled \subseteq handled'
    BY DEF Next, HandlerStep, WorkerStep, vars, Receive, PutObject, Publish,
           Await, CreateDocumentRelationships, Attempt, GatewayCrash,
           PublishForeign, Poll, Download, Store, Conclude, PublishProcessed,
           PublishFailed, Commit, CommitFails, Stop, Flush, Crash, Restart,
           Deliver
<1>2. log' = log \/ \E p \in Partitions, m \in Uploads \cup {Malformed} : Append1(p, m)
  <2>1. ASSUME NEW u \in Uploads, Attempt(u)
        PROVE  \/ log' = log
               \/ Append1(batch[u].part, u) /\ batch[u].part \in Partitions
      BY <2>1, AttemptType DEF Attempt
  <2> QED BY <2>1
      DEF Next, HandlerStep, WorkerStep, vars, Receive, PutObject, Publish,
          Await, CreateDocumentRelationships, GatewayCrash,
          PublishForeign, Poll, Download, Store, PublishProcessed,
          PublishFailed, Commit, CommitFails, Stop, Flush, Crash, Restart,
          Deliver
<1>3. \A p \in Partitions : Len(log[p]) <= Len(log'[p])
  <2>1. ASSUME NEW q \in Partitions, NEW m \in Uploads \cup {Malformed}, Append1(q, m),
               NEW p \in Partitions
        PROVE  Len(log[p]) <= Len(log'[p])
      BY <2>1 DEF Append1, TypeInv, TypeOK
  <2>2. ASSUME log' = log, NEW p \in Partitions PROVE Len(log[p]) <= Len(log'[p])
      BY <2>2 DEF TypeInv, TypeOK
  <2> QED BY <1>2, <2>1, <2>2
<1>4. \A c \in Coordinate : IsRecord(c) => IsRecord(c)'
  <2> SUFFICES ASSUME NEW c \in Coordinate, IsRecord(c) PROVE IsRecord(c)'
      OBVIOUS
  <2>1. /\ c.part \in Partitions /\ c.off \in Nat /\ 1 <= c.off
        /\ c.off <= Len(log[c.part])
      BY DEF Coordinate, IsRecord
  <2>2. Len(log[c.part]) \in Nat /\ Len(log'[c.part]) \in Nat
    <3>1. log[c.part] \in Seq(Record)
        BY <2>1 DEF TypeInv, TypeOK
    <3>2. log'[c.part] \in Seq(Record)
        BY <2>1, TypeStep DEF TypeInv, TypeOK
    <3> QED BY <3>1, <3>2
  <2> QED BY <1>3, <2>1, <2>2 DEF IsRecord
<1> QED BY <1>1, <1>3, <1>4

\* A step that leaves the consumer and its offsets alone keeps CursorInv.
LEMMA CursorFrame ==
    ASSUME TypeInv, CursorInv, [Next]_vars,
           UNCHANGED <<wpc, position, msg, committed, handled>>
    PROVE  CursorInv'
<1>1. CursorBounds'
  <2>1. ASSUME NEW p \in Partitions
        PROVE  committed'[p] <= position'[p] /\ position'[p] <= Len(log'[p])
    <3>1. /\ position[p] \in Nat /\ committed[p] \in Nat
          /\ Len(log[p]) \in Nat /\ Len(log'[p]) \in Nat
      <4>1. log[p] \in Seq(Record) /\ log'[p] \in Seq(Record)
          BY TypeStep DEF TypeInv, TypeOK
      <4> QED BY <4>1 DEF TypeInv, TypeOK
    <3> QED BY <3>1, HistoryGrows DEF CursorInv, CursorBounds
  <2> QED BY <2>1 DEF CursorBounds
<1>2. MsgAtCursor'
    BY DEF CursorInv, MsgAtCursor, Reading
<1>3. ReadHandled'
    BY DEF CursorInv, ReadHandled, Undecided, Handled
<1>4. HandledAreRecords'
    BY HistoryGrows DEF CursorInv, HandledAreRecords, TypeInv, TypeOK, Result
<1>5. CommittedHandled'
    BY DEF CursorInv, CommittedHandled, Handled
<1> QED BY <1>1, <1>2, <1>3, <1>4, <1>5 DEF CursorInv

\* The types CursorInv's arithmetic needs, before and after a step.
LEMMA CursorTypes ==
    ASSUME TypeInv
    PROVE  /\ wpc \in {"poll", "download", "store", "report", "fail", "commit",
                       "commit_and_exit", "flush", "down"}
           /\ position \in [Partitions -> Nat]
           /\ committed \in [Partitions -> Nat]
           /\ \A p \in Partitions : Len(log[p]) \in Nat
           /\ \A e \in handled : e.of \in Coordinate
           /\ Reading => /\ msg \in Coordinate /\ IsRecord(msg)
                         /\ msg.part \in Partitions /\ msg.off \in Nat
                         /\ msg = [part |-> msg.part, off |-> msg.off]
<1>1. \A p \in Partitions : log[p] \in Seq(Record)
    BY DEF TypeInv, TypeOK
<1>2. Reading => /\ msg \in Coordinate /\ IsRecord(msg)
                 /\ msg.part \in Partitions /\ msg.off \in Nat
                 /\ msg = [part |-> msg.part, off |-> msg.off]
    BY DEF TypeInv, MsgIsRecord, Coordinate
<1> QED BY <1>1, <1>2 DEF TypeInv, TypeOK, Result

\* Concluding the record in hand leaves no read record undecided.
LEMMA CursorConclude ==
    ASSUME TypeInv, CursorInv, Undecided, NEW outcome \in Outcome,
           Conclude(outcome), wpc' \in {"report", "fail"},
           UNCHANGED <<log, position, msg, committed>>
    PROVE  CursorInv'
<1> USE DEF CursorInv
<1>1. Reading /\ wpc # "down"
    BY DEF Reading, Undecided
<1>2. [of |-> msg, outcome |-> outcome] \in handled' /\ handled \subseteq handled'
    BY DEF Conclude
<1>3. CursorBounds'
    BY DEF CursorBounds
<1>4. MsgAtCursor'
    BY <1>1 DEF MsgAtCursor
<1>5. ReadHandled'
  <2> SUFFICES ASSUME NEW p \in Partitions, NEW o \in 1 .. position[p]
               PROVE  Handled([part |-> p, off |-> o])'
      BY DEF ReadHandled
  <2>1. CASE Handled([part |-> p, off |-> o])
      BY <1>2, <2>1 DEF Handled
  <2>2. CASE msg = [part |-> p, off |-> o]
      BY <1>2, <2>2 DEF Handled
  <2> QED BY <1>1, <2>1, <2>2 DEF ReadHandled
<1>6. HandledAreRecords'
  <2>1. IsRecord(msg)
      BY <1>1, CursorTypes
  <2> QED BY <2>1 DEF Conclude, HandledAreRecords, IsRecord
<1>7. CommittedHandled'
    BY <1>2 DEF CommittedHandled, Handled
<1> QED BY <1>3, <1>4, <1>5, <1>6, <1>7

LEMMA CursorStep == TypeInv /\ CursorInv /\ [Next]_vars => CursorInv'
<1> SUFFICES ASSUME TypeInv, CursorInv, [Next]_vars PROVE CursorInv'
    OBVIOUS
<1> USE CursorTypes DEF CursorInv, gatewayVars, storeVars, topicVars
<1>1. ASSUME NEW p \in Partitions, Poll(p) PROVE CursorInv'
  <2> USE <1>1 DEF Poll
  <2>1. CursorBounds'
      BY DEF CursorBounds
  <2>2. MsgAtCursor'
      BY DEF MsgAtCursor, CursorBounds
  <2>3. ReadHandled'
    <3> SUFFICES ASSUME NEW q \in Partitions, NEW o \in 1 .. position'[q]
                 PROVE  \/ Handled([part |-> q, off |-> o])
                        \/ msg' = [part |-> q, off |-> o]
        BY DEF ReadHandled, Undecided, Handled
    <3>1. CASE o \in 1 .. position[q]
        BY <3>1 DEF ReadHandled, Undecided
    <3>2. CASE q = p /\ o = position[p] + 1
        BY <3>2
    <3> QED BY <3>1, <3>2
  <2>4. HandledAreRecords' /\ CommittedHandled'
      BY DEF HandledAreRecords, CommittedHandled, IsRecord, Handled
  <2> QED BY <2>1, <2>2, <2>3, <2>4
<1>2. ASSUME Download PROVE CursorInv'
  <2> USE <1>2 DEF Download
  <2>1. CASE wpc' = "fail" /\ Conclude("failed")
      BY <2>1, CursorConclude DEF Undecided, Outcome
  <2>2. CASE wpc' = "store" /\ UNCHANGED handled
    <3>1. CursorBounds' /\ MsgAtCursor' /\ ReadHandled'
        BY <2>2 DEF CursorBounds, MsgAtCursor, ReadHandled, Reading,
                    Undecided, Handled
    <3>2. HandledAreRecords' /\ CommittedHandled'
        BY <2>2 DEF HandledAreRecords, CommittedHandled, IsRecord, Handled
    <3> QED BY <3>1, <3>2
  <2> QED BY <2>1, <2>2
<1>3. ASSUME Store PROVE CursorInv'
  <2>1. \/ wpc' = "report" /\ Conclude("ingested")
        \/ wpc' = "fail" /\ Conclude("failed")
      BY <1>3 DEF Store
  <2>2. Undecided /\ UNCHANGED <<log, position, msg, committed>>
      BY <1>3 DEF Store, Undecided
  <2> QED BY <2>1, <2>2, CursorConclude DEF Outcome
<1>4. ASSUME wpc \in {"report", "fail"},
             wpc' \in {"fail", "commit", "commit_and_exit"},
             UNCHANGED <<log, position, msg, committed, handled>>
      PROVE  CursorInv'
  <2>1. CursorBounds' /\ MsgAtCursor' /\ ReadHandled'
      BY <1>4 DEF CursorBounds, MsgAtCursor, ReadHandled, Reading,
                  Undecided, Handled
  <2>2. HandledAreRecords' /\ CommittedHandled'
      BY <1>4 DEF HandledAreRecords, CommittedHandled, IsRecord, Handled
  <2> QED BY <2>1, <2>2
<1>5. ASSUME wpc \in {"commit", "commit_and_exit"}, wpc' \in {"poll", "flush"},
             committed' \in {committed, position},
             UNCHANGED <<log, position, msg, handled>>
      PROVE  CursorInv'
  <2>1. CursorBounds'
      BY <1>5 DEF CursorBounds
  <2>2. MsgAtCursor' /\ ReadHandled' /\ HandledAreRecords'
      BY <1>5 DEF MsgAtCursor, ReadHandled, Reading, Undecided, Handled,
                  HandledAreRecords, IsRecord
  <2>3. CommittedHandled'
      BY <1>5 DEF CommittedHandled, ReadHandled, Undecided, Handled
  <2> QED BY <2>1, <2>2, <2>3
<1>6. ASSUME wpc \notin {"download", "store"} \/ wpc' = "down",
             wpc' \in {"flush", "down"},
             wpc = "down" => wpc' = "down",
             UNCHANGED <<log, position, msg, committed, handled>>
      PROVE  CursorInv'
  <2>1. CursorBounds' /\ MsgAtCursor' /\ ReadHandled'
      BY <1>6 DEF CursorBounds, MsgAtCursor, ReadHandled, Reading,
                  Undecided, Handled
  <2>2. HandledAreRecords' /\ CommittedHandled'
      BY <1>6 DEF HandledAreRecords, CommittedHandled, IsRecord, Handled
  <2> QED BY <2>1, <2>2
<1>7. ASSUME Restart PROVE CursorInv'
  <2> USE <1>7 DEF Restart
  <2>1. CursorBounds' /\ MsgAtCursor'
      BY DEF CursorBounds, MsgAtCursor, Reading
  <2>2. ReadHandled'
      BY DEF ReadHandled, CommittedHandled, Handled
  <2>3. HandledAreRecords' /\ CommittedHandled'
      BY DEF HandledAreRecords, CommittedHandled, IsRecord, Handled
  <2> QED BY <2>1, <2>2, <2>3
<1>8. CASE UNCHANGED <<wpc, position, msg, committed, handled>>
    BY <1>8, CursorFrame
<1>9. ASSUME NEW u \in Uploads, Receive(u) \/ HandlerStep(u) \/ Attempt(u)
      PROVE  CursorInv'
    BY <1>8, <1>9
    DEF Receive, HandlerStep, PutObject, Publish, Await,
        CreateDocumentRelationships, Attempt, workerVars
<1>10. ASSUME PublishProcessed \/ PublishFailed PROVE CursorInv'
    BY <1>4, <1>10 DEF PublishProcessed, PublishFailed
<1>11. ASSUME Commit \/ CommitFails PROVE CursorInv'
    BY <1>5, <1>11 DEF Commit, CommitFails
<1>12. ASSUME Stop \/ Flush \/ Crash PROVE CursorInv'
    BY <1>6, <1>12 DEF Stop, Flush, Crash
<1>13. ASSUME \/ GatewayCrash \/ \E p \in Partitions : PublishForeign(p)
              \/ \E e \in outbox : Deliver(e)
              \/ UNCHANGED vars
       PROVE  CursorInv'
    BY <1>8, <1>13 DEF GatewayCrash, PublishForeign, Deliver, vars, workerVars
<1> QED
    BY <1>1, <1>2, <1>3, <1>7, <1>9, <1>10, <1>11, <1>12, <1>13
    DEF Next, WorkerStep

LEMMA Invariance == Spec => [](TypeInv /\ CursorInv)
<1> QED BY TypeInit, TypeStep, CursorInit, CursorStep, PTL DEF Spec

(***************************************************************************)
(* The consumer never commits past a record it has not handled: no upload  *)
(* event is skipped by a crash, a stop or a failed commit.                 *)
(***************************************************************************)
THEOREM NoRecordSkipped == Spec => []CommittedHandled
<1>1. CursorInv => CommittedHandled
    BY DEF CursorInv
<1> QED BY <1>1, Invariance, PTL

-----------------------------------------------------------------------------
(***************************************************************************)
(* Ingestion implements AtLeastOnce: an append is a Publish, a poll the    *)
(* Take of an offset beyond the committed one, an outcome a Handle of the  *)
(* record in hand, a commit an Acknowledge of handled offsets; a report or *)
(* a crash puts the record down, and every other step stutters.            *)
(***************************************************************************)
Done == {<<e.of.part, e.of.off>> : e \in handled}

LEMMA DeliveryInit == Init => Delivery!Init
BY DEF Init, WorkerInit, InHand, Delivery!Init

LEMMA DeliveryAppend ==
    ASSUME TypeInv, NEW p \in Partitions, NEW m \in Uploads \cup {Malformed},
           Append1(p, m), UNCHANGED <<handled, committed, wpc, msg>>
    PROVE  Delivery!Next
<1> DEFINE r == [upload |-> m, at |-> appends]
<1>1. r \in Record /\ log \in [Partitions -> Seq(Record)]
    BY DEF Record, TypeInv, TypeOK
<1>2. log' = [log EXCEPT ![p] = Append(log[p], r)]
    BY DEF Append1
<1>3. Len(log'[p]) = Len(log[p]) + 1 /\ log'[p][Len(log[p]) + 1] = r
    BY <1>1, <1>2
<1>4. Delivery!Publish(p)
    BY <1>2, <1>3 DEF Delivery!Publish, InHand
<1> QED BY <1>4 DEF Delivery!Next

LEMMA DeliveryConclude ==
    ASSUME TypeInv, CursorInv, Undecided, NEW outcome \in Outcome,
           Conclude(outcome), UNCHANGED <<log, committed, msg>>,
           wpc \in {"download", "store"}, wpc' \in {"report", "fail"}
    PROVE  Delivery!Next
<1>1. Reading
    BY DEF Reading, Undecided
<1>2. /\ msg.part \in Partitions /\ msg.off \in 1 .. Len(log[msg.part])
    BY <1>1, CursorTypes DEF CursorInv, MsgAtCursor, IsRecord
<1>3. Done' = Done \cup {<<msg.part, msg.off>>}
  <2> DEFINE e == [of |-> msg, outcome |-> outcome]
  <2>1. handled' = handled \cup {e} /\ e.of = msg
      BY DEF Conclude
  <2> HIDE DEF e
  <2> QED BY <2>1, Zenon DEF Done
<1>4. {<<e.of.part, e.of.off>> : e \in handled'}
          = {<<e.of.part, e.of.off>> : e \in handled}
                \cup {<<msg.part, msg.off>>}
    BY <1>3, Zenon DEF Done
<1>5. UNCHANGED <<log, committed, InHand>> /\ InHand = {<<msg.part, msg.off>>}
    BY DEF InHand
<1>6. PICK p \in Partitions, o \in Nat : p = msg.part /\ o = msg.off
    BY <1>1, CursorTypes
<1>7. o \in 1 .. Len(log[p]) /\ Delivery!Handle(p, o)
    BY <1>2, <1>4, <1>5, <1>6 DEF Delivery!Handle
<1> QED BY <1>7 DEF Delivery!Next

LEMMA DeliveryCommit ==
    ASSUME TypeInv, CursorInv, wpc \in {"commit", "commit_and_exit"},
           committed' \in {committed, position}, UNCHANGED <<log, handled>>,
           wpc' \in {"poll", "flush"}
    PROVE  Delivery!Next
<1> USE DEF CursorInv
<1>1. committed' \in [Partitions -> Nat]
    BY CursorTypes
<1>2. ASSUME NEW p \in Partitions
      PROVE  /\ committed[p] <= committed'[p]
             /\ \A o \in 1 .. committed'[p] : Handled([part |-> p, off |-> o])
    BY CursorTypes DEF CursorBounds, CommittedHandled, ReadHandled, Undecided
<1>3. ASSUME NEW p \in Partitions, NEW o \in Nat,
             Handled([part |-> p, off |-> o])
      PROVE  <<p, o>> \in Done
  <2>1. PICK out \in Outcome :
            [of |-> [part |-> p, off |-> o], outcome |-> out] \in handled
      BY <1>3 DEF Handled
  <2> QED BY <2>1 DEF Done
<1>4. ASSUME NEW p \in Partitions, NEW o \in 1 .. committed'[p]
      PROVE  <<p, o>> \in Done
  <2>1. o \in Nat
      BY <1>1
  <2> QED BY <1>2, <1>3, <2>1
<1>5. Delivery!Acknowledge
    BY <1>1, <1>2, <1>4 DEF Delivery!Acknowledge, Done, InHand
<1> QED BY <1>5 DEF Delivery!Next

LEMMA DeliveryPoll ==
    ASSUME TypeInv, CursorInv, NEW p \in Partitions, Poll(p)
    PROVE  Delivery!Next
<1> DEFINE o == position[p] + 1
<1>1. /\ committed[p] \in Nat /\ position[p] \in Nat /\ Len(log[p]) \in Nat
      /\ committed[p] <= position[p]
    BY CursorTypes DEF CursorInv, CursorBounds
<1>2. o \in 1 .. Len(log[p]) /\ committed[p] < o
    BY <1>1 DEF Poll
<1>3. UNCHANGED <<log, handled, committed>>
    BY DEF Poll, topicVars
<1>4. InHand = {} /\ InHand' = {<<p, o>>}
    BY DEF Poll, InHand
<1>5. Delivery!Take(p, o)
    BY <1>2, <1>3, <1>4 DEF Delivery!Take
<1> QED BY <1>2, <1>5 DEF Delivery!Next

\* The record in hand is put down.
LEMMA DeliveryPutDown ==
    ASSUME UNCHANGED <<log, handled, committed>>, InHand' = {}
    PROVE  Delivery!Next
<1>1. Delivery!PutDown
    BY DEF Delivery!PutDown
<1> QED BY <1>1 DEF Delivery!Next

LEMMA DeliveryStep ==
    TypeInv /\ CursorInv /\ [Next]_vars => [Delivery!Next]_(Delivery!aloVars)
<1> DEFINE Same == UNCHANGED <<log, handled, committed, InHand>>
<1> SUFFICES ASSUME TypeInv, CursorInv, [Next]_vars
             PROVE  Delivery!Next \/ Same
    BY DEF Delivery!aloVars
<1> USE DEF gatewayVars, storeVars, topicVars, workerVars
<1>1. ASSUME NEW u \in Uploads, Attempt(u) PROVE Delivery!Next \/ Same
  <2>1. CASE UNCHANGED topicVars
      BY <1>1, <2>1 DEF Attempt, InHand
  <2>2. CASE Append1(batch[u].part, u)
      BY <1>1, <2>2, AttemptType, DeliveryAppend DEF Attempt
  <2> QED BY <1>1, <2>1, <2>2 DEF Attempt
<1>2. ASSUME NEW p \in Partitions, PublishForeign(p) PROVE Delivery!Next
    BY <1>2, DeliveryAppend DEF PublishForeign
<1>3. ASSUME Download PROVE Delivery!Next \/ Same
    BY <1>3, DeliveryConclude DEF Download, Undecided, Outcome, InHand
<1>4. ASSUME Store PROVE Delivery!Next
    BY <1>4, DeliveryConclude DEF Store, Undecided, Outcome
<1>5. ASSUME Commit \/ CommitFails PROVE Delivery!Next
    BY <1>5, DeliveryCommit DEF Commit, CommitFails
<1>6. ASSUME NEW u \in Uploads, Receive(u) \/ HandlerStep(u) PROVE Same
    BY <1>6 DEF Receive, HandlerStep, PutObject, Publish, Await,
                CreateDocumentRelationships, InHand
<1>7. ASSUME PublishProcessed PROVE Delivery!Next \/ Same
    BY <1>7, DeliveryPutDown DEF PublishProcessed, InHand
<1>8. ASSUME PublishFailed \/ Crash PROVE Delivery!Next
    BY <1>8, DeliveryPutDown DEF PublishFailed, Crash, InHand
<1>9. ASSUME \/ GatewayCrash \/ Stop \/ Flush \/ Restart
             \/ \E e \in outbox : Deliver(e)
             \/ UNCHANGED vars
      PROVE  Same
    BY <1>9 DEF GatewayCrash, Stop, Flush, Restart, Deliver, vars, InHand
<1> QED
    BY <1>1, <1>2, <1>3, <1>4, <1>5, <1>6, <1>7, <1>8, <1>9, DeliveryPoll
    DEF Next, WorkerStep

(***************************************************************************)
(* The pipeline delivers every record at least once and takes up no        *)
(* committed record again, for any number of partitions and faults.        *)
(***************************************************************************)
THEOREM ImplementsAtLeastOnce == Spec => AtLeastOnceDelivery
<1> QED BY DeliveryInit, DeliveryStep, Invariance, PTL
        DEF Spec, AtLeastOnceDelivery, Delivery!Spec

=============================================================================
