------------------------ MODULE IngestionData_proofs ------------------------
(***************************************************************************)
(* Proofs about the stores ingestion writes to: what the objects, points   *)
(* and result events of an upload have to do with each other.              *)
(***************************************************************************)
EXTENDS Ingestion_proofs

(***************************************************************************)
(* An upload is put once, before it has an event; so an object that was    *)
(* overwritten never comes back, and a worker that sees the bytes of an    *)
(* event's own upload sees them as long as they are stored.                *)
(***************************************************************************)
Put(u) == upc[u] \notin {"idle", "bad_request", "put"}
HasEvent(u) == batch[u].state # "none" \/ Logged(u)

\* Whoever has an event, or is about to have one, has an object at its path;
\* and an object is that of an upload to its own path.
ObjectsOwned ==
    /\ \A u \in Uploads :
           HasEvent(u) \/ upc[u] \in {"publish", "await", "relate"}
               => Put(u) /\ objects[Path(u)] # NoUpload
    /\ \A path \in Paths : \A u \in Uploads :
           objects[path] = u => Put(u) /\ Path(u) = path

\* An ingested record is one of the gateway, with a point at its path; and
\* while its upload's bytes are stored, these are the bytes of all points.
Ingested(c) == [of |-> c, outcome |-> "ingested"] \in handled
RecordStored(c) ==
    LET u == RecordAt(c).upload
    IN u # Malformed /\ 1 \in Chunks /\ points[Path(u)][1] # NoPoint
RecordCurrent(c) ==
    LET u == RecordAt(c).upload
    IN objects[Path(u)] = u =>
           \A i \in 1 .. request[u].chunks : points[Path(u)][i].text = u
IngestedStored ==
    \A c \in Coordinate : Ingested(c) => RecordStored(c) /\ RecordCurrent(c)

\* The worker's bytes are those of an upload to the record's path, and never
\* older than the bytes an ingested record, or this one, brought there.
DocCurrent ==
    wpc = "store" =>
        LET m == RecordAt(msg).upload
        IN /\ Put(doc) /\ Path(doc) = Path(m)
           /\ objects[Path(m)] = m => doc = m
           /\ \A c \in Coordinate : \A u \in Uploads :
                  Ingested(c) /\ u = RecordAt(c).upload /\ Path(u) = Path(m)
                      /\ objects[Path(m)] = u => doc = u

\* Points belong to uploads to their own path, whose requests are fixed.
PointsOwned ==
    \A path \in Paths : \A i \in Chunks : points[path][i] # NoPoint =>
        \A u \in {points[path][i].text, points[path][i].meta} :
            Put(u) /\ Path(u) = path

\* Only ingested records are reported as processed.
ReportsTrue ==
    /\ wpc = "report" => Ingested(msg)
    /\ \A e \in outbox \cup results :
           e.outcome = "ingested" => Ingested(e.of)

DataInv == /\ ObjectsOwned /\ IngestedStored /\ DocCurrent
           /\ PointsOwned /\ ReportsTrue

LEMMA DataInit == Init => DataInv
<1> SUFFICES ASSUME Init PROVE DataInv
    OBVIOUS
<1> USE DEF Init, HandlerInit, WriterInit, WorkerInit
<1>1. ObjectsOwned
    BY NullsAssumption DEF ObjectsOwned, HasEvent, Logged
<1>2. IngestedStored /\ DocCurrent /\ ReportsTrue
    BY DEF IngestedStored, DocCurrent, ReportsTrue, Ingested
<1>3. PointsOwned
    BY DEF PointsOwned
<1> QED BY <1>1, <1>2, <1>3 DEF DataInv

-----------------------------------------------------------------------------
(***************************************************************************)
(* What a step may change.                                                 *)
(***************************************************************************)
\* A put upload stays put and keeps its request.
LEMMA PutStays ==
    ASSUME TypeInv, [Next]_vars, NEW u \in Uploads, Put(u)
    PROVE  Put(u)' /\ request'[u] = request[u] /\ Path(u)' = Path(u)
<1> USE DEF TypeInv, TypeOK
<1>1. Put(u)' /\ request'[u] = request[u]
    BY DEF Put, Next, HandlerStep, WorkerStep, vars, gatewayVars, Receive,
           PutObject, Publish, Await, CreateDocumentRelationships, Attempt,
           GatewayCrash, PublishForeign, Poll, Download, Store,
           PublishProcessed, PublishFailed, Commit, CommitFails, Stop, Flush,
           Crash, Restart, Deliver
<1> QED BY <1>1 DEF Path

\* A put upload has a path.
LEMMA PutPath ==
    ASSUME TypeInv, NEW u \in Uploads, Put(u)
    PROVE  /\ Path(u) \in Paths /\ request[u].chunks \in 0 .. MaxChunks
           /\ u # NoUpload /\ u # Malformed
<1>1. request[u] \in Requests /\ Valid(request[u])
    BY DEF TypeInv, TypeOK, Put, Admitted
<1> QED BY <1>1, RequestsAssumption, NullsAssumption DEF Path, Paths, Valid

\* Records stay where they are.
LEMMA RecordsStay ==
    ASSUME TypeInv, [Next]_vars, NEW c \in Coordinate, IsRecord(c)
    PROVE  IsRecord(c)' /\ RecordAt(c)' = RecordAt(c)
<1> USE DEF gatewayVars, storeVars, topicVars, workerVars
<1>1. log' = log \/ \E p \in Partitions, m \in Uploads \cup {Malformed} : Append1(p, m)
  <2>1. ASSUME NEW u \in Uploads, Attempt(u)
        PROVE  \/ log' = log
               \/ Append1(batch[u].part, u) /\ batch[u].part \in Partitions
      BY <2>1, AttemptType DEF Attempt
  <2> QED BY <2>1
      DEF Next, HandlerStep, WorkerStep, vars, Receive, PutObject, Publish,
          Await, CreateDocumentRelationships, GatewayCrash,
          PublishForeign, Poll, Download, Store, PublishProcessed,
          PublishFailed, Commit, CommitFails, Stop, Flush, Crash, Restart,
          Deliver
<1>2. CASE log' = log
    BY <1>2 DEF IsRecord, RecordAt
<1>3. ASSUME NEW p \in Partitions, NEW m \in Uploads \cup {Malformed},
             Append1(p, m)
      PROVE  IsRecord(c)' /\ RecordAt(c)' = RecordAt(c)
    BY <1>3, AppendType DEF TypeInv
<1> QED BY <1>1, <1>2, <1>3

\* Only the handler of an upload about to be put changes an object.
LEMMA ObjectsChange ==
    ASSUME TypeInv, [Next]_vars
    PROVE  \/ objects' = objects
           \/ \E u \in Uploads : /\ upc[u] = "put" /\ upc'[u] # "put"
                                 /\ objects' = [objects EXCEPT ![Path(u)] = u]
                                 /\ UNCHANGED <<request, log, points, handled, wpc>>
BY DEF TypeInv, TypeOK, Next, HandlerStep, WorkerStep, vars, gatewayVars, storeVars,
       topicVars, workerVars, Receive,
       PutObject, Publish, Await, CreateDocumentRelationships, Attempt,
       GatewayCrash, PublishForeign, Poll, Download, Store,
       PublishProcessed, PublishFailed, Commit, CommitFails, Stop, Flush,
       Crash, Restart, Deliver

\* Only Store changes points or ingests a record.
LEMMA PointsChange ==
    ASSUME [Next]_vars
    PROVE  \/ Store
           \/ points' = points /\ \A c \in Coordinate : Ingested(c)' => Ingested(c)
<1>1. \/ Store
      \/ points' = points /\ (handled' = handled \/ Conclude("failed"))
    BY DEF Next, HandlerStep, WorkerStep, vars, storeVars,
           workerVars, Receive,
           PutObject, Publish, Await, CreateDocumentRelationships, Attempt,
           GatewayCrash, PublishForeign, Poll, Download,
           PublishProcessed, PublishFailed, Commit, CommitFails, Stop, Flush,
           Crash, Restart, Deliver
<1>2. ASSUME handled' = handled \/ Conclude("failed"), NEW c \in Coordinate,
             Ingested(c)'
      PROVE  Ingested(c)
    BY <1>2 DEF Ingested, Conclude
<1> QED BY <1>1, <1>2

-----------------------------------------------------------------------------
\* An upload gets its event after its object.
LEMMA EventChange ==
    ASSUME TypeInv, [Next]_vars, NEW u \in Uploads,
           HasEvent(u)' \/ upc'[u] \in {"publish", "await", "relate"}
    PROVE  \/ HasEvent(u) \/ upc[u] \in {"publish", "await", "relate"}
           \/ /\ upc[u] = "put" /\ upc'[u] = "publish"
              /\ objects' = [objects EXCEPT ![Path(u)] = u]
<1> USE DEF gatewayVars, storeVars, topicVars, workerVars
<1> DEFINE Goal == \/ HasEvent(u) \/ upc[u] \in {"publish", "await", "relate"}
                   \/ /\ upc[u] = "put" /\ upc'[u] = "publish"
                      /\ objects' = [objects EXCEPT ![Path(u)] = u]
<1>0. log' = log => (Logged(u)' <=> Logged(u))
    BY DEF Logged
<1>1. ASSUME NEW v \in Uploads, Receive(v) \/ HandlerStep(v) PROVE Goal
    BY <1>0, <1>1
    DEF HasEvent, TypeInv, TypeOK, HandlerStep, Receive, PutObject, Publish,
        Await, CreateDocumentRelationships
<1>2. ASSUME NEW v \in Uploads, Attempt(v) PROVE Goal
  <2>1. /\ upc' = upc /\ batch[v].state = "queued"
        /\ \A w \in Uploads : batch'[w].state # "none" => batch[w].state # "none"
      BY <1>2 DEF Attempt, TypeInv, TypeOK
  <2>2. Logged(u)' => Logged(u) \/ u = v
      BY <1>0, <1>2, AttemptType, AppendType DEF Attempt, TypeInv
  <2> QED BY <2>1, <2>2 DEF HasEvent
<1>3. ASSUME NEW p \in Partitions, PublishForeign(p) PROVE Goal
  <2>1. Logged(u)' => Logged(u)
      BY <1>3, AppendType, NullsAssumption DEF PublishForeign, TypeInv
  <2> QED BY <1>3, <2>1 DEF PublishForeign, HasEvent
<1>4. CASE GatewayCrash
    BY <1>0, <1>4 DEF GatewayCrash, HasEvent, TypeInv, TypeOK
<1>5. ASSUME UNCHANGED <<upc, batch, log>> PROVE Goal
    BY <1>0, <1>5 DEF HasEvent
<1> QED
    BY <1>1, <1>2, <1>3, <1>4, <1>5
    DEF Next, WorkerStep, vars, Poll, Download, Store, PublishProcessed,
        PublishFailed, Commit, CommitFails, Stop, Flush, Crash, Restart,
        Deliver

LEMMA OwnedStep == TypeInv /\ ObjectsOwned /\ [Next]_vars => ObjectsOwned'
<1> SUFFICES ASSUME TypeInv, ObjectsOwned, [Next]_vars PROVE ObjectsOwned'
    OBVIOUS
<1> USE DEF TypeInv, TypeOK
<1>1. ASSUME NEW path \in Paths, objects[path] # NoUpload
      PROVE  objects'[path] # NoUpload
    BY <1>1, ObjectsChange, NullsAssumption
<1>2. ASSUME NEW u \in Uploads,
             HasEvent(u)' \/ upc'[u] \in {"publish", "await", "relate"}
      PROVE  Put(u)' /\ objects'[Path(u)'] # NoUpload
  <2>1. CASE HasEvent(u) \/ upc[u] \in {"publish", "await", "relate"}
    <3>1. Put(u) /\ objects[Path(u)] # NoUpload
        BY <2>1 DEF ObjectsOwned
    <3> QED BY <1>1, <3>1, PutStays, PutPath
  <2>2. CASE /\ upc[u] = "put" /\ upc'[u] = "publish"
             /\ objects' = [objects EXCEPT ![Path(u)] = u]
    <3>1. request[u] \in Requests /\ Valid(request[u])
        BY <2>2 DEF Admitted
    <3>2. Path(u) \in Paths
        BY <3>1, RequestsAssumption DEF Path, Paths, Valid
    <3>3. request' = request
        BY <2>2 DEF Next, HandlerStep, WorkerStep, vars, gatewayVars, Receive,
           PutObject, Publish, Await, CreateDocumentRelationships, Attempt,
           GatewayCrash, PublishForeign, Poll, Download, Store,
           PublishProcessed, PublishFailed, Commit, CommitFails, Stop, Flush,
           Crash, Restart, Deliver
    <3> QED BY <2>2, <3>2, <3>3, NullsAssumption DEF Put, Path
  <2> QED BY <1>2, <2>1, <2>2, EventChange
<1>3. ASSUME NEW path \in Paths, NEW u \in Uploads, objects'[path] = u
      PROVE  Put(u)' /\ Path(u)' = path
  <2>1. CASE objects[path] = u
    <3>1. Put(u) /\ Path(u) = path
        BY <2>1 DEF ObjectsOwned
    <3> QED BY <3>1, PutStays
  <2>2. CASE objects[path] # u
    <3>1. PICK v \in Uploads : /\ upc[v] = "put" /\ upc'[v] # "put"
                               /\ objects' = [objects EXCEPT ![Path(v)] = v]
                               /\ UNCHANGED request
        BY <1>3, <2>2, ObjectsChange
    <3>2. v = u /\ Path(v) = path
        BY <1>3, <2>2, <3>1
    <3>3. upc'[u] \notin {"idle", "bad_request"}
        BY <3>1, <3>2
        DEF Next, HandlerStep, WorkerStep, vars, gatewayVars, Receive,
            PutObject, Publish, Await, CreateDocumentRelationships, Attempt,
            GatewayCrash, PublishForeign, Poll, Download, Store,
            PublishProcessed, PublishFailed, Commit, CommitFails, Stop, Flush,
            Crash, Restart, Deliver
    <3> QED BY <3>1, <3>2, <3>3 DEF Put, Path
  <2> QED BY <2>1, <2>2
<1> QED BY <1>2, <1>3 DEF ObjectsOwned

-----------------------------------------------------------------------------
\* A record that was ingested has an upload, which is put.
LEMMA IngestedRecord ==
    ASSUME TypeInv, HandledAreRecords, ObjectsOwned, IngestedStored,
           NEW c \in Coordinate, Ingested(c)
    PROVE  /\ IsRecord(c) /\ RecordAt(c).upload \in Uploads
           /\ Put(RecordAt(c).upload) /\ Path(RecordAt(c).upload) \in Paths
<1>1. IsRecord(c)
    BY DEF HandledAreRecords, Ingested
<1>2. RecordAt(c).upload # Malformed
    BY DEF IngestedStored, RecordStored
<1>3. RecordAt(c).upload \in Uploads /\ Logged(RecordAt(c).upload)
    BY <1>1, <1>2, RecordType DEF TypeInv
<1>4. Put(RecordAt(c).upload)
    BY <1>3 DEF ObjectsOwned, HasEvent
<1> QED BY <1>1, <1>3, <1>4, PutPath

\* So has the record whose document the worker is about to store.
LEMMA StoringRecord ==
    ASSUME TypeInv, ObjectsOwned, DocCurrent, wpc = "store"
    PROVE  /\ msg \in Coordinate /\ IsRecord(msg)
           /\ RecordAt(msg).upload \in Uploads /\ Put(RecordAt(msg).upload)
           /\ Path(RecordAt(msg).upload) \in Paths
           /\ doc \in Uploads /\ Put(doc)
           /\ Path(doc) = Path(RecordAt(msg).upload)
<1>1. /\ msg \in Coordinate /\ IsRecord(msg)
      /\ doc \in Uploads /\ RecordAt(msg).upload # Malformed
    BY DEF TypeInv, MsgIsRecord, Reading
<1>2. RecordAt(msg).upload \in Uploads /\ Logged(RecordAt(msg).upload)
    BY <1>1, RecordType DEF TypeInv
<1>3. Put(RecordAt(msg).upload)
    BY <1>2 DEF ObjectsOwned, HasEvent
<1> QED BY <1>1, <1>2, <1>3, PutPath DEF DocCurrent

\* The bytes of a put upload are stored only if they were before.
LEMMA NoComeback ==
    ASSUME TypeInv, [Next]_vars, NEW u \in Uploads, Put(u),
           objects'[Path(u)] = u
    PROVE  objects[Path(u)] = u
BY ObjectsChange, PutPath DEF Put, TypeInv, TypeOK

LEMMA DocStep ==
    TypeInv /\ CursorInv /\ DataInv /\ [Next]_vars => DocCurrent'
<1> SUFFICES ASSUME TypeInv, CursorInv, DataInv, [Next]_vars, wpc' = "store"
             PROVE  DocCurrent'
    BY DEF DocCurrent
<1> USE DEF DataInv
<1>1. \/ Download
      \/ wpc = "store" /\ UNCHANGED <<msg, doc, handled>>
    BY DEF Next, HandlerStep, WorkerStep, vars, workerVars, Receive,
           PutObject, Publish, Await, CreateDocumentRelationships, Attempt,
           GatewayCrash, PublishForeign, Poll, Store, PublishProcessed,
           PublishFailed, Commit, CommitFails, Stop, Flush, Crash, Restart,
           Deliver
<1>2. CASE Download
  <2> DEFINE m == RecordAt(msg).upload
  <2>1. /\ m # Malformed /\ objects[Path(m)] # NoUpload
        /\ doc' = objects[Path(m)]
        /\ UNCHANGED <<request, upc, objects, log, msg, handled>>
      BY <1>2 DEF Download, gatewayVars, storeVars, topicVars
  <2>2. msg \in Coordinate /\ IsRecord(msg)
      BY <1>2 DEF Download, TypeInv, MsgIsRecord, Reading
  <2>3. m \in Uploads /\ Put(m)
    <3>1. m \in Uploads /\ Logged(m)
        BY <2>1, <2>2, RecordType DEF TypeInv
    <3> QED BY <3>1 DEF ObjectsOwned, HasEvent
  <2>4. Path(m) \in Paths
      BY <2>3, PutPath
  <2>5. doc' \in Uploads
      BY <2>1, <2>4 DEF TypeInv, TypeOK
  <2>6. Put(doc') /\ Path(doc') = Path(m)
      BY <2>1, <2>4, <2>5 DEF ObjectsOwned
  <2>7. /\ RecordAt(msg)' = RecordAt(msg)
        /\ \A c : Ingested(c)' = Ingested(c) /\ RecordAt(c)' = RecordAt(c)
        /\ \A u : Put(u)' = Put(u) /\ Path(u)' = Path(u)
      BY <2>1 DEF RecordAt, Put, Path, Ingested
  <2>8. Put(doc)' /\ Path(doc)' = Path(m)
      BY <2>1, <2>6 DEF Put, Path
  <2> QED BY <2>1, <2>7, <2>8 DEF DocCurrent
<1>3. CASE wpc = "store" /\ UNCHANGED <<msg, doc, handled>>
  <2> DEFINE m == RecordAt(msg).upload
  <2>1. /\ msg \in Coordinate /\ IsRecord(msg) /\ m \in Uploads /\ Put(m)
        /\ doc \in Uploads /\ Put(doc) /\ Path(doc) = Path(m)
      BY <1>3, StoringRecord
  <2>2. RecordAt(msg)' = RecordAt(msg) /\ m' = m
      BY <1>3, <2>1, RecordsStay DEF RecordAt
  <2>3. Path(m)' = Path(m) /\ Put(doc)' /\ Path(doc)' = Path(m)
      BY <1>3, <2>1, <2>2, PutStays DEF Put, Path
  <2>4. objects'[Path(m)] = m => doc = m
      BY <1>3, <2>1, NoComeback DEF DocCurrent
  <2>5. ASSUME NEW c \in Coordinate, NEW u \in Uploads, Ingested(c)',
               u = RecordAt(c)'.upload, Path(u)' = Path(m),
               objects'[Path(m)] = u
        PROVE  doc = u
    <3>1. Ingested(c)
        BY <1>3, <2>5 DEF Ingested
    <3>2. u = RecordAt(c).upload /\ Put(u)
        BY <2>5, <3>1, IngestedRecord, RecordsStay DEF CursorInv
    <3>3. Path(u) = Path(m) /\ objects[Path(m)] = u
        BY <2>5, <3>2, PutStays, NoComeback
    <3> QED BY <1>3, <3>1, <3>2, <3>3 DEF DocCurrent
  <2> QED BY <1>3, <2>2, <2>3, <2>4, <2>5 DEF DocCurrent
<1> QED BY <1>1, <1>2, <1>3

-----------------------------------------------------------------------------
\* What an upsert leaves in the collection.
LEMMA UpsertedPoints ==
    ASSUME TypeInv, NEW path \in Paths, NEW bytes \in Uploads,
           NEW meta \in Uploads,
           NEW other \in Paths, NEW i \in Chunks
    PROVE  LET new == Upserted(path, bytes, meta)[other][i]
           IN new = IF other = path /\ i <= request[bytes].chunks
                    THEN [text |-> bytes, meta |-> meta] ELSE points[other][i]
BY DEF Upserted, TypeInv, TypeOK

LEMMA APoint ==
    ASSUME NEW bytes \in Uploads, NEW meta
    PROVE  [text |-> bytes, meta |-> meta] # NoPoint
<1>1. [text |-> bytes, meta |-> meta].text # NoPoint.text
    BY NullsAssumption DEF NoPoint
<1> QED BY <1>1

LEMMA PointsStep == TypeInv /\ DataInv /\ [Next]_vars => PointsOwned'
<1> SUFFICES ASSUME TypeInv, DataInv, [Next]_vars PROVE PointsOwned'
    OBVIOUS
<1> USE DEF DataInv
<1> SUFFICES ASSUME NEW path \in Paths, NEW i \in Chunks,
                    points'[path][i] # NoPoint,
                    NEW u \in {points'[path][i].text, points'[path][i].meta}
             PROVE  Put(u)' /\ Path(u)' = path
    BY DEF PointsOwned
<1>1. CASE points'[path][i] = points[path][i]
  <2>1. points[path][i] \in Point
      BY <1>1 DEF TypeInv, TypeOK
  <2>2. u \in Uploads /\ Put(u) /\ Path(u) = path
      BY <1>1, <2>1 DEF PointsOwned, Point
  <2> QED BY <2>2, PutStays
<1>2. CASE Store /\ points'[path][i] # points[path][i]
  <2> DEFINE m == RecordAt(msg).upload
  <2>1. m \in Uploads /\ Put(m) /\ Path(m) \in Paths
        /\ doc \in Uploads /\ Put(doc) /\ Path(doc) = Path(m)
      BY <1>2, StoringRecord DEF Store
  <2>2. points' = Upserted(Path(m), doc, m)
      BY <1>2 DEF Store
  <2>3. path = Path(m) /\ points'[path][i] = [text |-> doc, meta |-> m]
      BY <1>2, <2>1, <2>2, UpsertedPoints
  <2>4. u \in {doc, m}
      BY <2>3
  <2> QED BY <2>1, <2>3, <2>4, PutStays
<1> QED BY <1>1, <1>2, PointsChange

LEMMA IngestedStep ==
    TypeInv /\ CursorInv /\ DataInv /\ [Next]_vars => IngestedStored'
<1> SUFFICES ASSUME TypeInv, CursorInv, DataInv, [Next]_vars
             PROVE  IngestedStored'
    OBVIOUS
<1> USE DEF DataInv
<1>1. ASSUME NEW c \in Coordinate, Ingested(c)
      PROVE  RecordStored(c)' /\ RecordCurrent(c)'
  <2> DEFINE u == RecordAt(c).upload
             m == RecordAt(msg).upload
  <2>1. IsRecord(c) /\ u \in Uploads /\ Put(u) /\ Path(u) \in Paths
      BY <1>1, IngestedRecord DEF CursorInv
  <2>2. u' = u /\ Path(u)' = Path(u) /\ request'[u] = request[u]
      BY <2>1, RecordsStay, PutStays DEF Path
  <2>3. u # Malformed /\ points[Path(u)][1] # NoPoint /\ RecordCurrent(c)
      BY <1>1 DEF IngestedStored, RecordStored
  <2>4. objects'[Path(u)] = u => objects[Path(u)] = u
      BY <2>1, NoComeback
  <2>5. 1 \in Chunks /\ request[u].chunks \in 0 .. MaxChunks
      BY <1>1, <2>1, PutPath DEF IngestedStored, RecordStored
  <2>6. CASE points' = points
    <3>1. RecordStored(c)'
        BY <2>2, <2>3, <2>5, <2>6 DEF RecordStored
    <3>2. RecordCurrent(c)'
        BY <2>2, <2>3, <2>4, <2>6 DEF RecordCurrent
    <3> QED BY <3>1, <3>2
  <2>7. CASE Store /\ points' = Upserted(Path(m), doc, m)
    <3>1. /\ m \in Uploads /\ Path(m) \in Paths /\ doc \in Uploads
          /\ wpc = "store"
        BY <2>7, StoringRecord DEF Store
    <3>2. ASSUME NEW i \in Chunks
          PROVE  points'[Path(u)][i] = IF Path(u) = Path(m) /\ i <= request[doc].chunks
                                       THEN [text |-> doc, meta |-> m]
                                       ELSE points[Path(u)][i]
        BY <2>1, <2>7, <3>1, UpsertedPoints
    <3>3. RecordStored(c)'
        BY <2>2, <2>3, <2>5, <3>1, <3>2, APoint DEF RecordStored
    <3>4. ASSUME objects'[Path(u)] = u, NEW i \in 1 .. request[u].chunks
          PROVE  points'[Path(u)][i].text = u
      <4>1. objects[Path(u)] = u /\ points[Path(u)][i].text = u
          BY <2>3, <2>4, <3>4 DEF RecordCurrent
      <4>2. i \in Chunks
          BY <2>5, SizesAssumption DEF Chunks
      <4>3. Path(u) = Path(m) => doc = u
          BY <1>1, <2>1, <3>1, <4>1 DEF DocCurrent
      <4> QED BY <3>2, <4>1, <4>2, <4>3
    <3>5. RecordCurrent(c)'
        BY <2>2, <3>4 DEF RecordCurrent
    <3> QED BY <3>3, <3>5
  <2> QED BY <2>6, <2>7, PointsChange DEF Store
<1>2. ASSUME NEW c \in Coordinate, Ingested(c)', ~Ingested(c)
      PROVE  RecordStored(c)' /\ RecordCurrent(c)'
  <2> DEFINE m == RecordAt(msg).upload
  <2>1. Store
      BY <1>2, PointsChange
  <2>2. /\ wpc = "store" /\ UNCHANGED <<request, objects, log, msg>>
        /\ handled' = handled
               \cup {[of |-> msg, outcome |-> IF wpc' = "report" THEN "ingested"
                                                                 ELSE "failed"]}
        /\ wpc' = "report" => /\ request[doc].chunks > 0
                              /\ points' = Upserted(Path(m), doc, m)
      BY <2>1 DEF Store, Conclude, gatewayVars, topicVars
  <2>3. c = msg /\ wpc' = "report"
      BY <1>2, <2>2 DEF Ingested
  <2>4. /\ m \in Uploads /\ Path(m) \in Paths /\ m # Malformed
        /\ doc \in Uploads /\ Put(doc) /\ Path(doc) = Path(m)
      BY <2>2, StoringRecord, PutPath
  <2>5. 1 \in Chunks /\ request[doc].chunks \in 0 .. MaxChunks
        /\ 1 <= request[doc].chunks
    <3>1. request[doc].chunks \in 0 .. MaxChunks
        BY <2>4, PutPath
    <3> QED BY <2>2, <2>3, <3>1, SizesAssumption DEF Chunks
  <2>6. m' = m /\ RecordAt(c)'.upload = m /\ Path(m)' = Path(m)
      BY <2>2, <2>3 DEF RecordAt, Path
  <2>7. ASSUME NEW i \in Chunks, i <= request[doc].chunks
        PROVE  points'[Path(m)][i] = [text |-> doc, meta |-> m]
      BY <2>2, <2>3, <2>4, <2>7, UpsertedPoints
  <2>8. RecordStored(c)'
      BY <2>4, <2>5, <2>6, <2>7, APoint DEF RecordStored
  <2>9. RecordCurrent(c)'
    <3> SUFFICES ASSUME objects[Path(m)] = m, NEW i \in 1 .. request[m].chunks
                 PROVE  points'[Path(m)][i].text = m
        BY <2>2, <2>6 DEF RecordCurrent
    <3>1. doc = m
        BY <2>2 DEF DocCurrent
    <3>2. i \in Chunks /\ i <= request[doc].chunks
        BY <2>5, <3>1, SizesAssumption DEF Chunks
    <3> QED BY <2>7, <3>1, <3>2
  <2> QED BY <2>8, <2>9
<1> QED BY <1>1, <1>2 DEF IngestedStored

-----------------------------------------------------------------------------
LEMMA ReportsStep == DataInv /\ [Next]_vars => ReportsTrue'
<1> SUFFICES ASSUME DataInv, [Next]_vars PROVE ReportsTrue'
    OBVIOUS
<1> USE DEF DataInv
<1>1. handled \subseteq handled'
    BY DEF Next, HandlerStep, WorkerStep, vars, Receive, PutObject, Publish,
           Await, CreateDocumentRelationships, Attempt, GatewayCrash,
           PublishForeign, Poll, Download, Store, Conclude, PublishProcessed,
           PublishFailed, Commit, CommitFails, Stop, Flush, Crash, Restart,
           Deliver
<1>2. wpc' = "report" => Ingested(msg)'
  <2>1. wpc' = "report" => \/ Store
                           \/ wpc = "report" /\ msg' = msg
      BY DEF Next, HandlerStep, WorkerStep, vars, workerVars, Receive,
             PutObject, Publish, Await, CreateDocumentRelationships, Attempt,
             GatewayCrash, PublishForeign, Poll, Download, PublishProcessed,
             PublishFailed, Commit, CommitFails, Stop, Flush, Crash, Restart,
             Deliver
  <2>2. Store /\ wpc' = "report" => Ingested(msg)'
      BY DEF Store, Conclude, Ingested
  <2> QED BY <1>1, <2>1, <2>2 DEF ReportsTrue, Ingested
<1>3. outbox' \cup results' \subseteq
          outbox \cup results
              \cup {[of |-> msg, outcome |-> IF wpc = "report" THEN "ingested"
                                                               ELSE "failed"]}
    BY DEF Next, HandlerStep, WorkerStep, vars, workerVars, Receive,
           PutObject, Publish, Await, CreateDocumentRelationships, Attempt,
           GatewayCrash, PublishForeign, Poll, Download, Store,
           PublishProcessed, PublishFailed, Commit, CommitFails, Stop, Flush,
           Crash, Restart, Deliver
<1>4. ASSUME NEW e \in outbox' \cup results', e.outcome = "ingested"
      PROVE  Ingested(e.of)'
  <2>1. CASE e \in outbox \cup results
      BY <1>1, <1>4, <2>1 DEF ReportsTrue, Ingested
  <2>2. CASE wpc = "report" /\ e = [of |-> msg, outcome |-> "ingested"]
      BY <1>1, <2>2 DEF ReportsTrue, Ingested
  <2> QED BY <1>3, <1>4, <2>1, <2>2
<1> QED BY <1>2, <1>4 DEF ReportsTrue

LEMMA DataStep == TypeInv /\ CursorInv /\ DataInv /\ [Next]_vars => DataInv'
BY OwnedStep, DocStep, PointsStep, IngestedStep, ReportsStep DEF DataInv

LEMMA DataInvariance == Spec => [](TypeInv /\ CursorInv /\ DataInv)
<1> QED BY TypeInit, TypeStep, CursorInit, CursorStep, DataInit, DataStep, PTL
        DEF Spec

-----------------------------------------------------------------------------
(***************************************************************************)
(* No event of the gateway is ever on the topic without an object at its   *)
(* path, whatever uploads share the path and whatever crashes occur.       *)
(***************************************************************************)
THEOREM EventsHaveObjects == Spec => []EventHasObject
<1>1. TypeInv /\ DataInv => EventHasObject
  <2> SUFFICES ASSUME TypeInv, DataInv, NEW p \in Partitions,
                      NEW i \in 1 .. Len(log[p]), log[p][i].upload # Malformed
               PROVE  objects[Path(log[p][i].upload)] # NoUpload
      BY DEF EventHasObject
  <2>1. log[p] \in Seq(Record)
      BY DEF TypeInv, TypeOK
  <2>2. log[p][i].upload \in Uploads
    <3>1. log[p][i] \in Record
        BY <2>1
    <3> QED BY <3>1 DEF Record
  <2>3. HasEvent(log[p][i].upload)
      BY <2>2 DEF HasEvent, Logged
  <2> QED BY <2>2, <2>3 DEF DataInv, ObjectsOwned
<1> QED BY <1>1, DataInvariance, PTL

(***************************************************************************)
(* Every point was written from bytes and metadata of uploads to its own   *)
(* path: nothing of one tenant's documents shows up under another's.       *)
(***************************************************************************)
THEOREM PointsKeepTheirPath == Spec => []PointsStayInPath
<1>1. DataInv => PointsStayInPath
    BY DEF DataInv, PointsOwned, PointsStayInPath
<1> QED BY <1>1, DataInvariance, PTL

(***************************************************************************)
(* A document reported as processed is searchable and stays so.            *)
(***************************************************************************)
THEOREM ProcessedAreStored == Spec => []ProcessedMeansStored
<1>1. TypeInv /\ CursorInv /\ DataInv => ProcessedMeansStored
  <2> SUFFICES ASSUME TypeInv, CursorInv, DataInv,
                      NEW e \in outbox \cup results, e.outcome = "ingested"
               PROVE  IsRecord(e.of) /\ RecordStored(e.of)
      BY DEF ProcessedMeansStored, RecordStored
  <2>1. Ingested(e.of) /\ e.of \in Coordinate
      BY DEF DataInv, ReportsTrue, TypeInv, TypeOK, Result
  <2> QED BY <2>1 DEF DataInv, IngestedStored, CursorInv, HandledAreRecords,
                      Ingested
<1> QED BY <1>1, DataInvariance, PTL

(***************************************************************************)
(* Reordered, duplicated and redelivered events leave the collection with  *)
(* the bytes MinIO holds, once these were ingested.                        *)
(***************************************************************************)
THEOREM ContentConverges == Spec => []StoredContentCurrent
<1>1. TypeInv /\ DataInv => StoredContentCurrent
  <2> SUFFICES ASSUME TypeInv, DataInv, NEW e \in handled,
                      e.outcome = "ingested"
               PROVE  RecordCurrent(e.of)
      BY DEF StoredContentCurrent, RecordCurrent
  <2>1. e \in Result
      BY DEF TypeInv, TypeOK
  <2>2. e.of \in Coordinate /\ e = [of |-> e.of, outcome |-> "ingested"]
      BY <2>1 DEF Result
  <2>3. Ingested(e.of)
      BY <2>2 DEF Ingested
  <2> QED BY <2>2, <2>3 DEF DataInv, IngestedStored
<1> QED BY <1>1, DataInvariance, PTL

-----------------------------------------------------------------------------
(***************************************************************************)
(* Relationships: they are written last, by a handler whose batch the      *)
(* writer reported written; a batch is made once, and the request is fixed *)
(* by then.                                                                *)
(***************************************************************************)
BatchedOnce ==
    \A u \in Uploads :
        /\ upc[u] \in {"idle", "bad_request", "put", "publish"} =>
               batch[u].state = "none"
        /\ upc[u] = "relate" => batch[u].state = "written"

Granted(t) ==
    \E u \in Uploads : batch[u].state = "written" /\ t \in DocumentTuples(u)

GrantInv ==
    /\ BatchedOnce
    /\ \A t \in tuples : Granted(t)
    /\ \A u \in Uploads : upc[u] = "accepted" => DocumentTuples(u) \subseteq tuples

LEMMA GrantInit == Init => GrantInv
BY DEF Init, HandlerInit, WriterInit, GrantInv, BatchedOnce

\* What a step does to the batch and the stage of an upload.
LEMMA BatchStep ==
    ASSUME TypeInv, BatchedOnce, [Next]_vars
    PROVE  /\ BatchedOnce'
           /\ \A u \in Uploads :
                  batch[u].state = "written" => batch'[u].state = "written"
<1> USE DEF TypeInv, TypeOK, BatchedOnce, gatewayVars, storeVars, topicVars,
            workerVars
<1> DEFINE Goal == /\ BatchedOnce'
                   /\ \A u \in Uploads : batch[u].state = "written"
                                             => batch'[u].state = "written"
<1>1. ASSUME NEW v \in Uploads,
             \/ Receive(v) \/ PutObject(v) \/ Await(v)
             \/ CreateDocumentRelationships(v)
      PROVE  Goal
    BY <1>1 DEF Receive, PutObject, Await, CreateDocumentRelationships
<1>2. ASSUME NEW v \in Uploads, Publish(v) PROVE Goal
    BY <1>2 DEF Publish
<1>3. ASSUME NEW v \in Uploads, Attempt(v) PROVE Goal
  <2>1. /\ upc' = upc /\ batch[v].state = "queued"
        /\ \A w \in Uploads \ {v} : batch'[w] = batch[w]
      BY <1>3 DEF Attempt
  <2> QED BY <2>1
<1>4. CASE GatewayCrash
  <2>1. \A u \in Uploads :
            /\ upc'[u] = IF InProgress(u) THEN "lost" ELSE upc[u]
            /\ batch[u].state # "queued" => batch'[u] = batch[u]
      BY <1>4 DEF GatewayCrash
  <2> QED BY <2>1 DEF InProgress
<1>5. CASE UNCHANGED <<upc, batch>>
    BY <1>5
<1> QED
    BY <1>1, <1>2, <1>3, <1>4, <1>5
    DEF Next, HandlerStep, WorkerStep, vars, PublishForeign, Poll, Download,
        Store, PublishProcessed, PublishFailed, Commit, CommitFails, Stop,
        Flush, Crash, Restart, Deliver

\* Only one action writes relationships, and it alone leads to a 202.
LEMMA TuplesStep ==
    ASSUME TypeInv, [Next]_vars
    PROVE  \/ /\ tuples' = tuples
              /\ \A u \in Uploads : upc'[u] = "accepted" => upc[u] = "accepted"
           \/ \E v \in Uploads :
                  /\ upc[v] = "relate" /\ tuples' = tuples \cup DocumentTuples(v)
                  /\ \A u \in Uploads \ {v} :
                         upc'[u] = "accepted" => upc[u] = "accepted"
<1> USE DEF TypeInv, TypeOK, gatewayVars, storeVars, topicVars, workerVars
<1>1. ASSUME NEW v \in Uploads, CreateDocumentRelationships(v)
      PROVE  \/ /\ tuples' = tuples
                /\ \A u \in Uploads : upc'[u] = "accepted" => upc[u] = "accepted"
             \/ /\ upc[v] = "relate" /\ tuples' = tuples \cup DocumentTuples(v)
                /\ \A u \in Uploads \ {v} :
                       upc'[u] = "accepted" => upc[u] = "accepted"
    BY <1>1 DEF CreateDocumentRelationships
<1>2. ASSUME NEW v \in Uploads,
             Receive(v) \/ PutObject(v) \/ Publish(v) \/ Await(v) \/ Attempt(v)
      PROVE  /\ tuples' = tuples
             /\ \A u \in Uploads : upc'[u] = "accepted" => upc[u] = "accepted"
    BY <1>2 DEF Receive, PutObject, Publish, Await, Attempt
<1>3. CASE GatewayCrash
    BY <1>3 DEF GatewayCrash
<1>4. CASE UNCHANGED <<upc, tuples>>
    BY <1>4
<1> QED
    BY <1>1, <1>2, <1>3, <1>4
    DEF Next, HandlerStep, WorkerStep, vars, PublishForeign, Poll, Download,
        Store, PublishProcessed, PublishFailed, Commit, CommitFails, Stop,
        Flush, Crash, Restart, Deliver

\* What a written upload asks for stays what it asks for.
LEMMA AskedStays ==
    ASSUME TypeInv, BatchedOnce, [Next]_vars, NEW u \in Uploads,
           batch[u].state = "written"
    PROVE  DocumentTuples(u)' = DocumentTuples(u)
<1>1. Put(u)
    BY DEF BatchedOnce, Put
<1>2. request'[u] = request[u]
    BY <1>1, PutStays
<1> QED BY <1>2 DEF DocumentTuples

LEMMA GrantStep == TypeInv /\ GrantInv /\ [Next]_vars => GrantInv'
<1> SUFFICES ASSUME TypeInv, GrantInv, [Next]_vars PROVE GrantInv'
    OBVIOUS
<1>1. /\ BatchedOnce /\ BatchedOnce'
      /\ \A u \in Uploads :
             batch[u].state = "written" => batch'[u].state = "written"
    BY BatchStep DEF GrantInv
<1>2. ASSUME NEW u \in Uploads, upc[u] = "accepted"
      PROVE  DocumentTuples(u)' = DocumentTuples(u)
  <2>1. request'[u] = request[u]
      BY <1>2, PutStays DEF Put
  <2> QED BY <2>1 DEF DocumentTuples
<1>3. ASSUME NEW t, Granted(t) PROVE Granted(t)'
  <2>1. PICK u \in Uploads : batch[u].state = "written" /\ t \in DocumentTuples(u)
      BY <1>3 DEF Granted
  <2> QED BY <1>1, <2>1, AskedStays DEF Granted
<1>4. CASE /\ tuples' = tuples
           /\ \A u \in Uploads : upc'[u] = "accepted" => upc[u] = "accepted"
    BY <1>1, <1>2, <1>3, <1>4 DEF GrantInv
<1>5. ASSUME NEW v \in Uploads, upc[v] = "relate",
             tuples' = tuples \cup DocumentTuples(v),
             \A u \in Uploads \ {v} : upc'[u] = "accepted" => upc[u] = "accepted"
      PROVE  GrantInv'
  <2>1. batch[v].state = "written"
      BY <1>1, <1>5 DEF BatchedOnce
  <2>2. DocumentTuples(v)' = DocumentTuples(v)
      BY <1>1, <2>1, AskedStays
  <2>3. \A t \in DocumentTuples(v) : Granted(t)
      BY <2>1 DEF Granted
  <2>4. \A t \in tuples' : Granted(t)'
      BY <1>3, <1>5, <2>3 DEF GrantInv
  <2>5. ASSUME NEW u \in Uploads, upc'[u] = "accepted"
        PROVE  DocumentTuples(u)' \subseteq tuples'
    <3>1. CASE u = v
        BY <1>5, <2>2, <3>1
    <3>2. CASE u # v
        BY <1>2, <1>5, <2>5, <3>2 DEF GrantInv
    <3> QED BY <3>1, <3>2
  <2> QED BY <1>1, <2>4, <2>5 DEF GrantInv
<1> QED BY <1>4, <1>5, TuplesStep

LEMMA GrantInvariance == Spec => [](TypeInv /\ GrantInv /\ ObjectsOwned)
<1>1. Init => GrantInv
    BY GrantInit
<1>2. TypeInv /\ CursorInv /\ DataInv => ObjectsOwned
    BY DEF DataInv
<1> QED BY <1>1, <1>2, GrantStep, DataInvariance, PTL DEF Spec

(***************************************************************************)
(* SpiceDB holds what the uploads that got as far as a written event asked *)
(* for, and all that the accepted ones did, for any number of concurrent   *)
(* uploads, files of one SpiceDB name, failing calls and crashes.          *)
(***************************************************************************)
THEOREM GrantsAsAsked == Spec => []GrantsMatchUploads
<1>1. TypeInv /\ GrantInv /\ ObjectsOwned => GrantsMatchUploads
  <2> SUFFICES ASSUME TypeInv, GrantInv, ObjectsOwned, NEW t \in tuples
               PROVE  \E u \in Uploads :
                          /\ batch[u].state = "written"
                          /\ objects[Path(u)] # NoUpload
                          /\ t \in DocumentTuples(u)
      BY DEF GrantsMatchUploads, GrantInv
  <2>1. PICK u \in Uploads : batch[u].state = "written" /\ t \in DocumentTuples(u)
      BY DEF GrantInv, Granted
  <2>2. objects[Path(u)] # NoUpload
      BY <2>1 DEF ObjectsOwned, HasEvent
  <2> QED BY <2>1, <2>2
<1> QED BY <1>1, GrantInvariance, PTL

=============================================================================
