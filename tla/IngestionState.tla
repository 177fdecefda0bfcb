--------------------------- MODULE IngestionState ---------------------------
(***************************************************************************)
(* The state the upload handler of the gateway and the ingestion worker    *)
(* share: the object store (MinIO), the topic document.uploaded            *)
(* (Kafka/Redpanda), the relationship store (SpiceDB) and the vector       *)
(* collection (Qdrant), with the private state of the two processes.       *)
(*                                                                         *)
(* A document's bytes are identified with the upload that sent them.  An   *)
(* event carries the fields of the request it stems from, so it too is     *)
(* identified with its upload.                                             *)
(***************************************************************************)
EXTENDS Naturals, Sequences, FiniteSets

CONSTANTS
    Uploads,      \* upload requests, one per call of POST /documents/upload
    Requests,     \* the form contents a request may have
    Tenants, Files, Users, Teams,
    ObjectNames,  \* SpiceDB object names
    ObjectName,   \* sanitizeObjectID on file names, not injective
    Partitions,   \* partitions of document.uploaded
    MaxChunks,    \* bound on the chunks the ETL cuts a document into
    MaxAttempts,  \* write attempts of kafka.Writer for one batch
    MaxFaults,    \* bound on crashes, stops and failed commits
    ForeignEvents, \* TRUE: one malformed record may appear on the topic
    NoUpload, NoTenant, NoUser, NoRecord, Malformed

Paths == Tenants \X Files
Chunks == 1 .. MaxChunks

ASSUME RequestsAssumption ==
    Requests \subseteq [tenant : Tenants \cup {NoTenant}, file : Files,
                        user : Users \cup {NoUser}, teams : SUBSET Teams,
                        chunks : 0 .. MaxChunks]

ASSUME SizesAssumption ==
    /\ MaxChunks \in Nat
    /\ MaxAttempts \in Nat \ {0}
    /\ MaxFaults \in Nat
    /\ Partitions # {}
    /\ ForeignEvents \in BOOLEAN
    /\ ObjectName \in [Files -> ObjectNames]

ASSUME NullsAssumption ==
    /\ NoUpload \notin Uploads /\ Malformed \notin Uploads
    /\ NoTenant \notin Tenants /\ NoUser \notin Users
    /\ NoUpload \notin Requests
    /\ NoRecord \notin [part : Partitions, off : Nat \ {0}]

VARIABLES
    \* gateway
    request,   \* form contents of an upload once it was received
    upc,       \* where the handler of an upload stands, or what it replied
    batch,     \* the upload's event inside kafka.Writer
    \* services
    objects,   \* MinIO: the upload whose bytes are stored under a path
    log,       \* records of each partition of document.uploaded
    appends,   \* the broker's clock: records appended so far
    tuples,    \* SpiceDB relationships of documents
    points,    \* Qdrant: the point stored for a path and a chunk index
    committed, \* the consumer group's committed offset of each partition
    results,   \* result events the broker has
    \* worker
    wpc,       \* where the consumer loop stands
    position,  \* last offset the consumer has read of each partition
    msg,       \* partition and offset of the record being handled
    doc,       \* the bytes fget_object downloaded for it
    outbox,    \* result events in the producer's local buffer
    \* history
    handled,   \* outcomes reached for records
    faults     \* crashes, stops and failed commits so far

gatewayVars == <<request, upc, batch>>
storeVars == <<objects, tuples, points>>
topicVars == <<log, appends>>
workerVars == <<wpc, position, msg, doc, outbox>>
vars == <<request, upc, batch, objects, log, appends, tuples, points,
          committed, results, wpc, position, msg, doc, outbox,
          handled, faults>>

(***************************************************************************)
(* A record carries its upload's event; "at" is the broker's append time.  *)
(* A coordinate names a record, a result event the record it reports.      *)
(***************************************************************************)
Record == [upload : Uploads \cup {Malformed}, at : Nat]
Coordinate == [part : Partitions, off : Nat \ {0}]
Outcome == {"ingested", "failed"}
Result == [of : Coordinate, outcome : Outcome]
Batch == [state : {"none", "queued", "written", "failed"},
          part : Partitions, tries : 0 .. MaxAttempts]
Point == [text : Uploads, meta : Uploads]
NoPoint == [text |-> NoUpload, meta |-> NoUpload]

IsRecord(c) == c.part \in Partitions /\ c.off \in 1 .. Len(log[c.part])
RecordAt(c) == log[c.part][c.off]
Handled(c) == \E out \in Outcome : [of |-> c, outcome |-> out] \in handled

Path(u) == <<request[u].tenant, request[u].file>>

(***************************************************************************)
(* CreateDocumentRelationships touches the tenant, owner and viewer tuples *)
(* of the document, named by its sanitized path.                           *)
(***************************************************************************)
DocumentTuples(u) ==
    LET id == <<request[u].tenant, ObjectName[request[u].file]>>
    IN {[doc |-> id, rel |-> "tenant", subject |-> request[u].tenant],
        [doc |-> id, rel |-> "owner", subject |-> request[u].user]}
       \cup {[doc |-> id, rel |-> "viewer", subject |-> t] :
                 t \in request[u].teams}

Tuple == [doc : Tenants \X ObjectNames, rel : {"tenant", "owner", "viewer"},
          subject : Tenants \cup Users \cup Teams]

=============================================================================
