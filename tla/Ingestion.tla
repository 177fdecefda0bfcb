------------------------------ MODULE Ingestion ------------------------------
(***************************************************************************)
(* Document ingestion end to end: concurrent uploads through the gateway,  *)
(* kafka.Writer and the broker, and the worker, with crashes and restarts  *)
(* of both processes.                                                      *)
(***************************************************************************)
EXTENDS UploadHandler, Worker

Init ==
    /\ HandlerInit /\ WriterInit /\ WorkerInit
    /\ objects = [path \in Paths |-> NoUpload]
    /\ log = [p \in Partitions |-> <<>>]
    /\ appends = 0
    /\ tuples = {}
    /\ points = [path \in Paths |-> [i \in Chunks |-> NoPoint]]
    /\ committed = [p \in Partitions |-> 0]
    /\ results = {}
    /\ handled = {}
    /\ faults = 0

\* A record some other producer wrote, which _parse_event rejects.
PublishForeign(p) ==
    /\ ForeignEvents
    /\ \A q \in Partitions : \A i \in 1 .. Len(log[q]) :
           log[q][i].upload # Malformed
    /\ Append1(p, Malformed)
    /\ UNCHANGED <<gatewayVars, storeVars, committed, results, workerVars,
                   handled, faults>>

Next ==
    \/ \E u \in Uploads : Receive(u) \/ HandlerStep(u) \/ Attempt(u)
    \/ GatewayCrash
    \/ \E p \in Partitions : PublishForeign(p)
    \/ WorkerStep
    \/ CommitFails \/ Stop \/ Crash
    \/ \E e \in outbox : Deliver(e)

\* Each handler runs to its reply (its calls share a 30 s context), the
\* consumer loop never blocks for good, librdkafka settles every buffered
\* event (message.timeout.ms), and the container is restarted.
Fairness ==
    /\ \A u \in Uploads : WF_vars(HandlerStep(u))
    /\ WF_vars(WorkerStep)
    /\ WF_vars(\E e \in outbox : Deliver(e))

Spec == Init /\ [][Next]_vars

FairSpec == Spec /\ Fairness

-----------------------------------------------------------------------------
TypeOK ==
    /\ request \in [Uploads -> Requests \cup {NoUpload}]
    /\ upc \in [Uploads -> {"idle", "put", "publish", "await", "relate",
                            "bad_request", "error", "accepted", "lost"}]
    /\ \A u \in Uploads : Admitted(u) => request[u] \in Requests /\ Valid(request[u])
    /\ batch \in [Uploads -> Batch]
    /\ objects \in [Paths -> Uploads \cup {NoUpload}]
    /\ log \in [Partitions -> Seq(Record)]
    /\ appends \in Nat
    /\ tuples \subseteq Tuple
    /\ points \in [Paths -> [Chunks -> Point \cup {NoPoint}]]
    /\ committed \in [Partitions -> Nat]
    /\ position \in [Partitions -> Nat]
    /\ results \subseteq Result
    /\ wpc \in {"poll", "download", "store", "report", "fail", "commit",
                "commit_and_exit", "flush", "down"}
    /\ msg \in Coordinate \cup {NoRecord}
    /\ doc \in Uploads \cup {NoUpload}
    /\ outbox \subseteq Result
    /\ handled \subseteq Result
    /\ faults \in 0 .. MaxFaults

(***************************************************************************)
(* Upload before event: a record of the gateway is published only for a    *)
(* path whose object is stored, so the worker's download can only miss by  *)
(* an error of MinIO.                                                      *)
(***************************************************************************)
EventHasObject ==
    \A p \in Partitions : \A i \in 1 .. Len(log[p]) :
        LET u == log[p][i].upload
        IN u # Malformed => objects[Path(u)] # NoUpload

(***************************************************************************)
(* No record is skipped: whatever crashes, stops and failed commits occur, *)
(* a committed offset is that of a record the worker handled to an outcome.*)
(***************************************************************************)
CommittedHandled ==
    \A p \in Partitions : \A o \in 1 .. committed[p] :
        Handled([part |-> p, off |-> o])

(***************************************************************************)
(* A "processed" event -- buffered or published -- reports a document      *)
(* whose chunks are searchable: the collection holds at least one point of *)
(* the event's path, across redelivery and later uploads to that path.     *)
(***************************************************************************)
ProcessedMeansStored ==
    \A e \in outbox \cup results : e.outcome = "ingested" =>
        /\ IsRecord(e.of)
        /\ RecordAt(e.of).upload # Malformed
        /\ points[Path(RecordAt(e.of).upload)][1] # NoPoint

(***************************************************************************)
(* Ingestion converges on the stored object although events of one path    *)
(* may be reordered, duplicated and redelivered: once the event of the     *)
(* upload whose bytes MinIO holds was ingested, every chunk of these bytes *)
(* is what the collection holds for the path.                              *)
(***************************************************************************)
StoredContentCurrent ==
    \A e \in handled :
        LET u == RecordAt(e.of).upload
        IN e.outcome = "ingested" /\ objects[Path(u)] = u =>
               \A i \in 1 .. request[u].chunks : points[Path(u)][i].text = u

(***************************************************************************)
(* A point's text and its permission metadata may stem from different      *)
(* uploads (the worker downloads the current object), but always from      *)
(* uploads to the point's own path, hence to one tenant.                   *)
(***************************************************************************)
PointsStayInPath ==
    \A path \in Paths : \A i \in Chunks : points[path][i] # NoPoint =>
        /\ Path(points[path][i].text) = path
        /\ Path(points[path][i].meta) = path

(***************************************************************************)
(* Permissions follow documents: SpiceDB holds exactly what uploads asked  *)
(* for that got past the two steps before -- each tuple belongs to an      *)
(* upload whose object is stored and whose event was handed over, under a  *)
(* name that may merge two files but never two tenants -- and everything   *)
(* that an accepted upload asked for, whatever else failed or crashed.     *)
(***************************************************************************)
GrantsMatchUploads ==
    /\ \A t \in tuples : \E u \in Uploads :
           /\ batch[u].state = "written" /\ objects[Path(u)] # NoUpload
           /\ t \in DocumentTuples(u)
    /\ \A u \in Uploads : upc[u] = "accepted" => DocumentTuples(u) \subseteq tuples

(***************************************************************************)
(* The pipeline delivers records at least once: it commits only what it    *)
(* handled, never takes a committed offset back, and never takes up a      *)
(* record again -- after a crash, a stop or a failed commit -- whose       *)
(* offset was committed.  A record is in hand from the poll that returns   *)
(* it until its result event is buffered or given up, or the worker dies.  *)
(***************************************************************************)
InHand == IF wpc \in {"download", "store", "report", "fail"}
          THEN {<<msg.part, msg.off>>} ELSE {}

Delivery ==
    INSTANCE AtLeastOnce WITH
        published <- log,
        done <- {<<e.of.part, e.of.off>> : e \in handled},
        acked <- committed,
        working <- InHand

AtLeastOnceDelivery == Delivery!Spec

(***************************************************************************)
(* Every record is eventually handled and committed, whatever failures its *)
(* processing meets: no record blocks its partition.                       *)
(***************************************************************************)
EveryRecordCommitted ==
    \A p \in Partitions :
        \A o \in 1 .. Cardinality(Uploads) * MaxAttempts + 1 :
        (o <= Len(log[p])) ~> (o <= committed[p])

\* Every upload the gateway started on is answered, or lost in its crash.
EveryUploadAnswered ==
    \A u \in Uploads : InProgress(u) ~> ~InProgress(u)

-----------------------------------------------------------------------------
(***************************************************************************)
(* What comments say and the code does not do.                             *)
(***************************************************************************)

(* upload.go:120: "Partition by tenant so per-tenant ordering is preserved"*)
(* -- of two events of one tenant, the earlier record is handled first.    *)
PerTenantOrder ==
    \A e \in handled : \A p \in Partitions : \A i \in 1 .. Len(log[p]) :
        LET early == log[p][i]
            late == RecordAt(e.of)
        IN /\ early.upload # Malformed /\ late.upload # Malformed
           /\ request[early.upload].tenant = request[late.upload].tenant
           /\ early.at < late.at
           => Handled([part |-> p, off |-> i])

(* consumer.py:283: "Commits offsets manually after each successfully      *)
(* processed message" -- a committed record was ingested.                  *)
CommittedIngested ==
    \A p \in Partitions : \A o \in 1 .. committed[p] :
        [of |-> [part |-> p, off |-> o], outcome |-> "ingested"] \in handled

(* upload.go:154: a 202 says "Document uploaded and queued for processing" *)
(* -- the upload's event is on the topic.                                  *)
AcceptedQueued ==
    \A u \in Uploads : upc[u] = "accepted" =>
        \E p \in Partitions : \E i \in 1 .. Len(log[p]) :
            log[p][i].upload = u

=============================================================================
