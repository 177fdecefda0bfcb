---------------------------- MODULE UploadHandler ----------------------------
(***************************************************************************)
(* POST /api/v1/documents/upload: the handler stores the file in MinIO,    *)
(* publishes document.uploaded through kafka.Writer and writes the         *)
(* document's relationships to SpiceDB, in that order and with no          *)
(* transaction around the three.  Every call runs under one context of     *)
(* 30 s, so each may fail at any time, with or without its effect.         *)
(***************************************************************************)
EXTENDS IngestionState

Admitted(u) == upc[u] \notin {"idle", "bad_request"}
InProgress(u) == upc[u] \in {"put", "publish", "await", "relate"}

Valid(r) == r.tenant \in Tenants /\ r.user \in Users

HandlerInit ==
    /\ request = [u \in Uploads |-> NoUpload]
    /\ upc = [u \in Uploads |-> "idle"]

\* Mutant of Receive: requests are not validated.
ReceiveUnvalidated(u) ==
    /\ upc[u] = "idle"
    /\ \E r \in Requests : request' = [request EXCEPT ![u] = r]
    /\ upc' = [upc EXCEPT ![u] = "put"]
    /\ UNCHANGED <<batch, storeVars, topicVars, committed, results,
                   workerVars, handled, faults>>

\* The request arrives; an invalid tenant or an empty user id is refused.
Receive(u) ==
    /\ upc[u] = "idle"
    /\ \E r \in Requests :
           /\ request' = [request EXCEPT ![u] = r]
           /\ upc' = [upc EXCEPT ![u] = IF Valid(r) THEN "put"
                                                    ELSE "bad_request"]
    /\ UNCHANGED <<batch, storeVars, topicVars, committed, results,
                   workerVars, handled, faults>>

\* Mutant of PutObject: the error is logged and the upload goes on.
PutObjectIgnoringError(u) ==
    /\ upc[u] = "put"
    /\ objects' = [objects EXCEPT ![Path(u)] = u] \/ UNCHANGED objects
    /\ upc' = [upc EXCEPT ![u] = "publish"]
    /\ UNCHANGED <<request, batch, topicVars, tuples, points, committed,
                   results, workerVars, handled, faults>>

\* MinIO.PutObject overwrites whatever the path held.
PutObject(u) ==
    /\ upc[u] = "put"
    /\ \/ /\ objects' = [objects EXCEPT ![Path(u)] = u]
          /\ \E next \in {"publish", "error"} : upc' = [upc EXCEPT ![u] = next]
       \/ /\ upc' = [upc EXCEPT ![u] = "error"]
          /\ UNCHANGED objects
    /\ UNCHANGED <<request, batch, topicVars, tuples, points, committed,
                   results, workerVars, handled, faults>>

\* WriteMessages hands the event to the writer.  The LeastBytes balancer
\* ignores the message key: any partition may be chosen.
Publish(u) ==
    /\ upc[u] = "publish"
    /\ upc' = [upc EXCEPT ![u] = "await"]
    /\ \E p \in Partitions :
           batch' = [batch EXCEPT
                         ![u] = [state |-> "queued", part |-> p, tries |-> 0]]
    /\ UNCHANGED <<request, storeVars, topicVars, committed, results,
                   workerVars, handled, faults>>

\* Mutants of Await: the error of WriteMessages is logged and the upload goes
\* on; only an acknowledged batch is waited for.
AwaitIgnoringError(u) ==
    /\ upc[u] = "await"
    /\ upc' = [upc EXCEPT ![u] = "relate"]
    /\ UNCHANGED <<request, batch, storeVars, topicVars, committed, results,
                   workerVars, handled, faults>>

AwaitWritten(u) ==
    /\ upc[u] = "await"
    /\ batch[u].state = "written"
    /\ upc' = [upc EXCEPT ![u] = "relate"]
    /\ UNCHANGED <<request, batch, storeVars, topicVars, committed, results,
                   workerVars, handled, faults>>

\* WriteMessages returns the batch's outcome, or the context's error while
\* the writer still holds the batch.
Await(u) ==
    /\ upc[u] = "await"
    /\ \/ /\ batch[u].state = "written"
          /\ upc' = [upc EXCEPT ![u] = "relate"]
       \/ upc' = [upc EXCEPT ![u] = "error"]
    /\ UNCHANGED <<request, batch, storeVars, topicVars, committed, results,
                   workerVars, handled, faults>>

\* Authz.CreateDocumentRelationships: one atomic write of TOUCH updates.
CreateDocumentRelationships(u) ==
    /\ upc[u] = "relate"
    /\ \/ /\ tuples' = tuples \cup DocumentTuples(u)
          /\ \E reply \in {"accepted", "error"} :
                 upc' = [upc EXCEPT ![u] = reply]
       \/ /\ upc' = [upc EXCEPT ![u] = "error"]
          /\ UNCHANGED tuples
    /\ UNCHANGED <<request, batch, objects, points, topicVars, committed,
                   results, workerVars, handled, faults>>

(***************************************************************************)
(* kafka.Writer, as the gateway configures it: RequiredAcks is left at     *)
(* RequireNone, so an attempt may report success for a batch the broker    *)
(* never appended; a temporary error is retried on the same partition,     *)
(* which may append the record again.                                      *)
(***************************************************************************)
WriterInit ==
    batch = [u \in Uploads |-> [state |-> "none", tries |-> 0,
                                part |-> CHOOSE p \in Partitions : TRUE]]

Append1(p, m) ==
    /\ log' = [log EXCEPT ![p] = Append(@, [upload |-> m, at |-> appends])]
    /\ appends' = appends + 1

Attempt(u) ==
    LET b == batch[u]
        retry == b.tries + 1 < MaxAttempts
    IN /\ b.state = "queued"
       /\ Append1(b.part, u) \/ UNCHANGED topicVars
       /\ \/ batch' = [batch EXCEPT ![u].state = "written",
                                    ![u].tries = @ + 1]
          \/ /\ retry
             /\ batch' = [batch EXCEPT ![u].tries = @ + 1]
          \/ batch' = [batch EXCEPT ![u].state = "failed",
                                    ![u].tries = @ + 1]
       /\ UNCHANGED <<request, upc, storeVars, committed, results,
                      workerVars, handled, faults>>

\* The gateway process dies: its handlers and its writer's batches with it.
GatewayCrash ==
    /\ faults < MaxFaults
    /\ faults' = faults + 1
    /\ upc' = [u \in Uploads |-> IF InProgress(u) THEN "lost" ELSE upc[u]]
    /\ batch' = [u \in Uploads |->
                    IF batch[u].state = "queued"
                    THEN [batch[u] EXCEPT !.state = "failed"] ELSE batch[u]]
    /\ UNCHANGED <<request, storeVars, topicVars, committed, results,
                   workerVars, handled>>

HandlerStep(u) ==
    PutObject(u) \/ Publish(u) \/ Await(u) \/ CreateDocumentRelationships(u)

=============================================================================
