------------------------------- MODULE Worker -------------------------------
(***************************************************************************)
(* The ingestion worker: one consumer of document.uploaded that handles    *)
(* one record at a time -- download, extract, embed, upsert, report -- and *)
(* commits its offsets in a finally block whatever the outcome was.  The   *)
(* process may crash between any two steps; the container restarts it and  *)
(* the consumer resumes from the committed offsets.                        *)
(***************************************************************************)
EXTENDS IngestionState

WorkerInit ==
    /\ wpc = "poll"
    /\ position = [p \in Partitions |-> 0]
    /\ msg = NoRecord
    /\ doc = NoUpload
    /\ outbox = {}

Conclude(outcome) ==
    handled' = handled \cup {[of |-> msg, outcome |-> outcome]}

\* Mutant of Poll: enable.auto.commit stores the offset with the delivery.
PollAutoCommits(p) ==
    /\ wpc = "poll"
    /\ position[p] < Len(log[p])
    /\ msg' = [part |-> p, off |-> position[p] + 1]
    /\ position' = [position EXCEPT ![p] = @ + 1]
    /\ committed' = position'
    /\ wpc' = "download"
    /\ UNCHANGED <<doc, outbox, gatewayVars, storeVars, topicVars, results,
                   handled, faults>>

\* consumer.poll delivers the next record of some assigned partition.
Poll(p) ==
    /\ wpc = "poll"
    /\ position[p] < Len(log[p])
    /\ msg' = [part |-> p, off |-> position[p] + 1]
    /\ position' = [position EXCEPT ![p] = @ + 1]
    /\ wpc' = "download"
    /\ UNCHANGED <<doc, outbox, gatewayVars, storeVars, topicVars, committed,
                   results, handled, faults>>

\* _parse_event and fget_object: the bytes the path holds NOW, which may be
\* those of another upload than the event's.
Download ==
    LET m == RecordAt(msg).upload
    IN /\ wpc = "download"
       /\ \/ /\ m # Malformed
             /\ objects[Path(m)] # NoUpload
             /\ doc' = objects[Path(m)]
             /\ wpc' = "store"
             /\ UNCHANGED handled
          \/ /\ wpc' = "fail"
             /\ Conclude("failed")
             /\ UNCHANGED doc
       /\ UNCHANGED <<position, msg, outbox, gatewayVars, storeVars,
                      topicVars, committed, results, faults>>

\* Mutants of Upserted: points already there are kept; point ids are derived
\* from the chunk index alone.
UpsertedIfAbsent(path, bytes, meta) ==
    [points EXCEPT ![path] =
        [i \in Chunks |->
            IF i <= request[bytes].chunks /\ points[path][i] = NoPoint
            THEN [text |-> bytes, meta |-> meta] ELSE points[path][i]]]

UpsertedByIndex(path, bytes, meta) ==
    [other \in Paths |->
        [i \in Chunks |->
            IF i <= request[bytes].chunks
            THEN [text |-> bytes, meta |-> meta] ELSE points[other][i]]]

\* Point ids are derived from (file_path, chunk_index): chunks overwrite the
\* points of an earlier ingestion, and those past the last chunk stay.
Upserted(path, bytes, meta) ==
    [points EXCEPT ![path] =
        [i \in Chunks |-> IF i <= request[bytes].chunks
                          THEN [text |-> bytes, meta |-> meta]
                          ELSE points[path][i]]]

\* Mutant of Store: a document without chunks counts as ingested.
StoreEmptyToo ==
    LET m == RecordAt(msg).upload
    IN /\ wpc = "store"
       /\ points' = Upserted(Path(m), doc, m)
       /\ wpc' = "report" /\ Conclude("ingested")
       /\ UNCHANGED <<position, msg, doc, outbox, gatewayVars, objects,
                      tuples, topicVars, committed, results, faults>>

\* process_pdf, embed_chunks and upsert_vectors: zero chunks, an API error or
\* a failing upsert (with or without its effect) raise.
Store ==
    LET m == RecordAt(msg).upload
    IN /\ wpc = "store"
       /\ \/ /\ request[doc].chunks > 0
             /\ points' = Upserted(Path(m), doc, m)
             /\ \/ wpc' = "report" /\ Conclude("ingested")
                \/ wpc' = "fail" /\ Conclude("failed")
          \/ /\ wpc' = "fail" /\ Conclude("failed")
             /\ UNCHANGED points
       /\ UNCHANGED <<position, msg, doc, outbox, gatewayVars, objects,
                      tuples, topicVars, committed, results, faults>>

\* _publish_processed puts the event in the producer's buffer.  When produce
\* raises, the stored document is reported as failed.
PublishProcessed ==
    /\ wpc = "report"
    /\ \/ /\ outbox' = outbox \cup {[of |-> msg, outcome |-> "ingested"]}
          /\ wpc' = "commit"
       \/ wpc' = "fail" /\ UNCHANGED outbox
    /\ UNCHANGED <<position, msg, doc, gatewayVars, storeVars, topicVars,
                   committed, results, handled, faults>>

\* Mutant of PublishFailed: only a success reaches the commit.
PublishFailedUncommitted ==
    /\ wpc = "fail"
    /\ outbox' = outbox \cup {[of |-> msg, outcome |-> "failed"]}
    /\ wpc' = "poll"
    /\ UNCHANGED <<position, msg, doc, gatewayVars, storeVars, topicVars,
                   committed, results, handled, faults>>

\* _publish_failed.  When it raises too, the finally block still commits and
\* the exception ends the worker.
PublishFailed ==
    /\ wpc = "fail"
    /\ \/ /\ outbox' = outbox \cup {[of |-> msg, outcome |-> "failed"]}
          /\ wpc' = "commit"
       \/ wpc' = "commit_and_exit" /\ UNCHANGED outbox
    /\ UNCHANGED <<position, msg, doc, gatewayVars, storeVars, topicVars,
                   committed, results, handled, faults>>

\* consumer.commit(asynchronous=False) commits the position of every
\* assigned partition.
Commit ==
    /\ wpc \in {"commit", "commit_and_exit"}
    /\ committed' = position
    /\ wpc' = IF wpc = "commit" THEN "poll" ELSE "flush"
    /\ UNCHANGED <<position, msg, doc, outbox, gatewayVars, storeVars,
                   topicVars, results, handled, faults>>

\* The commit raises: the worker ends, the offsets may have been stored.
CommitFails ==
    /\ wpc \in {"commit", "commit_and_exit"}
    /\ faults < MaxFaults
    /\ faults' = faults + 1
    /\ wpc' = "flush"
    /\ committed' \in {committed, position}
    /\ UNCHANGED <<position, msg, doc, outbox, gatewayVars, storeVars,
                   topicVars, results, handled>>

\* SIGTERM between two records, or a poll error that raises.
Stop ==
    /\ wpc = "poll"
    /\ faults < MaxFaults
    /\ faults' = faults + 1
    /\ wpc' = "flush"
    /\ UNCHANGED <<position, msg, doc, outbox, gatewayVars, storeVars,
                   topicVars, committed, results, handled>>

\* producer.flush() returns once the buffer is empty; consumer.close().
Flush ==
    /\ wpc = "flush"
    /\ outbox = {}
    /\ wpc' = "down"
    /\ UNCHANGED <<position, msg, doc, outbox, gatewayVars, storeVars,
                   topicVars, committed, results, handled, faults>>

\* The process is killed: whatever it held in memory is gone.
Crash ==
    /\ wpc # "down"
    /\ faults < MaxFaults
    /\ faults' = faults + 1
    /\ wpc' = "down"
    /\ outbox' = {}
    /\ UNCHANGED <<position, msg, doc, gatewayVars, storeVars, topicVars,
                   committed, results, handled>>

\* Mutant of Restart: committed offsets are ignored.
RestartFromStart ==
    /\ wpc = "down"
    /\ wpc' = "poll"
    /\ position' = [p \in Partitions |-> 0]
    /\ msg' = NoRecord
    /\ doc' = NoUpload
    /\ UNCHANGED <<outbox, gatewayVars, storeVars, topicVars, committed,
                   results, handled, faults>>

\* restart: unless-stopped.  The consumer resumes at the committed offsets,
\* at the earliest record of a partition that has none.
Restart ==
    /\ wpc = "down"
    /\ wpc' = "poll"
    /\ position' = committed
    /\ msg' = NoRecord
    /\ doc' = NoUpload
    /\ UNCHANGED <<outbox, gatewayVars, storeVars, topicVars, committed,
                   results, handled, faults>>

\* librdkafka's thread delivers a buffered result event, or gives up on it
\* and the callback logs the error.
Deliver(e) ==
    /\ wpc # "down"
    /\ e \in outbox
    /\ outbox' = outbox \ {e}
    /\ results' = results \cup {e} \/ UNCHANGED results
    /\ UNCHANGED <<wpc, position, msg, doc, gatewayVars, storeVars, topicVars,
                   committed, handled, faults>>

WorkerStep ==
    \/ \E p \in Partitions : Poll(p)
    \/ Download \/ Store \/ PublishProcessed \/ PublishFailed
    \/ Commit \/ Flush \/ Restart

=============================================================================
