# sp-rag: TLA+ models, checks and proofs

sp-rag answers questions over the documents of many tenants. A Go gateway
takes uploads and questions; a Python worker turns uploaded PDFs into vectors.
This directory models both halves: how a document gets from an upload to the
vector collection, how its text is cut into chunks, how a question gets from a
request to an answer that may be cached and shared, and how the channels in front
of the pipeline (WhatsApp, web chat, legal endpoint) bring questions in and
answers out.

## The system

| Component | State it keeps | Operations | Talks to |
|---|---|---|---|
| Upload handler (`internal/handler/upload.go`) | none between requests | `POST /documents/upload` | MinIO, Kafka writer, SpiceDB, in that order |
| Kafka writer (`cmd/main.go`, kafka-go) | batches in memory | `WriteMessages`, retries | topic `document.uploaded` |
| Worker (`worker/app/consumer.py`) | consumer position, producer buffer | poll, process, report, commit, shut down | Kafka, MinIO, ETL, embedder |
| ETL (`worker/app/etl.py`) | the chunk being accumulated | filter, chunk, extract entities | - |
| Embedder (`worker/app/embedder.py`) | none | embed, upsert with deterministic ids | OpenAI, Qdrant |
| Query handler (`internal/handler/query.go`) | none | validate, set the deadline | orchestrator |
| Orchestrator (`internal/orchestrator`) | none between calls | `Execute` | OpenAI, SpiceDB, Redis, Qdrant |
| Cache (`internal/cache`) | exact and semantic entries in Redis | get and set of each | Redis |
| Authorisation (`internal/authz`, `infra/spicedb/schema.zed`) | tuples in SpiceDB | check, read teams, write a document | SpiceDB |
| Router, evaluator, LLM (`internal/rag`) | none | classify, judge, draft, rewrite | OpenAI |
| Tenant middleware (`internal/middleware/tenant.go`) | request locals | resolve and validate | - |
| Portaria, WhatsApp (`internal/portaria`) | the message a delivery is at | `HandleMessage`, webhook, chat | orchestrator, Meta |
| Legal (`internal/legal`) | none | `HandleQuery`, citation check | orchestrator |

The gateway and the worker share four stores: MinIO, the Kafka topic, SpiceDB
and Qdrant. No transaction spans any two of them. The orchestrator's calls share
the Redis cache. What is hard follows from that:

* the three writes of an upload may stop anywhere, succeed without being
  reported, or be overtaken by those of another upload to the same path;
* the writer may lose a record, duplicate it, or put two events of one tenant on
  two partitions; the worker may crash, stop or fail its commit between any two
  steps and handles the record again;
* the worker reads the object at the time it handles the event, not the one the
  event was written for;
* a cached answer crosses from the call that wrote it to calls of other users,
  while team memberships, relationships and documents change;
* the evaluator and every service may fail at any stage of a query;
* the platform delivers a WhatsApp request again while an earlier delivery of it is
  still being handled, one delivery may mix the lines of several tenants, and an
  answer one channel cached reaches another that has stricter rules;
* the chunk loop carries text over its own boundaries, with a size, an overlap, a
  minimum length and a section to respect at the same time.

Per component, what makes it correct: the upload handler publishes no event
without an object; the worker loses no record, blocks on none and reports
"processed" only for searchable documents; the collection converges on the
stored object and points never cross paths; the orchestrator returns and caches
only what the judge accepted; the cache keeps tenants, team sets and questions
apart; the chunker loses and mixes no text; a channel answers a line only from
its tenant's chunks, acknowledges only a delivery it attempted to answer in full, gives
each message its own reply, and lets a legal answer cite, as far as its patterns see,
only what the sources cite; every request of the query and upload handlers returns. `PROJECT.json` lists the hazards line by line
with the property that watches each.

## Modules

| Module | Models |
|---|---|
| `IngestionState` | constants with their assumptions, the variables the gateway and the worker share, records and tuples |
| `UploadHandler` | the handler, one action per call it makes, the Kafka writer's attempts and a gateway crash |
| `Worker` | the consumer loop, one action per step that changes state, with crash, stop, failed commit and restart |
| `Ingestion` | both composed, `Next`, fairness, the properties |
| `AtLeastOnce` | abstract specification of record delivery; `Ingestion` refines it |
| `Orchestrator` | concurrent `Execute` calls, cache, world around them, the properties |
| `AnswerService` | abstract specification of scoped, vetted answers; `Orchestrator` refines it |
| `Chunker` | `process_pdf` without the parser: the filter and the two loops of `chunk_elements`, one action per branch |
| `Citations` | legal references as the worker stores them and as the gateway reads and compares them |
| `Channels` | webhook, chat and legal handlers as goroutines over the pipeline, with redelivery and crashes; it instantiates `AnswerService` for the pipeline and extends `Citations` |
| `Ingestion_proofs`, `IngestionData_proofs`, `AtLeastOnce_proofs`, `Orchestrator_proofs`, `AnswerService_proofs`, `Chunker_proofs`, `Channels_proofs` | theorems about the module of that name; `IngestionData_proofs` is about the stores, on top of `Ingestion_proofs` |
| `MC_Ingestion`, `MC_Orchestrator`, `MC_Chunker`, `MC_Channels` | instances for TLC |

### How ingestion corresponds to the code

`upc[u]` is the program counter of the upload's handler: `Receive` is
upload.go:40-90 up to the first remote call, `PutObject`, `Publish`/`Await` and
`CreateDocumentRelationships` the three calls, each followed by the error return
or the next call. A call that fails may have had its effect, since a context may
end after the server acted. A document's bytes are named by the upload that sent
them, an event by the upload it stems from; of the bytes only the number of
chunks matters. `batch[u]` is the message inside the writer, `Attempt` one
produce request. The writer leaves `RequiredAcks` at its default, `RequireNone`, so
an attempt may succeed without an append; an error is retried up to
`MaxAttempts` times. `LeastBytes` is any partition. `GatewayCrash` ends every
handler and drops every batch; the graceful shutdown of main.go:183-200 drains
both and adds no behaviour.

`wpc` is the position in the consumer loop. `Download` is `_parse_event` and
`fget_object`; `Store` is extraction, embedding and upsert, in which only the
upsert changes shared state; `PublishProcessed` and `PublishFailed` put an event
into the producer's buffer, or raise; `Commit` is the `finally` block, reached
from both. After a failing `_publish_failed` the commit still happens and the
exception ends the process (`commit_and_exit`). `Deliver` is librdkafka's thread.
`Restart` is compose's `restart: unless-stopped` with the consumer group's
committed offsets and `auto.offset.reset: earliest`.

`at`, the append time of a record, exists for `PerTenantOrder` only; `handled`
and `faults` are history. `appends` and `log` are bounded by the uploads and
`MaxAttempts`.

### How the query pipeline corresponds to the code

`pc[c]` is the stage of a call of `Execute`; phase 1 is three goroutines
(`running`) whose first error is kept (`firstErr`), `Wait` the errgroup's join.
`GetSemantic` and `GetExact` may always miss (an error is a miss, too). `Search`
returns any non-empty part of the matching documents of at most `TopK`, or an error;
`CheckDocumentAccess` asks for one document at a time, in any order, against the
relationships of that moment. `Draft`, `Evaluate` and `Rewrite` are the
self-reflection loop; `attempt` numbers the drafts, so an answer is identified
by the call, the draft's number and the chunks it was written from. `SetExact`
and `SetSemantic` may fail with or without effect. `World` changes what the
calls read: documents get points and relationships in either order, users
change teams, entries expire. A call whose deadline has passed only sees
errors, which every step may meet anyhow: the model therefore contains those
behaviours and some more.

A tenant is a valid id (`IsValidTenantID`), which `sanitizeTenant` leaves alone,
and a team set stands for its `permissionHash`; names with the hash's separator
are outside the model.

### How the chunker corresponds to the code

A text is its number of characters, and a document the sequence of its blocks
under their sections; `end` of a block sums the characters so far. The accumulated
texts of the loop are always consecutive blocks, so `acc_texts` is the interval
`from .. next - 1` and a chunk is an interval, too. `acc_len` is kept as the code
keeps it, without the separators inside the carried text, which is what
`SizeBound` is about. `ReadTitle`, `ReadText` and `EndOfFile` are the filter, the
first loop and the two early returns before the second; `NewSection`, `SplitBySize` and
`AppendBlock` are the branches of the second loop, each with its call of
`_flush_chunk` and `_overlap_carry` inside. Page numbers follow from the blocks and are left
out; entities are in `Citations`.

### How the channels correspond to the code

`stage[h]` is where the goroutine of a request stands and `at[h]` the message of
the delivery it has reached. `Arrive` is the signature check and the parsing,
`Skip` the `continue`s of `handleInbound` and the nil reply of `HandleMessage`,
`Greet`, `Alarm` and `Ask` its branches up to `Execute`, `Returned` what it and
`HandleQuery` make of the result, `SendText`, `Show` and `Ack` the ways out. What
happens inside `Execute` is what `AnswerService` allows: `Execute(h)` instantiates its
actions for the call `<<h, at[h]>>` and `Orchestrator` is shown to implement it, which
composes the two. The pipeline's scope is that of `TenantFor(h)`; its answers are sets of
chunks with a set of references (`phrases`). A request stays equal to itself, so a
redelivery is a second handler with the same request; it is possible until the
delivery is in `acked`. Whether `acked` has it is left open after a 200, because the
platform may have given up waiting. A reply is a text of the code (greeting, emergency,
fallback) or an answer, with the routing of portaria/service.go or the status of
legal/service.go as its kind and the error that is returned beside it (502 on the web):
the portaria routes an emergency to a person, and so it does its fallback after an error
or an ungrounded result. `sends` records the attempts to send, successful or not, since
a failure is only logged: what the runs and theorems say of replies, they say of attempts.
Which person a web request comes from and which a message goes to are not distinguished
beyond there being a sender.

`Citations` models the regular expressions by what they do to a mention of a norm. A
mention has a form: plain, with a qualifier both patterns know ("Lei Complementar"), or one
neither knows ("arts. 150", "Lei Federal n. 8.666"), which is not seen at all. Of the
others the patterns capture the number, with the ordinal of an article; the qualifier
and an article's letter are lost ("Art. 150-A" is 150, as citations_test.go:94 says it
should be). The worker's law and decree patterns require the mark "n" before the number and
keep trailing punctuation, the gateway's accept a bare number and trim it. `Normal`
is `normalize`: it drops the ordinal sign and one final full stop, not the letter o
that the patterns accept in the sign's place. Numbers are model values; spaces and case,
which `normalize` removes, are left out.

Definitions named in a comment as "Mutant of X" are not part of any
specification. Each replaces X in a control run of the property that should
notice the change.

## Runs

All runs take seconds to about one and a half minutes with two workers. Deadlock
checking is off in all of them: when every upload or call has been replied to
and no fault is left, the modelled system has nothing to do.

| Run | Instance | Question |
|---|---|---|
| `overwrite` | 2 uploads, 1 partition, 1 fault; one path with 1 or 2 chunks, the same file in another tenant, a file of the same SpiceDB name, a request without tenant (1.7M states under the view) | `TypeOK`, `EventHasObject`, `PointsStayInPath`, `StoredContentCurrent`, `GrantsMatchUploads` |
| `delivery` | 1 upload sent up to twice, a malformed record, 2 partitions, documents of 0 or 1 chunks, 1 fault (1.6M) | `CommittedHandled`, `ProcessedMeansStored`, refinement of `AtLeastOnce` (no committed record is taken up again) |
| `ingest_live` | the same with 1 partition (0.2M) | `EveryRecordCommitted`, `EveryUploadAnswered` under `Fairness` |
| `scope` | 2 calls: in one tenant by 2 users with 3 queries (one similar, one with the same normal form), in another by one; 2 documents, 3 changes (1.5M) | `TypeOK`, `OnlyJudgedAnswers`, `CachedForSameTeams`, `SourcesRegistered`, `TenantIsolation`, `CachedForSameQuery`, `SourcesEntitled`, `CallsBounded` |
| `query_live` | 2 calls, 1 document, 3 changes (0.3M) | `EveryCallReturns` under `FairSpec`, refinement of `AnswerService` |
| `chunks` | every document of at most 5 blocks of 1, 2 or 7 characters in 3 sections, 4 settings (1.1M) | `TypeOK`, `SectionPure`, `ChunksAdvance`, `TextKept`, `SizeBound` |
| `channels` | 2 handlers, 9 requests on 3 lines of 2 tenants, 4 sets of references in an answer, 1 crash (0.3M) | `TypeOK`, `AckedAttempted`, `LinesApart`, `CitationsInSources`, `PlainlySaidAccepted`, `RepliesFitMessages` |
| `tenant_order`, `commit_failed`, `queued`, `viewable`, `citation_sync` | smallest instances | violated, see below |

Bounds: `MaxFaults` = 1 puts one crash, stop or failed commit at every possible
moment, which is one redelivery; the theorems cover any number. `MaxAttempts` = 2
duplicates a record. `MaxChunks` = 2 has a shorter and a longer document.
`MaxChanges` = 3 lets a document become searchable and registered and
a membership change between the two. Two calls are a writer and a reader
of the cache. Uploads and calls are interchangeable in every definition, hence
the symmetry sets, which no liveness run uses. `overwrite` also has a view
(`Observed`) without `results`, which no guard and no other variable depends on; of
its properties only `TypeOK` mentions it, and `TypeCorrect` proves it without the
view. The file names of `overwrite` are those of the hazard at spicedb.go:20: report.pdf and
report_pdf have two paths and one SpiceDB document.

In `chunks`, settings (9, 4, 3) have the order of the defaults 2000, 200, 50; (8, 2, 6)
has a minimum above the overlap, where text may be lost and `TextKept` claims
nothing; (6, 0, 1) has no overlap; (3, 3, 1) is refused. Blocks of 1 and 2
characters fit into an overlap, alone or in pairs, a block of 7 exceeds one chunk size
and fits another, and five blocks make three chunks with a carry
between each. In `channels` two handlers are enough for a redelivery that races the
first handling, for two channels that share a cached answer, and for a crash that ends
one while the other's reply is on its way; with three the states exceed ten million. The
theorems cover the rest.

### Fairness

`Fairness` asks that a handler that can go on does (its calls share a 30 s
context, upload.go:89), that the worker's loop goes on and its container is restarted
(docker-compose.yml:255), and that the producer settles every buffered event
(`message.timeout.ms`). Nothing is asked of the writer's success, of crashes or
of any service: `EveryRecordCommitted` holds although every download, upsert and
publication may fail. Only finitely many faults happen (`MaxFaults`): a worker
that crashes for ever commits nothing. `FairSpec` of `Orchestrator` asks that
a started call takes its steps, which query.go:63 bounds by a deadline; nothing
is asked of the world. `Channels` has no fairness and claims no liveness: its handlers
pass contexts without a deadline, so nothing in the code bounds their calls.
The chunker is a loop over a finite list.

### What comments promise and the code does not do

* `PerTenantOrder` (upload.go:120): the balancer ignores the key.
* `CommittedIngested` (consumer.py:62, 283): the `finally` block commits failures.
* `AcceptedQueued` (upload.go:154): with no acknowledgement asked for, a 202 does not say
  that the broker has the event.
* `CachedSourcesViewable` (docs/api-usage.md:142): the cache scope leaves out
  the user, the permissions do not.
* `VerbatimAccepted` (citations.go:8, patterns that "MUST stay in sync"): an answer that
  repeats "Lei 8.666" as its source has it is rejected, because the worker
  required the "n" the gateway does not.

These were seen while modelling and have no run of their own; the models do what
the code does:

* normalize's comment (citations.go:131) says that it collapses ordinal markers to ASCII; it
  drops them and keeps the letter o, which is what both patterns accept in ASCII. So
  "Art. 5º" in an answer is rejected when its source has "Art. 5o" (`Normal`).
* citations.go:61 says that with nothing unverified "every citation in the answer is
  grounded in a retrieved chunk"; forms the patterns do not know are not looked at, and an
  answer's "Art. 150-A" is verified by a source's "Art. 150" (`Captured`).
* webhook.go:109 says that the platform is acknowledged with 200 "immediately"; `Receive`
  answers every message first (`Ack` comes last), so a slow pipeline means
  redelivery and a second answer to the same message.
* verticals/legal/README.md:124 lists a status `no_context`; `Execute` reports an
  empty search as not grounded, which becomes `ungrounded`, and a vetted answer has
  sources, so no request ends there.
* legal/service.go:77 promises a reply with every error; a query of blanks gets an
  error without one, and the endpoint answers 500 (`RejectBlank`).
* schema.zed:18 lets a single user be a viewer of a document; the gateway writes teams
  only, and `CanView` has no such viewers.
* portaria/service.go:67 says a reply is always returned; without tenant or sender
  there is none (`Skip`).
* ADR 014 says that cache keys include tenant and phone; they are made of tenant and teams.
* the emergency reply says that the porter was notified; nothing notifies anybody (`Alarm`).

## Proofs

`Ingestion_proofs` shows, for any sets and bounds that satisfy the assumptions of
`IngestionState`:

* `TypeCorrect`: `Spec => []TypeOK`, by the inductive invariant `TypeInv`.
  `TypeOK` alone is not inductive: `Download` indexes the log by `msg` and the
  stores by the record's path, so `TypeInv` adds that admitted uploads have a valid
  request, that records belong to admitted uploads, that a message being
  handled is a record of the log, and that a document is only stored when it was
  downloaded.
* `NoRecordSkipped`: `Spec => []CommittedHandled`. The invariant `CursorInv` orders the
  offsets of each partition, committed <= position <= length, and says that
  every record up to the position is handled, except the one that
  the worker is handling now. `Commit` then copies a position below which all is
  handled, and `Restart` goes back to one.
* `ImplementsAtLeastOnce`: `Spec => AtLeastOnceDelivery`. Each action is mapped to one of
  `AtLeastOnce` or to a stutter under both invariants: `Poll` is `Take` (the record lies
  beyond the committed offset: this is where a worker that restarted too early would be
  caught), `Conclude` is `Handle` of the record in hand, the reports and a crash
  are `PutDown`, `Commit` is `Acknowledge`.

`Orchestrator_proofs` shows, for any calls, questions, tenants, documents, cache
keys and bounds that satisfy the assumptions of `Orchestrator`:

* `TypeCorrect`: `Spec => []TypeOK`. `TypeInv` adds `RoundsBounded`: whoever judges,
  rewrites or caches has a draft, and only a draft before the last round is rewritten.
* `OnlyJudged`, `TenantsIsolated`, `CachedForTeams`, `SourcesKnown` and
  `CachedForQuery`: the safety properties of the run `scope`, all from `AnswerInv`.
  None of them is inductive, because an entry outlives the call
  that wrote it: the properties relate a reply to the arguments and teams of
  another call. The argument is that these are fixed when phase 1 is over
  (`Fixed`) and that verdicts and relationships only accumulate. So an
  answer that is `Sound` (judged, of registered documents of its call's tenant)
  stays sound (`SoundStays`). `Retrieved` says that a call about to cache has such
  an answer, `Remembered` that the entries are filed under the scope and query of
  the call they were written for, and `Replied` that a reply has the scope and matches
  the query of the call it answers.
* `SharedWithinTeams` is `SourcesEntitled`, from the same `AnswerInv`. `Fetched` follows a
  document from the search to the draft: what a call holds is of its tenant, and shared
  with one of its teams or its own; what the permission check let pass has
  relationships, and the user may enter its tenant (`MayEnter`). `Sound` carries both into the cache. What crosses to another
  user is then bounded by the equality of scopes: the reader has the writer's teams, so
  the only documents that are not shared with the reader's teams are the writer's own. (That these
  do cross is the violation run `viewable`.)
* `CallsEnd` is `CallsBounded`, the half of `EveryCallReturns` that needs no fairness:
  `StepsLeft`, a natural number, falls with every step of a call and other steps leave the
  call alone. It needs `RoundsBounded` for the self-reflection loop and `FiniteWork`, that the
  goroutines to join and the documents to check are finite sets. That an unfinished call
  can take a step is the other half and stays with the run `query_live`.
* `PipelineServes`: `Spec => ImplementsAnswerService`. Each action is mapped to one of
  `AnswerService` or to a stutter; `StageInv` adds that only a call that is done
  has a reply and that no call goes on after an error of phase 1.

`IngestionData_proofs` adds, under the same assumptions, the properties of the stores:

* `EventsHaveObjects`, `PointsKeepTheirPath`, `ProcessedAreStored` and
  `ContentConverges` are `EventHasObject`, `PointsStayInPath`,
  `ProcessedMeansStored` and `StoredContentCurrent`, all from `DataInv`. The key is
  that an upload is put once and before it has an event (`ObjectsOwned`), so bytes that were overwritten never
  come back (`NoComeback`). `DocCurrent` says what this means for the worker between
  download and upsert: if the object of an ingested record's upload is stored now,
  the bytes in hand are that upload's. So an upsert that runs late cannot replace current
  points by older ones, and `IngestedStored` is kept. `ReportsTrue` ties
  reports to ingested records. `CursorInv` contributes that handled coordinates
  are records.
* `GrantsAsAsked` is `GrantsMatchUploads`. A handler has no batch before it publishes, and one
  that has come to the relationships has a batch that was written (`BatchedOnce`), a state it never
  loses; `Granted` says of each tuple which such upload asked for it, and `ObjectsOwned` that there
  is an object at that upload's path.

`Chunker_proofs` shows for any settings, titles, sizes and number of blocks:

* `TypeCorrect`, from `Shape`: ends of blocks grow, and the positions of the loop and of
  the chunks lie within the document.
* `SectionsPure`: all accumulated blocks have the section `acc_section` (`AccPure`).
* `ChunksInOrder`: `LastChunk` relates the last chunk to the accumulated blocks,
  which begin no earlier and end later, and share at most `overlap` characters with it.
* `SizesBounded`: `AccSize` says by what `acc_len` may fall short of the accumulated
  text, the separators inside what was carried.
* `TextIsKept`: when a split by size discards a piece, the piece is shorter than the
  minimum, hence within the overlap, and all of it is carried; so blocks are left behind
  uncovered only at the end of a section.

`Channels_proofs` shows for any handlers, requests, lines, chunks and crashes, under the
assumptions of `Channels`:

* `TypeCorrect`, from `TypeInv`, which adds `Walks`: a handler past its arrival has a
  request, one that waits or replies is at a message that concerns the tenant.
* `TenantsKeptApart` is `LinesApart`. `PipelineInv` says that a call's scope has the tenant
  of its message's line and that vetted, remembered and given answers are written from
  chunks of their scope; `RepliesOwn` and `SendsOwn` carry that to the reply in hand
  and to what was sent. It rests on what `AnswerService` promises, which `PipelineServes`
  shows of `Orchestrator`, and on two guards of `Execute` that `AnswerService` does not
  promise and that come from `Orchestrator`: a call's scope has its tenant, and an
  answer is written from chunks of the tenant of its scope (`TenantsIsolated` there).
* `AcksComeLast` is `AckedAttempted`: a handler attempted a reply to every message it has
  left behind (`LeftAnswered`), a request is fixed once it arrived, and `Ack` needs the last
  message to be left behind. That an attempt succeeded is not claimed.
* `CitationsSaid` is `CitationsInSources`, from `VerifiedSaid`: a seen reference that
  `VerifyCitations` lets pass matches an entity extracted from one of the answer's sources,
  and matching values have the same category, number and letter o (`MatchesSame`).
* `PlainCitationsPass` is `PlainlySaidAccepted`, the converse for seen references that a
  source makes in a form the worker recognises (`SaidVerified`), with the same letter o;
  `citation_sync` shows that it fails for laws without the "n". A handler's
  reply goes with what the pipeline gave for its call, which is fixed once the handler replies (`GivenStays`).
* `RepliesInPlace` is `RepliesFitMessages`: on the portaria's channels only questions wait for
  the pipeline (`WaitingAsks`), so the reply in hand fits the message the handler is at
  (`ReplyingFits`): the emergency text if and only if it is an emergency, for a question the
  answer given to the call `<<h, at[h]>>` or the fallback. The request a send refers to is
  fixed, and so is what a call was given (`GivenStays`).
* `DrivesAnswerService`: `Spec => Pipeline!Spec`. What the channels do to the pipeline's variables,
  with crashes and redeliveries, is what `AnswerService` allows its callers; `PipelineServes` is
  the other side of that interface.

`AtLeastOnce_proofs` and `AnswerService_proofs` say what the two abstract specifications
are worth. `AcknowledgedHandled` (`NoneLost`): only published records are acknowledged, each after
it was handled. `AcknowledgedLeftAlone` (`NoneRetaken`): an acknowledged record is never in hand
again. `NothingTakenBack` (`NothingUndone`): records stay where they are,
and what was handled or acknowledged stays so. `RepliesServedInScope`
(`ServedInScope`): a grounded reply is a vetted answer of a call with the same scope.
`RepliesAreFinal` (`FinalReplies`): replies and scopes never change. With
`ImplementsAtLeastOnce`, `PipelineServes` and `DrivesAnswerService` they hold of the detailed
models under their refinement mappings. That last substitution is made here, not by tlapm,
which does not use theorems of an instantiated module as facts.

Every safety property, every action property and both refinements are proved. Only
model-checked: liveness under fairness (`EveryRecordCommitted`, `EveryUploadAnswered`, `EveryCallReturns`),
which is outside the prover's reach. The properties of the violation runs are false.

## Not modelled

Configuration, CORS, logging, health and static files, the web pages and the
infrastructure scripts have no state of interest; the phone map of the configuration is
the constant `TenantOf`. (Its tenants are not validated, unlike those of requests on
the web; an id outside the valid form might share `sanitizeTenant`'s image with another, and
the model has no such ids.) Prompts, scores, snippets, timings and JSON are data no property
distinguishes. The choice of the LLM model by the router only changes which draft is
written. Parsing of PDFs and page numbers, the computation of webhook signatures (whether
one is genuine is an input), the platform's `Verify` handshake and the mapping of the
orchestrator's errors to HTTP statuses keep no state. The deadlines are over-approximated
as above. Rebalancing is not modelled: compose starts one worker. Of the embedder, the
batches of the embedding calls and `ensure_collection` are part of the failures of `Store`.

## Plan

What is left, in this order:

1. Point metadata against the tuples of re-uploads with changed permissions.
   `GrantsMatchUploads` and `PointsStayInPath` bound each on its own; no text of the
   repository states how they should agree.
2. The composition of `Ingestion` and `Orchestrator` over one collection: `World` of
   `Orchestrator` stands for the worker and the upload handler today.
