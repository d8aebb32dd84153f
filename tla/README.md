# A verification development of the energy-flexibility pipeline

The repository is a pipeline of Node.js services around Kafka and TimescaleDB: telemetry of
household devices is ingested, normalized, mapped to SAREF4ENER concepts by a small language
model (SLM), translated to IEEE 2030.5; grid signals become dispatch proposals that people
approve before simulated devices are commanded; and a gateway guards the entrance and serves the
pages of customers and operators. This directory holds TLA+ models of its services,
the TLC configurations that check them on small instances, and proofs that TLAPS checks. Paths
below are relative to the root of the repository, mostly to `services/`.

Run `tlc -config MCX.cfg M` for a row of the table in section 4 and `tlapm M_proofs.tla`
for the proofs. `PROJECT.json` maps each definition to the lines it stands for and lists the
hazards each property is aimed at.

## 1. Inventory

| Part | State it keeps | Operations | What is hard about it |
| --- | --- | --- | --- |
| *household-fleet-simulator* | a queue of devices, pending envelopes, lanes | schedule, send, retry | timeouts of sends that took effect, the in-flight bound, Retry-After |
| **security-gateway, proxy** | rate-limit windows, `security_gateway_audit` | check a request, forward it, audit the decision | window edges, audits before and after the answer, restarts |
| **ingestion-api, mqtt-subscriber** | none | validate a message, send it to `raw.telemetry` | two spellings of a payload; a failed MQTT send is dropped |
| **engine** | `raw_telemetry`, `normalized_telemetry`, `simulated_device_registry`, `processing_errors` | one handler per message: validate, one transaction, publish what was new | redelivery, overlap of workers, swallowed errors, publication after the commit |
| **semantic-connector worker** | `semantic_events`, `semantic_slm_audit`, metrics, the group's offsets | one handler per Kafka batch: dead-letter the invalid, map, store, publish, commit by hand | a throw anywhere repeats the batch; verdicts may differ the second time; lost partitions |
| **SLM batch mapper** | attempts, pending and accepted readings of a batch | call, reconcile by id, retry the rest | partial, wrong and duplicate answers |
| **SLM providers** | `ConcurrencyLimiter`, `CircuitBreaker` | admit, wait, wake, open, cool down | counting by hand across awaits |
| **ieee20305-translator** | `ieee20305_events` | store, publish, for grid signals and for semantic events | store then publish without a retry |
| **aggregator** | `dispatch_commands` (insert) | insert a proposal, publish, audit | redelivered signals insert twice |
| **approval-workflow** | `dispatch_commands.status`, `dispatch_approval_audit` | review, approve, reject, mark_ready over HTTP | read, then update; four awaited effects after the decision |
| **mock-dispatch-adapter, device-command-translator** | execution audits | simulate a ready proposal; allocate and send commands | partial sequences, repeated commands, rounding of shares |
| **security-gateway, customer pages** | `household_generated_insights`, back-off, the scheduler's queue | access rules, read model, platform status, insights | pages made of several queries; concurrent generation of insights; partial persistence |
| **dataspace-export** | `dataspace_exports` | query, pseudonymize, audit | order of export and audit |
| customer console, scripts, infra | sessions | user interface, demos | not part of the core |

The parts in bold are modelled, the one in italics partly. They interact as follows.

- Kafka topics, at least once: `raw.telemetry` from the ingestion to the engine,
  `normalized.telemetry` to the semantic connector, `semantic.enriched` to the translator;
  `grid.signals` from the translator to the aggregator, `dispatch.command.proposed` from
  the aggregator, `dispatch.command.ready` from the approval workflow to the two adapters.
- HTTP: the fleet and every other client through the gateway to ingestion, approvals and exports;
  the command translator to the device simulators.
- The database: the aggregator inserts the rows that the approval workflow updates; the
  gateway's pages and the exports read what the others write.
- Function calls inside the semantic connector: the worker calls the batch mapper, the mapper
  calls a provider through limiter and breaker, and calls back (`onRetry`) to publish a retry.

What makes a part correct, in one line each: *fleet and ingestion*: no reading of a device is lost or
overtaken; *gateway*: refusals leave a trace, Retry-After is enough; *engine*: no message
vanishes, a reading is dropped only for the one stored under its id, none is published twice,
nothing blocks the partition; *semantic worker*: offsets follow durable outcomes, mappings and
audits agree; *mapper*: every reading ends with one
outcome; *provider*: no slot is lost; *approval*: decisions do not conflict, what is announced was
approved and is audited; *dispatch*: the trail of a command leads back to an approved proposal,
repetitions are bounded, shares fit the devices; *exports*: no export without its audit, no
identifiers; *pages*: figures of an answer agree, nobody sees another household, an insight
states a fact.

## 2. Modules

| Module | Models | State and actions |
| --- | --- | --- |
| `ApprovalLifecycle` | what the approval workflow promises | a status per proposal and who announced it; `Propose`, `Decide`, `Announce` |
| `ApprovalWorkflow` | `approval-workflow/src` | the two tables, two topics, and per request a program counter and the handler's locals; one action per await of `applyApprovalAction` (`ReadRow`, `UpdateStatus`, `InsertAudit`, `PublishAudit`, `PublishReady`), one for the synchronous middle (`CheckAndBuild`), `Receive`, `Crash` |
| `PartitionGroup` | Kafka's consumer group (external) | owner, committed offset, positions; operators that the consumers below put into their actions |
| `StoreThenPublish` | what engine and connector promise about an output topic | items stored, and how often each was sent |
| `TelemetryEngine` | `engine/src` | readings, registry, error log, publications; `TakeMessage`, `InsertBatch`, `PublishNew`, `LogError`, offsets by auto-commit |
| `SemanticConnector` | `semantic-connector/src/index.js`, `db.js`, `reading-batcher.js` | audit and semantic rows, three topics, per worker its batch and outcomes; one action per await from `FetchBatch` to `CommitBatch` |
| `SlmBatchMapper` | `batch-mapper.js`, `slm-batch-validation.js` | the loop of `mapReadingBatch`; every answer of up to `MaxItems` items |
| `SlmProvider` | `providers/` | callers, limiter, breaker, timers |
| `GridSignals`, `SemanticTranslation` | `ieee20305-translator/src/translator.js`, `aggregator/src/validation.js`, `aggregator.js` | no state: from a signal to an event, to a proposal; from a semantic event to an IEEE 2030.5 event |
| `MockDispatch`, `DeviceCommands` | `mock-dispatch-adapter/src/mock-adapter.js`; `device-command-translator/src/translator.js`, `device-registry.js`, `common/simulators` | no state: what is simulated for a proposal; allocation, commands, results, and what a command does to a device |
| `DispatchChain` | the loops of those four services, composed with `ApprovalLifecycle` | per service a program counter, its position and committed offset; rows, topics and audits; one action per await: `PostSignal` to `PublishSignal`, `TranslateReadings`, `Aggregate`, `Review`, `Announce`, `Adapt`, `Translate`, `CommitResolved`, `Restart` |
| `GatewayRules` | `security-gateway/src/security.js`, `proxy.js`, the order in `index.js` | no state: which request passes, where it goes |
| `TelemetryPayload` | `common/telemetry-validator.js`, the normalization in `ingestion-api` | no state: which payload is valid, under which key it is sent |
| `DataspaceExport` | `dataspace-export/src` without its handlers | no state: assets, limits, pseudonyms, queries, payloads |
| `EdgeTelemetry` | the fleet's scheduler, the gateway's pipeline and limiter, ingestion, exports, MQTT | requests in slots with a stage each, windows, pending readings, topics, audits; `Settle`, `Timeout`, `Admit`, `Record`, `Ingest`, `AnswerElsewhere`, the export steps, `HandleMqtt`, `Tick`, `Restart` |
| `CustomerMetrics`, `CustomerViews`, `CustomerAccess`, `CustomerReadModel`, `PlatformStatus` | `security-gateway/src/customer-metrics.js`; the SQL views; `customer-auth.js`; `customer-read-model.js`; `platform-status.js` | no state: tables are sets of records, a query is a set expression, an answer a function of the worlds its queries met |
| `CustomerPortal` | the customer and platform routes of `index.js`, and `customer-insights.js` | requests, makers of insights, back-off, scheduler; the database moves through `History` between two queries |
| `*_proofs` | | the theorems of section 5 |
| `MC*` | | constants for TLC: logs, requests, worlds, the symmetry |

How the code's constructs appear:

- **An await is an interleaving point.** Between two awaits a handler is one action. An awaited
  query or send has three results: done; not done and an error; done and an error all the same
  (the acknowledgement was lost). The exceptions are the reads, where the last two agree.
- **A transaction is one step**, because no other step can see its middle; a rollback is the
  same step without effect, and a lost acknowledgement of COMMIT the effect with an error.
- **A crash or restart** keeps tables and topics and drops what the process had in memory. Requests
  that were being handled stay unanswered.
- **Topics** are sets or counters of what was sent, as no property of a producer depends on
  the order, except where one does (`raw` in `EdgeTelemetry` is a sequence per key); the
  input of a consumer is a log read by offset.
- **Numbers** that are rounded in the code are integers of the unit it rounds to (watts where it
  rounds to a thousandth of a kilowatt), and rounding is integer division.
- **Definitions named in a "Mutant:" comment** are plausible mistakes. They belong to no
  behaviour: each shows that a property fails when the code has that mistake.

## 3. Assumptions and abstractions

- *Clock.* `ApprovalWorkflow` assumes a wall clock that does not go back. `event_time` is
  wall-clock time, so with a clock set back `AuditTimesFollowLifecycle` would not hold.
- *Messages* carry what identity needs: time, ids, names, and a value that tells two readings
  under one id apart. Units and the normalizer's arithmetic are left out; whether a message
  validates is a field of it.
- *One send is one record.* Where a property says that something is published at most once, it
  counts calls of `producer.send`. kafkajs may repeat the request of a producer that is not
  idempotent, as these are, and the broker then has the record twice.
- *`raw_telemetry`* is left out of the engine's transaction. It is written with the readings and
  read by no service that is modelled.
- *A Kafka batch* is any prefix of what is left of the log; an *SLM batch* is any prefix of the
  batch up to `MaxReadings`, for the prompt-token limit can cut it anywhere. In `SlmBatchMapper` the
  ids of a batch are distinct; a reading that a batch holds twice appears in
  `SemanticConnector`, with one verdict, since the mapper keys its outcomes by id.
- *The SLM* answers anything at all, or not.
- *Rebalance.* The semantic worker asks `isStale()` once, before its handler; afterwards a worker
  that lost the partition works on and only its commit is refused. This is modelled as it is.
- *The limiter.* One step of `SlmProvider` is a macrotask with its microtasks: a waiter that is
  resolved takes its slot before any other caller runs. This is Node's order as long as two
  callers are not resumed by the same I/O callback, and the providers' callers are resumed by
  their own sockets and timers.
- *Cooldown* counts ticks, and the age of an open breaker is cut off at the cooldown, past
  which the code does not look.
- *Read-only routes* outside the gateway, logging, health checks and warm-up change none of the
  state.
- *The dispatch chain.* The reviewers act through `ApprovalLifecycle`, which `ApprovalWorkflow`
  implements (section 5). A service is one process that handles a message at a time, as its compose
  file starts it. The semantic events and the grid signals share no state, so a behaviour has
  either (`Init`). Names are sets of the fragments that the translator looks for. A list filtered out
  of the device registry is the set of the positions it keeps, in the registry's order. A reading id
  and a time name one semantic event, as the connector publishes a reading once
  (`EnrichedAssumption`); a reading without a usable time gets another one each time it is taken.
- *The edge.* A device and another client never share a rate-limit window, and the audits relate to one
  request each, so fleet and others take turns (`Loads`). Time is in ticks and ages are relative;
  a timer may be late by `MaxOverdue`, and `InFlight` stands for the `next_at` of a device whose send
  is awaited, later than any delay. A pseudonym is an injective renaming. Of an export's columns
  those are modelled that hold a household or a device; the free texts (explanation, reason,
  correlation id), which are exported as they are, are left out. The gateway's own pages are one
  step that may fail; what they show is in `CustomerPortal`.
- *The portal.* The rest of the platform adds to the tables, changes the status of proposals and
  overwrites a device's row of the registry, so that a device may change household, community and
  type (`HistoryAssumption`); the pseudonyms of two households differ. Where a query leaves an order
  or the row it takes open, among equal times, the model takes some (`SortedBy`, `LatestPerDevice`). Each query of an answer meets one world between its
  arrival and its end; queries of one `Promise.all` may meet different ones. The model answers
  with keys of facts, known or not, repeated or not. Lists that the worlds cannot fill leave out
  their LIMIT.

## 4. Runs

| Run | Module, configuration | Bounds | Result |
| --- | --- | --- | --- |
| `approval` | `MCApprovalWorkflow` | 1 proposal, 4 requests (symmetric), clock 0..1 | holds, 441,677 states |
| `approval_ready_lost` | `ApprovalWorkflow`, `MCApprovalReadyLost.cfg` | 1 proposal, 3 requests | **violated**, as section 6 says |
| `engine` | `MCTelemetryEngine` | 2 workers, 3 messages, 2 disturbances | holds, 192,914 states |
| `engine_reading_lost` | the same, `MCTelemetryReadingLost.cfg` | the same | **violated** |
| `connector` | `MCSemanticConnector` | 2 workers, 4 messages, SLM batches of 2, 2 disturbances | holds, 1,157,959 states |
| `connector_output_lost` | the same, `MCSemanticOutputLost.cfg` | the same | **violated** |
| `batch_mapper` | `SlmBatchMapper` | 3 readings, 3 attempts, answers of 3 items | holds, 28,093 states |
| `batch_mapper_duplicate` | the same, `MCSlmDuplicateAccepted.cfg` | the same | **violated** |
| `provider` | `SlmProvider` | 5 callers, 3 slots, threshold 2, cooldown 3 | holds, 23,194 states |
| `dispatch` | `MCDispatchChain` | 1 signal and 2 foreign messages, or 5 semantic events; 1 disturbance | holds, 522,500 states |
| `edge` | `MCEdgeTelemetry` | 21 loads: 2 devices with up to 2 readings, or pairs of 17 requests, or MQTT; 1 or 2 disturbances | holds, 956,277 states |
| `portal` | `MCCustomerPortal` | 3 worlds, 34 requests, 1 scheduler pass, 1 disturbance | holds, 111,826 states |

What they show, and why the bounds suffice:

- **approval.** `OneWinnerPerStatus`: no two changes or audit rows leave the same status of a
  proposal. `GovernedReady`: a ready event stands for one review, one later approval, and the
  announcing decision, and no rejection. `AuditTimesFollowLifecycle`: event times never
  contradict the order of the decisions. `ReadyIsAudited`: no ready event without its row and event in
  the audit. `ResponseTruthful`: a 200 means that everything was done, a 400, 404 or 409 that nothing was.
  `ImplementsLifecycle`: refinement of `ApprovalLifecycle`. Three requests
  walk a proposal to ready and the fourth races with each of them; two proposals share nothing but
  the process, so one suffices for TLC, and the proofs have any number. Two
  values of the clock tell equal times from later ones.
- **engine.** The log has a message with four readings of which two carry the same id of the
  sender's, an invalid message, and the first message id again with one value corrected, one
  reading as it was, and the shared id on a third reading. `ConsumedIsAccounted`: below the committed
  offset a message is in the error log, or the log itself failed, or each of its readings is stored
  or *displaced*: dropped by `ON CONFLICT DO NOTHING`, without an error row, for the one reading that
  is stored under its id. `Displaced` says when that can be: the sender gave the id, or the same
  reading of the same device came with another value; hashed ids of different devices or readings never
  meet. `RegistryIsBacked`: the device registry never shows a message whose readings are neither.
  `PublishesStoredOnce`: on readings with a key of their own, refinement of `StoreThenPublish`; a
  reading under a shared key is published once at most, for one of its message that is stored under
  that key. That it may be published without being stored itself happens in the run. `PartitionIsConsumed`: the whole log is consumed, however often database and
  broker fail. Two disturbances (a crash or a lost partition each) let a worker overlap with a
  second one and the second with the first again.
- **connector.** The log is a reading, an invalid message, another reading and the first one
  again. `OffsetsAreDurable`, `EnrichesStoredOnce`, `ReportsUnmappedOnce`: as above, for offsets committed by
  hand. `MappingsAreAudited`: a reading audited as mapped has its mapping, and a mapping has an audit
  that says so, except after a failure, crash or rebalance, or for a reading that the log repeats: there
  the audit may still say safely_unmapped, from the earlier delivery. `EverythingIsSettled`: each message gets an outcome. A failed call
  is a disturbance here, for each repeats the whole batch and a lasting one stops the worker by
  design; two of them, in any mix with crashes and lost partitions, cover a failure during the
  repetition of a failed batch. The repeated reading may be mapped at first and unmapped later,
  or the other way round, in one batch or two.
- **batch_mapper.** With 3 readings and answers of 3 items there is room for a missing, a
  doubled and an invented one. `EveryReadingHasOneOutcome`: a batch ends with each reading mapped or
  given up, and given up only after every attempt asked for it. `AcceptedIsFinal`: what was accepted is
  neither asked again nor lost.
- **provider.** Five callers over three slots leave two waiting, so the order of the queue
  matters; threshold 2 is below the number of slots, so failures go past it. `LimiterIsExact`: the
  counter is the number of admitted callers, the queue holds the waiting ones once, and nobody
  waits while a slot is free. `OpenMeansRepeatedFailures`, `EveryCallerIsServed`.
- **dispatch.** `EvidenceIsOrdered`: audits have their results, results their commands, commands a
  proposal that was approved and announced, translated readings their rows. `AmplificationIsBounded`:
  nothing has a key that drops a repetition, yet each failure or restart at most doubles what a
  signal asks of a device, a proposal is simulated and sent once per restart, and the bound `RowIds`
  on the rows is never what stops an insert. `CommittedIsSettled`: below a committed offset everything was done,
  unless a call failed. `AllocationMeetsRequest`: shares add up and fit, for every request of the
  registry's range in watts. `StagesAgree`: every valid signal is understood by all four services and
  can be joined by its correlation id. One signal reaches both adapters; the foreign messages are
  those that a stage must refuse; one disturbance repeats or loses any one step, and the repetitions of
  one hop multiply at the next.
- **edge.** `ReadingsAreAccountedFor`: what a device generated is on `raw.telemetry` or pending, and
  first arrives in order, although timed-out requests go on behind the gateway. `RefusedOncePerWindow`:
  Retry-After is enough. `NothingLeavesUntraced`: an answer that is audited needs two failures to leave
  no trace, or a restart if it came from behind the gateway; never audited are preflights, bodies
  that the parser refuses for their charset, encoding or a broken upload, and the 503 of a platform page,
  and nothing else. `ExportsAreAudited`: who got an export finds it on the
  audit topic with its count, and no identifier left in a column for one. A limit of one per window of two ticks puts
  every second send at a window's edge; two readings, one timed out, let an old request meet a new one.
- **portal.** `InsightsAreGrounded`: a stored insight states a fact that held in a world its
  generation saw, whatever the model says; a cached one is fresh and the household's own. `AnswersAddUp`:
  the figures of one answer agree although its queries met different worlds, and "operational" means
  that every service and block was healthy. `AnswersStayInScope`: nobody is shown a household, a device or
  a proposal beyond the caller's role. The worlds differ in every table; the third is past midnight and
  past the refresh interval, and by then two devices belong to another household, so that a page can show
  more than is counted after it: by the devices that left (`LeftBetween`) and no more. Two proposals are
  created at the same time. The requests cover every route, each role, and each kind of refusal; two
  makers of insights and a pass of the scheduler run concurrently.

Deadlock is not checked: requests and worlds are finite in number, logs end, and batches finish.

**Fairness.** Weak fairness of the steps a process takes by itself: its event loop resumes a handler
whose await has settled (`Proceed`, `Work`), and the providers' calls end by their timeouts
(`Settle`), timers fire (`WakeUp`), time goes on (`Tick`). For Kafka: kafkajs keeps auto-committing
(`CommitResolved`) and the coordinator gives a free partition to some worker (`Join`). Nothing makes
a client send a request, a model succeed, a database answer or a caller call; crashes, lost partitions and, in
the connector, failures are bounded by `MaxDisturbances`, and that is the only thing that ends them.

## 5. Proofs

`ApprovalWorkflow_proofs` proves, for every set of proposals and requests and every clock bound
(assumption `ClockAssumption`), that each safety property of the `approval` run holds and that the
workflow refines the lifecycle:

`TypeCorrect`, `OneWinner`, `AuditTimesInOrder`, `ReadyHasEvidence`, `AnswersAreTrue`, `ReadyIsGoverned`,
`WorkflowImplementsLifecycle`, all from `Invariance == Spec => []IInv`.

None of the properties is inductive alone. `OneWinnerPerStatus` says nothing about a handler that
still holds an old status. The argument rests on the shape of the graph: it is acyclic, so each
change moves a proposal up in `Rank` and a status that was left never returns. Hence

- `HandlerInv`: what the handler at each await knows and has done; in particular the status it
  read is not above the present one, and what it has done is recorded;
- `EvidenceInv`: audit event, audit row and change exist in that order;
- `PathInv`: each change lies on an edge, below the present status, and is reached from
  "proposed" through recorded changes, so the guarded UPDATE cannot leave a status twice (`UniqueInv`);
- `TimeInv`: times rise along the path, also for a change that is built but not applied: whoever read a
  status read it after the change that produced it, and takes `event_time` later still;
- `ReadyIsAudited` and `ResponseTruthful`, inductive with the above.

The refinement maps `announced[c]` to the requests whose ready event for `c` is on the topic; every
step is a `Propose`, a `Decide`, an `Announce` or a stutter, and that the topic has no earlier ready
event follows from `UniqueInv`.

`SlmProvider_proofs` proves the three safety properties of the `provider` run for every finite set of
callers and any number of slots, threshold and cooldown (`ProviderAssumption`):
`ProviderTypeCorrect`, `LimiterCountsRight` and `BreakerOpensOnFailures`, from `ProviderInvariance`. Its
invariant is the types with

- `SlotsInv`: the counter is the number of callers in a slot, and a queue means that all slots are
  taken; a waiter takes its slot in the step that frees it, so the counter moves with the set;
- `QueueInv`: the queue is the waiting callers without repetition, from which the counts of
  `LimiterIsExact` follow;
- `BreakerInv`: open exactly from the threshold on, and then failures plus calls under way stay below
  threshold plus slots. `AdmitKeepsBreaker` shows that a caller joins the calls through a closed breaker
  only, `EndKeepsBreaker` that a failure moves one from the calls to the failures.

`SlmBatchMapper_proofs` proves the three properties of the `mapper` run for any batch and any number of
retries (`MapperTypeCorrect`, `OneOutcomeEach`, `AcceptedStays`). The invariant relates the loop's
attempt to each reading: open readings were asked for in every attempt so far, accepted ones are not
asked for again, and a reading is given up by the last attempt only.

`TelemetryEngine_proofs` proves the safety properties of the `engine` run for any log, workers and
disturbances (`LogAssumption`: messages are as the model reads them): `EngineTypeCorrect`, `NothingConsumedVanishes`,
`RegistryFollowsReadings` and, as a refinement, `EngineImplementsRelay`. That a reading is published
once is not inductive: two workers may hold the same message after a rebalance. The invariant
(`PublishInv`) says what a worker holds between its transaction and its sends: keys that were new to the
database in this very transaction, so no other worker holds them and nobody has sent them.
`AccountedInv` says of every worker's position, beyond the committed offset, that each message
below it has or was refused an error row, or has its keys stored. From this `ConsumedIsAccounted` follows by looking at what the key is made of
(`KeysMeet`, `StoredUnderKey`): the row under the key is the reading's own or that of one that displaced it.

`SemanticConnector_proofs` does the same for the `connector` run: `ConnectorTypeCorrect`, `CommittedIsDurable`,
`MappingAndAuditAgree`, `ConnectorEnrichesOnce`, `ConnectorReportsOnce`. Between fetch and commit each offset
of a worker's batch is still to be mapped, mapped and to be persisted, or settled (`HandlerOK`), and
settled readings stay settled; that the two relays send nothing twice rests on who inserted the row
(`EnrichInv`, `LetterInv`), as in the engine. `MappingAndAuditAgree` rests on a reading being persisted
a second time only after a disturbance or because the log has it twice.

`EdgeTelemetry_proofs` proves the five properties of the `edge` run for any fleet, requests and
limits (`EdgeAssumption`, `FleetAssumption`: a device, another client and an MQTT message are told apart,
and the fleet posts well-formed telemetry; `TablesAssumption`: each section of the full export has its table,
a sequence; `PseudonymAssumption`: no pseudonym is an identifier of the tables): `EdgeTypeCorrect`,
`NoReadingIsLost`, `RefusedOnlyOnce`, `AnswersLeaveTraces`, `ExportsHaveAudits`. What makes them inductive:

- `DeviceOK`, `CarrierOK`: the request that a device waits for carries its pending reading, and the
  requests it no longer waits for, after a timeout, carry readings whose predecessors are published;
  a 2xx is given after the publication. Hence a reading is dropped only when it is on the topic, and
  late requests cannot bring a reading ahead of an earlier one (`OrderOK`);
- `ToldOK`: a device that was refused in this window still has to hear it, or sits out a delay that
  reaches the window's end. `Retry-After` is rounded up, which is what this needs;
- `TraceInv`: each audited answer without row and event has two failures of its own, or one of the slots
  that a restart emptied, and whatever was never audited is of one of the three kinds; it strengthens `NothingLeavesUntraced`, whose cases do not add up alone;
- `ExportInv`: a handler that has its audit behind it has it in the table, and the catalog's event was sent
  before. The rest of `ExportsAreAudited` is about the payload alone (`PayloadFacts`): a query takes rows of
  the table by rank (`RankTaken`), and the full export, a fold over the sections, stays within the limit
  and keeps identifiers out section by section (`FullExportFacts`).

`DispatchChain_proofs` proves the six properties of the `dispatch` run for any signals,
backlogs, semantic events and any number of disturbances: `ChainTypeCorrect`, `TrailLeadsBack`,
`RestartsLoseNothing`, `RepetitionsAreBounded`, `AllocationsAddUp`, `SignalsAreUnderstood`. `ChainAssumption`
says that there are finitely many signals, each with its required fields, that what is on the two topics before is not
the translator's and not the workflow's (it is no signal, and no ready event of a row), and
`EnrichedAssumption` that an id and a time name one reading. Topics and rows only grow, so each service's part of the invariant outlives the
steps of the others, and needs an argument for its own steps only:

- `SemanticInv`: a row was translated at an earlier take than what is about to be stored. Therefore
  the insert that meets a row with the same id and time meets the same event
  (`StoredTranslation`), and what is published has a row that says the same;
- `AggregatorInv`: from the insert to the audit the proposal in hand is the row of the message in hand;
- `ReadyInv`: each event on the ready topic is one that was refused anyway, or is built from the row
  of a proposal that is ready and announced, which no later decision takes back;
- `MockInv`, `DeviceInv`: the count that a step raises is strictly behind that of the step before. The
  order of results by device is not inductive, for a redelivery starts with the first device again: in
  the loop, the devices that are done have strictly more results than those that are not (`LoopOK`);
- while no call has failed, everything behind the *position* is settled, which is stronger than
  `CommittedIsSettled` and what a restart falls back behind;
- `BoundInv`, for `AmplificationIsBounded`: the messages of a signal are at most its failed calls plus one once it is
  accepted, and a message has another row, and a row another try, only after a restart. Neither count is
  inductive as the run states it: there must be a number `a` of restarts that the aggregator has used and
  the rest that the translator has, and whether the message or the device in hand was already counted
  depends on the position and the step (`Inserted`, `Tried`). The rows of a signal are then at most
  (1 + failures) * (1 + a) (`PartsBound`), their tries (1 + failures) * (1 + a) * (1 + t) (`SumBound`), and that is
  below the power of two (`ProductsStaySmall`);
- `AllocationFacts`, about no state: for any requested amount, not only those up to the total that the run
  goes through, the two shares that are rounded leave the last device between nothing and its load;
- `StagesFollow`, likewise: the field that each builder reads is the one the builder before it wrote
  (`ProposalFacts`, `AskedFacts`), and a device is asked exactly what its simulator implements (`ActionFacts`).

Sums over finite sets are proved about through `IsSum`: the fold of the community module is the function that
satisfies the recursive equation, that function exists (`FoldExists`), and any member may be taken first
(`SumFacts`). `FoldExists` and `SubsetInduction` come from the library's theorem that a nonempty set of numbers has a
least member, which has no operator as a parameter.

`CustomerPortal_proofs` proves the four properties of the `portal` run (`PortalTypeCorrect`,
`InsightsStayGrounded`, `AnswersKeepScope`, `AnswersAlwaysAddUp`) for any history of the database, any
requests and passes, whatever the model answers. Assumed is

- `HistoryAssumption`: tables are finite; telemetry only grows, and proposals stay with their community
  and household; the registry has one row for a device (its primary key), which may change in any way
  from world to world; a proposal has one id; the clock rises; devices, households, times
  and values are numbers; no flexible power is negative
  (`database/timescale/012_simulated_device_registry.sql:12-13`); a reading has one row of audit
  (the unique index of `010_slm_scalability.sql:58-59` on its id and time, and the id is made
  from the time), marked as unmapped exactly if it is not mapped (`semantic-builder.js:204-205`);
  and a service that is asked answers well, answers with an error or is silent;
- `RequestAssumption`: a request is about one household at most, and one for a page of devices has
  a limit and an offset, in numbers where they are given;
- `PortalAssumption`: the items of an answer of the model are a list.

The argument:

- `Owned`, `Collected`, `Selected`: a generation belongs to an open request that was granted its household,
  or to a pass; its facts were read between its start and its question to the model, and of the keys
  it has still to store and the rows it has stored there are three at most. Nobody else answers its request;
- `FactsHaveOneSource`: four readers run at once and meet different worlds, but each fact comes from one
  of them, hence a row states what a single world told (`RowInv`), whichever keys the model selected;
- `AnswerInv`: rows are only added, so what an answer showed is still there;
- `ScopeInv`: the grant is made in the world a request arrives in, and that world stays in the history
  while the database moves on;
- `PagesInv`: each query of a page met a world between the arrival of its request and its answer. Row
  by row, the views take from that world what is the household's (`EnergyIsOwn`, `StatesAreOwn`,
  `InventoryIsOwn`, `EventsTellOfThem`), pages cut and sort without adding (`PageShowsRows`,
  `NewestAreSome`). What is shown is therefore the household's in the world of that query, wherever the
  devices are later;
- `RankTaken`: in a finite set under a strict order every rank is taken. The pages' `Ordered` chooses by rank,
  so the first household in the order of `ByLastSeen`, and the households a pass goes through, exist.

`AnswersAddUp` follows from the same `PagesInv`, its four parts one by one (`SummariesFollow`,
`PagesFollow`, `ComparisonsFollow`, `StatusFollows`):

- a later query sees the telemetry an earlier one saw, and of the inventory all but what the registry has moved
  to another household (`InventoryKept`); what a device last sent then, it sent then or later (`SeenLater`).
  So what is counted after a page and what left meanwhile is not less than what the page shows;
- a device that is online has a reading that is recent enough to make its household's connection active
  (`LastSeen`, `OnlineIsCounted`); each row of the inventory falls into one category (`CategoriesAddUp`);
- a page is a cut of a sequence whose length is the number of its rows (`CutOfSequence`), whatever number
  the limit is;
- shares and scores are rounded quotients of a part by its whole (`ShareOfWhole`, `ScoreIsPercentage`);
  two shares that are both rounded up give 101, the bound in `OperationalIsHealthy`.

Sums here, too, are unfolded by `SumFacts`, proved in this module once more since it EXTENDS another model.

Every safety invariant and action property of a passing run is now stated by a theorem. Only model-checked
are the liveness properties `PartitionIsConsumed`, `EverythingIsSettled` and `EveryCallerIsServed`: they need
fairness and ENABLED, which are out of the prover's reach.

## 6. Where the documentation and the code differ

Each is a run that must find its property violated.

1. `approval_ready_lost`. The status is committed before the audit row and the events are written.
   If one of these fails, the proposal stays `ready_to_dispatch`, is never announced, and
   mark_ready cannot be repeated. `docs/phase-6-implementation-report.md:89` says the service
   publishes the ready event whenever the new status is `ready_to_dispatch`.
2. `engine_reading_lost`. A reading whose publication fails after the commit is stored and never
   published, since a redelivery finds nothing new. `docs/slm-scalability-architecture.md:28`: "Every
   normalized reading enters a provider request."
3. `connector_output_lost`. The same in the connector; its offsets pass the reading.
   `docs/1000-assets-validation-report.md:103`: "semantic offsets advance only after database and
   output-topic completion."
4. `batch_mapper_duplicate`. A reading that an answer names twice is rejected and accepted, and the
   mapper looks at the accepted ones only. `docs/slm-scalability-architecture.md:30`: "Missing, duplicate, or
   unexpected IDs cannot be accepted."

The following differences show in the model without a run of their own.

- `docs/household-fleet-simulator.md:42-45` keeps the envelope of a rate-limited or temporarily
  unavailable request; the code keeps it after any error, so one that is refused for what it is (a 400)
  is retried for ever, and its device sends nothing else.
- `docs/final-presentation-script.md:7` says that the gateway "audits every decision": row and event are both best
  effort, the audit of a proxied answer is recorded after the answer, and three kinds of answers have none
  (`security-gateway/src/index.js:177-179`, `332`, `372-378`, `408-414`, `434-439`); `NeedsNoAudit` lists them.
- `docs/10000-device-validation-plan.md:43` expects for each reading "either a validated SLM mapping or an explicit
  safely-unmapped state". A reading that is mapped on redelivery after it was unmapped has both, and the audit
  row of its mapping is dropped (`semantic-connector/src/db.js:228-277`); `MappingsAreAudited` says when.
- `docs/customer-dashboard-metric-definitions.md:218-219` says that an insight whose facts are stale is rejected.
  `customer-insights.js` has no check of a fact's age: it renders what its generation collected, however old that is
  when the model has answered. `InsightsAreGrounded` says that the fact held in a world of the generation.
- A reading under an id that another reading of its message has is published and never stored
  (`engine/src/db.js:186`, `214-216`); `SharedIsPublishedOnce` bounds it. No document speaks of ids given twice.
- `getScalabilitySummary` in `platform-status.js` has a query with an unbalanced parenthesis, whose
  failure `safeQuery` turns into zeros: duplicates and processing errors are always shown as 0.
- A device command that is delivered again doubles the allocated power that the pages show.

## 7. Not modelled, and the plan

- *semantic-connector's vocabularies and prompts* (`saref4ener-mapping.js`, `semantic-builder.js`,
  `prompt.js`): tables and formatting without state. `slm-mapper.js` and `slm-validation.js` are
  the older path that `index.js` no longer calls.
- *Profiles and random readings* of the fleet and the device simulators; the registry the fleet seeds
  at its start.
- *raw_telemetry* in the engine, and the units and values its normalizer derives.
- *The customer console*: a user interface over the gateway with a login session and a login
  rate limit in memory. *Scripts, deployment, schemas, examples and generated evidence*.
- *JWT verification and hashing*: a token is right or wrong.

`PROJECT.json` lists every part with the reason. What the plan has left are the
parts of this list; no property of a run but those of liveness is without its proof.
