--------------------------- MODULE PlatformStatus ---------------------------
(***************************************************************************)
(* services/security-gateway/src/platform-status.js: the operator's view   *)
(* of the platform.  Its readers ask the database query by query, and a    *)
(* query that fails is replaced by a fallback: failing holds the queries   *)
(* that do, as <<reader, number>>.  dbs[i] is the world of every reader's  *)
(* i-th query: nothing relates the queries of two readers, so they may as  *)
(* well keep step.  Latencies and payloads are left out.                   *)
(***************************************************************************)
EXTENDS CustomerReadModel

CONSTANT DemoDevices  \* the three devices of the demonstration, by their names

TABLES ==
  <<"raw_telemetry", "normalized_telemetry", "semantic_events", "semantic_slm_audit",
    "semantic_batch_metrics", "ieee20305_events", "dispatch_commands",
    "dispatch_approval_audit", "dispatch_execution_audit", "device_command_audit",
    "dataspace_exports", "security_gateway_audit", "processing_errors">>

RowsOf(world, table) ==
  CASE table = "raw_telemetry" -> world.raw [] table = "normalized_telemetry" -> world.telemetry
    [] table = "semantic_events" -> world.semantic [] table = "semantic_slm_audit" -> world.slm
    [] table = "semantic_batch_metrics" -> world.batches
    [] table = "ieee20305_events" -> world.ieee [] table = "dispatch_commands" -> world.proposals
    [] table = "dispatch_approval_audit" -> world.approvals
    [] table = "dispatch_execution_audit" -> world.executions
    [] table = "device_command_audit" -> world.commands
    [] table = "dataspace_exports" -> world.exports
    [] table = "security_gateway_audit" -> world.audit
    [] table = "processing_errors" -> world.errors

safeQuery(failing, query, rows, fallback) == IF query \in failing THEN fallback ELSE rows

\* One query after another; the later tables are read with the last of dbs.
getTableCounts(dbs, failing) ==
  [i \in DOMAIN TABLES |->
     Cardinality(safeQuery(failing, <<"counts", i>>,
                           RowsOf(dbs[Min({i, Len(dbs)})], TABLES[i]), {}))]

-----------------------------------------------------------------------------
getSemanticSummary(dbs, failing) ==
  LET audits == safeQuery(failing, <<"semantic", 2>>, dbs[2].slm, {})
      mapped == safeQuery(failing, <<"semantic", 3>>, dbs[3].semantic, {})
      having(c) == {e \in mapped : e.confidence = c}
  IN  [latest |-> safeQuery(failing, <<"semantic", 1>>,
                            Highest(dbs[1].semantic, LAMBDA e : e.processed, 12), <<>>),
       slm_calls |-> Cardinality({a \in audits : a.called}),
       mapped |-> Cardinality({a \in audits : a.status = "mapped"}),
       unmapped |-> Cardinality({a \in audits : a.unmapped}),
       total |-> Cardinality(audits),
       confidence |-> [c \in {e.confidence : e \in mapped} |-> Cardinality(having(c))]]

\* fetchOffsets tells the offsets, resolved to numbers, and no high watermark, so that the lag
\* it finds is none; and resolving them fails while the group has a running member.
getSemanticConsumerLag(kafka) == IF kafka.up /\ ~kafka.consuming THEN {0} ELSE {}

\* In percent, of nothing none.
PercentOf(part, audits) ==
  IF audits = {} THEN 0 ELSE Share(Cardinality(part), Cardinality(audits), 100)

\* The query for duplicates lacks a parenthesis, so its fallback counts nothing.
getScalabilitySummary(dbs, failing, requested) ==
  LET window == Max({1, Min({1440, Coalesce(requested \ {0}, 60)})})
      within(i, rows) == safeQuery(failing, <<"scalability", i>>,
                                   {r \in rows : r.at >= dbs[i].now - window}, {})
      readings == within(1, dbs[1].telemetry)
      raw      == within(2, dbs[2].raw)
      audits   == within(3, dbs[3].slm)
      batches  == within(4, dbs[4].batches)
      retried  == {a \in audits : a.attempts > 1}
      times    == {r.at : r \in readings}
      seconds  == 60 * (IF times = {} THEN window ELSE Max(times) - Min(times))
      called   == Cardinality({a \in audits : a.called})
  IN  [devices |-> Cardinality({r.device : r \in readings}),
       households |-> Cardinality({r.household : r \in readings}),
       raw |-> Cardinality(raw), normalized |-> Cardinality(readings),
       audited |-> Cardinality(audits),
       raw_rate |-> Share(Cardinality(raw), Max({1, seconds}), 1000),
       normalized_rate |-> Share(Cardinality(readings), Max({1, seconds}), 1000),
       invocation |-> IF readings = {} THEN 0 ELSE Share(called, Cardinality(readings), 100),
       acceptance |-> PercentOf({a \in audits : a.status = "mapped"}, audits),
       unmapped |-> PercentOf({a \in audits : a.unmapped}, audits),
       retry |-> PercentOf(retried, audits),
       retries |-> Total(LAMBDA a : a.attempts - 1, retried),
       missing |-> Positive(Cardinality(readings) - Cardinality(audits)),
       batches |-> Cardinality(batches), largest_batch |-> Max({b.size : b \in batches} \cup {0}),
       lag |-> getSemanticConsumerLag(dbs[5].kafka),
       duplicates |-> 0, processing_errors |-> 0]

\* The last semantic event of every device, DISTINCT ON (device_id): one among equals.
LatestPerDevice(events) ==
  LET of(device) == {e \in events : e.device = device}
      last(mine) == CHOOSE e \in mine : \A f \in mine : f.processed <= e.processed
  IN  {last(of(device)) : device \in {e.device : e \in events}}

\* Beyond the last page the total is zero: it is a column of the rows.
listScalabilityDevices(world, failing, options) ==
  LET limit  == Max({1, Min({100, Coalesce(options.limit \ {0}, 25)})})
      offset == Positive(Coalesce(options.offset, 0))
      latest == Ordered(LatestPerDevice(world.semantic), LAMBDA a, b : a.device < b.device)
      rows   == safeQuery(failing, <<"platform_devices", 1>>,
                          SubSeq(latest, offset + 1, Min({offset + limit, Len(latest)})), <<>>)
  IN  [limit |-> limit, offset |-> offset, devices |-> rows,
       total |-> IF rows = <<>> THEN 0 ELSE Len(latest)]

getDeviceInsights(world, failing) ==
  LET shown == {e \in world.semantic : \/ e.device \in DemoDevices
                                        \/ e.type \in THREE \cup {"unknown_sensor", "grid_sensor"}}
      rows  == Highest(LatestPerDevice(shown), LAMBDA e : e.processed, 20)
  IN  safeQuery(failing, <<"insights", 1>>, rows, <<>>)

-----------------------------------------------------------------------------
Rejections == {"blocked", "unauthorized", "rate_limited"}

getSecuritySummary(dbs, failing) ==
  LET summary == safeQuery(failing, <<"security", 1>>, dbs[1].audit, {})
      counts(rows) == {[reason |-> r, count |-> Cardinality({a \in rows : a.reason = r})] :
                         r \in {a.reason : a \in rows}}
      unsafe  == safeQuery(failing, <<"security", 2>>,
                           Highest(counts({a \in dbs[2].audit : a.decision \in Rejections}),
                                   LAMBDA r : r.count, 8), <<>>)
      deciding(decisions) == Cardinality({a \in summary : a.decision \in decisions})
  IN  [accepted |-> deciding({"accepted"}), rejected |-> deciding(Rejections),
       blocked |-> deciding({"blocked"}), rate_limited |-> deciding({"rate_limited"}),
       reasons |-> unsafe,
       latest |-> safeQuery(failing, <<"security", 3>>,
                            Highest(dbs[3].audit, LAMBDA a : a.created, 8), <<>>)]

getLoadManagementSummary(dbs, failing) ==
  LET newest(i, rows, limit) ==
        safeQuery(failing, <<"load", i>>, Highest(rows, LAMBDA r : r.created, limit), <<>>)
      proposals == safeQuery(failing, <<"load", 2>>, dbs[2].proposals, {})
  IN  [proposals |-> newest(1, dbs[1].proposals, 8),
       statuses |-> [s \in {p.status : p \in proposals} |->
                       Cardinality({p \in proposals : p.status = s})],
       results |-> newest(3, dbs[3].executions, 6), commands |-> newest(4, dbs[4].commands, 6)]

getStorageLatest(dbs, failing) ==
  LET latest(i, times) == safeQuery(failing, <<"storage", i>>, Largest(times), {})
  IN  [semantic |-> latest(1, {e.processed : e \in dbs[1].semantic}),
       raw |-> latest(2, {r.received : r \in dbs[2].raw}),
       security |-> latest(3, {a.created : a \in dbs[3].audit})]

getDataspaceSummary(world, failing) ==
  LET latest == safeQuery(failing, <<"dataspace", 1>>,
                          Highest(world.exports, LAMBDA e : e.created, 5), <<>>)
  IN  [status |-> IF latest = <<>> THEN "waiting_for_exports" ELSE "available",
       latest |-> latest]

getOllamaStatus(world) ==
  [status |-> IF world.ollama.answer = "ok" THEN "ok" ELSE "unavailable",
   phi3_mini_available |-> world.ollama.answer = "ok" /\ world.ollama.has_model]

getKafkaTopics(world) ==
  [status |-> IF world.kafka.up THEN "ok" ELSE "unavailable",
   topics |-> IF world.kafka.up THEN world.kafka.topics ELSE {}]

-----------------------------------------------------------------------------
SERVICES ==
  <<"ingestion-api", "ieee20305-translator", "aggregator", "approval-workflow",
    "mock-dispatch-adapter", "dataspace-export", "device-command-translator">>

\* Mutant: any answer of a service means that it is well.
readDownstreamHealthAnswered(dbs) ==
  [i \in DOMAIN SERVICES |->
     [service |-> SERVICES[i],
      status |-> IF dbs[i].services[SERVICES[i]] = "silent" THEN "unavailable" ELSE "ok"]]

\* One service after another: dbs[i] is the world in which the i-th is asked.
readDownstreamHealth(dbs) ==
  [i \in DOMAIN SERVICES |->
     [service |-> SERVICES[i],
      status |-> CASE dbs[i].services[SERVICES[i]] = "ok"     -> "ok"
                   [] dbs[i].services[SERVICES[i]] = "error"  -> "degraded"
                   [] dbs[i].services[SERVICES[i]] = "silent" -> "unavailable"]]

\* A block with a service of its own shows its health; the gateway, the engine and the
\* semantic connector are not asked.
PIPELINE_BLOCKS ==
  "devices" :> "none" @@ "security" :> "none" @@ "ingestion" :> "ingestion-api"
    @@ "kafka" :> "kafka" @@ "engine" :> "none" @@ "semantic" :> "semantic-connector"
    @@ "storage" :> "none" @@ "ieee20305" :> "ieee20305-translator"
    @@ "aggregator" :> "aggregator" @@ "approval" :> "approval-workflow"
    @@ "mock-dispatch" :> "mock-dispatch-adapter" @@ "dashboard" :> "none"
    @@ "device-command" :> "device-command-translator" @@ "dataspace" :> "dataspace-export"

buildPipelineBlocks(downstream, latest, kafka, semantic) ==
  LET health(service) == {d.status : d \in {x \in Range(downstream) : x.service = service}}
      newest == {e.processed : e \in {semantic.latest[i] : i \in DOMAIN semantic.latest \cap {1}}}
      timeOf(id) ==
        CASE id = "semantic" -> latest.semantic
          [] id = "storage"  -> IF latest.semantic = {} THEN latest.raw ELSE latest.semantic
          [] id = "security" -> latest.security
          [] id = "kafka"    -> latest.raw
          [] OTHER           -> newest
  IN  [id \in DOMAIN PIPELINE_BLOCKS |->
         [status |-> IF id = "kafka" THEN kafka.status
                     ELSE Coalesce(health(PIPELINE_BLOCKS[id]), "ok"),
          latest_event_time |-> timeOf(id)]]

\* The readers together, then the services: dbs is what the former meet, later the latter.
buildPlatformStatus(dbs, later, failing) ==
  LET downstream == readDownstreamHealth(later)
      semantic == getSemanticSummary(dbs, failing)
      latest   == getStorageLatest(dbs, failing)
      kafka    == getKafkaTopics(dbs[1])
      wellNow  == \A service \in Range(downstream) : service.status = "ok"
  IN  [pipeline_status |-> IF wellNow /\ kafka.status = "ok" THEN "operational" ELSE "degraded",
       downstream |-> downstream, kafka |-> kafka, ollama |-> getOllamaStatus(dbs[1]),
       table_counts |-> getTableCounts(dbs, failing), latest |-> latest, semantic |-> semantic,
       devices |-> getDeviceInsights(dbs[1], failing),
       security |-> getSecuritySummary(dbs, failing),
       load_management |-> getLoadManagementSummary(dbs, failing),
       dataspace |-> getDataspaceSummary(dbs[1], failing),
       scalability |-> getScalabilitySummary(dbs, failing, {}),
       pipeline_blocks |-> buildPipelineBlocks(downstream, latest, kafka, semantic)]

\* GET /security/audit: db.js.
normalizeLimit(limit) == IF Coalesce(limit, 0) <= 0 THEN 25 ELSE Min({Coalesce(limit, 25), 100})

listSecurityGatewayAudit(world, filters) ==
  Highest({a \in world.audit : /\ filters.correlation \subseteq {a.correlation}
                                   /\ filters.decision \subseteq {a.decision}},
              LAMBDA a : a.created, normalizeLimit(filters.limit))
=============================================================================
