-------------------------- MODULE MCEdgeTelemetry --------------------------
(* A small instance of EdgeTelemetry.                                      *)
EXTENDS EdgeTelemetry

MCConfig ==
  [jwtAuthEnabled |-> FALSE, ipBlocklist |-> {"blocked"}, ipAllowlist |-> {},
   internalApiKey |-> "internal", rateLimitMaxRequests |-> 1, rateLimitWindow |-> 2]

Number(name) == [name |-> name, kind |-> "number"]

\* As the simulated devices spell it, with fields the schema does not know.
FleetPayload(d) ==
  [shape |-> "object",
   fields |-> {"deviceId", "deviceType", "timestamp", "data", "communityId", "householdId",
               "areaId", "device_id", "device_type", "community_id", "household_id", "area_id",
               "readings", "protocol", "source", "simulated", "no_real_execution"},
   household_id |-> "h1", community_id |-> "c1", device_id |-> d, device_type |-> "smart_plug",
   source |-> "smart_plug-simulator", timestamp |-> "t1", protocol |-> "http",
   readings |-> {Number("active_power_kw")}, reading_ids |-> {}, metadata |-> NoMetadata]

\* As the schema wants it.
SchemaPayload(d) ==
  [FleetPayload(d) EXCEPT
     !.fields = {"device_id", "device_type", "community_id", "household_id", "timestamp",
                 "readings", "protocol", "source"}]

NoQuery == [export |-> "none", community |-> "none", limit |-> 0]

TelemetryRequest(payload, client) ==
  [method |-> "POST", path |-> [base |-> "/telemetry", deep |-> FALSE], json |-> TRUE,
   key |-> "right", bearer |-> FALSE, client |-> client, suspicious |-> FALSE, body |-> "ok",
   payload |-> payload, query |-> NoQuery]

MCDeviceRequests == [d \in Devices |-> TelemetryRequest(FleetPayload(<<"d1", "d2">>[d]), "fleet")]

Get(base, deep, query) ==
  [TelemetryRequest(SchemaPayload("p1"), "browser") EXCEPT
     !.method = "GET", !.path = [base |-> base, deep |-> deep], !.query = query]

Export(type) ==
  Get("/dataspace", TRUE, [export |-> type, community |-> "c1", limit |-> 0])

\* What other clients ask; the first five reach a service.
AllRequests ==
  <<Export("full_pipeline_demo_summary"), Export("semantic_summary"), Export("catalog"),
    [Export("catalog_publish") EXCEPT !.method = "POST"], Get("/approvals", TRUE, NoQuery),
    [TelemetryRequest(SchemaPayload("p1"), "browser") EXCEPT !.payload.timestamp = Absent],
    Get("/health", FALSE, NoQuery), Get("/telemetry", FALSE, NoQuery),
    Get("/unknown", FALSE, NoQuery),
    [TelemetryRequest(SchemaPayload("p1"), "browser") EXCEPT !.json = FALSE],
    [TelemetryRequest(SchemaPayload("p1"), "browser") EXCEPT !.key = "wrong"],
    [TelemetryRequest(SchemaPayload("p1"), "browser") EXCEPT !.suspicious = TRUE],
    TelemetryRequest(SchemaPayload("p1"), "blocked"),
    [TelemetryRequest(SchemaPayload("p1"), "browser") EXCEPT !.body = "not_json"],
    [TelemetryRequest(SchemaPayload("p1"), "browser") EXCEPT !.body = "unreadable"],
    [TelemetryRequest(SchemaPayload("p1"), "browser") EXCEPT !.method = "OPTIONS"],
    Get("/platform/status", FALSE, NoQuery), Get("/customer", TRUE, NoQuery)>>

MCOtherRequests == [o \in {10 + i : i \in DOMAIN AllRequests} |-> AllRequests[o - 10]]

\* A message of the fleet's spelling is refused, for nothing normalizes it.
MCMqttPayloads ==
  (101 :> [SchemaPayload("m1") EXCEPT !.protocol = "mqtt"]) @@ (102 :> FleetPayload("m2"))

Row(household, device) ==
  [community_id |-> "c1", household_id |-> household, device_id |-> device]

MCTables ==
  [semantic_summary |-> <<Row("h1", "d1"), Row("h1", NoId), Row("h2", "d2")>>,
   grid_signal_summary |-> <<Row(NoId, NoId)>>,
   dispatch_proposal_summary |-> <<Row("h1", "d1"), Row("h2", "d2")>>,
   approval_audit_summary |-> <<>>,
   mock_dispatch_summary |-> <<[Row("h3", "d3") EXCEPT !.community_id = "c2"], Row("h1", "d1")>>]

\* Nothing but the audits is shared between the fleet and the others, so they take turns;
\* all that others ask meets one more export of the same client.
Fleet(maxInFlight, readings, disturbances) ==
  [maxInFlight |-> maxInFlight, readings |-> readings, requests |-> {}, messages |-> {},
   disturbances |-> disturbances]

MCLoads ==
  {Fleet(1, 2, 1), Fleet(1, 1, 2), Fleet(2, 1, 1)}
    \cup {[Fleet(1, 0, 2) EXCEPT !.requests = {11, o}] : o \in DOMAIN MCOtherRequests}
    \cup {[Fleet(1, 1, 1) EXCEPT !.messages = {101, 102}]}
=============================================================================
