--------------------------- MODULE EdgeTelemetry ---------------------------
(***************************************************************************)
(* The entrance of the platform, over five services:                       *)
(*                                                                         *)
(*   household-fleet-simulator  one scheduler for all devices; a device    *)
(*                       keeps its reading until the gateway accepts it    *)
(*   security-gateway    rules, rate limit, proxy, audit of its decisions  *)
(*   ingestion-api       telemetry to raw.telemetry                        *)
(*   dataspace-export    exports and the catalog, with an audit each       *)
(*   mqtt-subscriber     telemetry of the MQTT broker to raw.telemetry     *)
(*                                                                         *)
(* The rules themselves are in GatewayRules, TelemetryPayload and          *)
(* DataspaceExport.  Any awaited call may fail, with its effect or         *)
(* without; a device stops waiting after a while; the gateway may restart. *)
(* Time is counted in ticks: nextAt and the ages of the rate limit's       *)
(* windows are relative to now.                                            *)
(***************************************************************************)
EXTENDS GatewayRules, TelemetryPayload, DataspaceExport, FiniteSetsExt

CONSTANTS
  Devices,          \* numbers, in the order of the fleet's queue
  DeviceRequests,   \* DeviceRequests[d]: the request that carries d's readings
  OtherRequests,    \* requests of other clients, each sent once, by a number
  MqttPayloads,     \* messages on the MQTT topic
  MaxRecords,       \* DATASPACE_MAX_RECORDS
  ReportingDelays,  \* the reporting interval with its jitter, in ticks
  RetryDelay,       \* the delay after an error that names no Retry-After
  InFlight,         \* next_at of a device whose send is awaited: later than any delay
  Loads,            \* config.maxInFlight of the fleet and, as bounds of the model, how
                    \* often what happens in one behaviour: readings of a device, requests
                    \* of other clients, MQTT messages and disturbances (failed calls,
                    \* timeouts, restarts)
  MaxLanes,         \* bound of the model: a device's requests in the gateway
  MaxOverdue        \* bound of the model: a device is late by no more

Others == DOMAIN OtherRequests

ASSUME EdgeAssumption ==
  /\ Devices \subseteq Nat /\ IsFiniteSet(Devices) /\ IsFiniteSet(Others)
  /\ InFlight \in Nat /\ Config.rateLimitWindow < InFlight
  /\ ReportingDelays # {} /\ ReportingDelays \cup {RetryDelay} \subseteq 1..(InFlight - 1)
  /\ MaxLanes \in Nat \ {0} /\ MaxOverdue \in Nat
  /\ MaxRecords \in Int /\ \A o \in Others : OtherRequests[o].query.limit \in Int
  /\ \A l \in Loads : /\ l.maxInFlight \in Nat \ {0} /\ l.readings \in Nat /\ l.disturbances \in Nat
                      /\ l.requests \subseteq Others
                      /\ l.messages \subseteq DOMAIN MqttPayloads

\* The senders are told apart, and the fleet posts to /telemetry.
ASSUME FleetAssumption ==
  /\ Devices \cap Others = {} /\ (Devices \cup Others) \cap DOMAIN MqttPayloads = {}
  /\ \A d \in Devices :
       /\ DeviceRequests[d].method = "POST"
       /\ DeviceRequests[d].path = [base |-> "/telemetry", deep |-> FALSE]
       /\ {"community_id", "household_id", "device_id"} \subseteq DOMAIN DeviceRequests[d].payload

VARIABLES
  \* household-fleet-simulator
  nextAt,      \* next_at - now, InFlight while a send is awaited
  pending,     \* pending_telemetry: number of the reading, NoReading without
  generated,   \* readings a device has generated
  waiting,     \* lane of the request a device awaits, 0 if none
  inFlight,    \* stats.in_flight
  \* security-gateway and what it calls
  request,     \* request[s]: where the request in slot s is
  window,      \* the rate limit's store, by client
  told,        \* refusals in the current window that reach a waiting device
  untraced,    \* answers without row and event: how many were audited first, or answered
               \* first, and which were never audited
  \* dataspace-export
  unsent,      \* requests of other clients still to be sent
  catalogEvents, exportRows, exportAudits, exported,
  \* Kafka and MQTT
  raw,         \* raw.telemetry: the messages of each key
  mqttQueue,   \* messages mqtt-subscriber has not handled
  \* bounds
  load, failures, timeouts, restarts

fleetVars   == <<nextAt, pending, generated, waiting, inFlight>>
gatewayVars == <<request, window, told, untraced>>
exportVars  == <<unsent, catalogEvents, exportRows, exportAudits, exported>>
faultVars   == <<failures, timeouts, restarts, load>>
vars == <<fleetVars, gatewayVars, exportVars, raw, mqttQueue, faultVars>>

-----------------------------------------------------------------------------
NoReading == 0

Lanes == 1..MaxLanes

Slots == (Devices \X Lanes) \cup (Others \X {1})

Sender(s) == s[1]

Content(s) == IF Sender(s) \in Devices THEN DeviceRequests[Sender(s)] ELSE OtherRequests[Sender(s)]

Clients == {Content(s).client : s \in Slots}

\* stage: where the request is; status: of the answer; answered: it is
\* sent; heard: the client has it, or waits no more; forgotten: the gateway has
\* restarted since, though a service behind it may still work on the request.
Free == [stage |-> "free", reading |-> NoReading, status |-> 0, retryAfter |-> 0,
         answered |-> FALSE, heard |-> FALSE, forgotten |-> FALSE]

Downstream == {"ingestion", "elsewhere", "dataspace", "store_export", "announce_export"}

\* A device's own request.
Awaited(d) == <<d, waiting[d]>>

IsAwaited(s) == Sender(s) \in Devices /\ waiting[Sender(s)] = s[2]

Keys == {buildMessageKey(DeviceRequests[d].payload) : d \in Devices}
        \cup {buildMessageKey(OtherRequests[o].payload) : o \in Others}
        \cup {buildMessageKey(MqttPayloads[m]) : m \in DOMAIN MqttPayloads}

\* The devices start one after another, over one interval.
firstAt(d) ==
  (Cardinality({e \in Devices : e < d}) * Max(ReportingDelays)) \div Cardinality(Devices)

Init ==
  /\ load \in Loads
  /\ nextAt = [d \in Devices |-> firstAt(d)] /\ pending = [d \in Devices |-> NoReading]
  /\ generated = [d \in Devices |-> 0] /\ waiting = [d \in Devices |-> 0] /\ inFlight = 0
  /\ request = [s \in Slots |-> Free]
  /\ window = [c \in Clients |-> NoWindow] /\ told = [d \in Devices |-> 0]
  /\ untraced = [auditedFirst |-> 0, answeredFirst |-> 0, unaudited |-> {}]
  /\ unsent = load.requests /\ catalogEvents = {} /\ exportRows = {} /\ exportAudits = {}
  /\ exported = {}
  /\ raw = [k \in Keys |-> <<>>] /\ mqttQueue = load.messages
  /\ failures = 0 /\ timeouts = 0 /\ restarts = 0

\* One more disturbance is within the bound.
MayDisturb == failures + timeouts + restarts < load.disturbances

Fail == MayDisturb /\ failures' = failures + 1

\* An awaited call: it succeeds, or it fails with or without its effect.
Await(effect, without, ok, ko) ==
  \/ effect /\ ok /\ UNCHANGED failures
  \/ (effect \/ without) /\ ko /\ Fail

-----------------------------------------------------------------------------
(* household-fleet-simulator                                               *)

\* A bound keeps a device out of the queue only in the model.
Due ==
  {d \in Devices : /\ nextAt[d] <= 0
                   /\ pending[d] # NoReading \/ generated[d] < load.readings
                   /\ \E lane \in Lanes : request[<<d, lane>>] = Free}

\* The sort is stable: the order of the queue decides between equal times.
Before(d, e) == nextAt[d] < nextAt[e] \/ (nextAt[d] = nextAt[e] /\ d < e)

\* The first half of emit, up to the send.
Emit(chosen) ==
  LET new == {d \in chosen : pending[d] = NoReading}
      lane == [d \in chosen |-> Min({l \in Lanes : request[<<d, l>>] = Free})]
  IN  /\ inFlight' = inFlight + Cardinality(chosen)
      /\ generated' = [d \in Devices |-> generated[d] + (IF d \in new THEN 1 ELSE 0)]
      /\ pending' = [d \in Devices |-> IF d \in new THEN generated[d] + 1 ELSE pending[d]]
      /\ nextAt' = [d \in Devices |-> IF d \in chosen THEN InFlight ELSE nextAt[d]]
      /\ waiting' = [d \in Devices |-> IF d \in chosen THEN lane[d] ELSE waiting[d]]
      /\ request' = [s \in Slots |->
                       IF \E d \in chosen : s = <<d, lane[d]>>
                       THEN [Free EXCEPT !.stage = "arriving", !.reading = pending'[Sender(s)]]
                       ELSE request[s]]

\* Mutant: the requests in flight are not taken off the capacity.
StepIgnoringCapacity ==
  LET chosen == {d \in Due : Cardinality({e \in Due : Before(e, d)}) < load.maxInFlight} IN
  /\ chosen # {}
  /\ Emit(chosen)
  /\ UNCHANGED <<window, told, untraced, exportVars, raw, mqttQueue, faultVars>>

\* The devices that are due longest, as many as may be in flight.
Step ==
  LET capacity == load.maxInFlight - inFlight
      chosen == {d \in Due : Cardinality({e \in Due : Before(e, d)}) < capacity}
  IN  /\ chosen # {}
      /\ Emit(chosen)
      /\ UNCHANGED <<window, told, untraced, exportVars, raw, mqttQueue, faultVars>>

\* finally: the device's next turn.
Settled(d, delay) ==
  /\ nextAt' = [nextAt EXCEPT ![d] = delay]
  /\ waiting' = [waiting EXCEPT ![d] = 0]
  /\ inFlight' = inFlight - 1

\* A request is over when it is audited and its client waits no more.
Over(r) == IF r.stage = "done" /\ r.heard THEN Free ELSE r

Heard(d) == request' = [request EXCEPT ![Awaited(d)] = Over([@ EXCEPT !.heard = TRUE])]

\* Mutant: the reading is given up whatever the answer.
SettleDropping(d) ==
  /\ waiting[d] # 0 /\ request[Awaited(d)].answered
  /\ \E delay \in ReportingDelays : Settled(d, delay)
  /\ pending' = [pending EXCEPT ![d] = NoReading]
  /\ Heard(d)
  /\ UNCHANGED <<generated, window, told, untraced, exportVars, raw, mqttQueue, faultVars>>

\* The second half of emit: on any answer but 2xx the reading stays pending.  Every
\* error of the gateway waits for Retry-After, or a second without one.
Settle(d) ==
  LET answer == request[Awaited(d)] IN
  /\ waiting[d] # 0 /\ answer.answered
  /\ IF answer.status < 300
     THEN /\ \E delay \in ReportingDelays : Settled(d, delay)
          /\ pending' = [pending EXCEPT ![d] = NoReading]
     ELSE Settled(d, Max({1, answer.retryAfter})) /\ UNCHANGED pending
  /\ Heard(d)
  /\ UNCHANGED <<generated, window, told, untraced, exportVars, raw, mqttQueue, faultVars>>

\* AbortSignal.timeout: the gateway does not notice.
Timeout(d) ==
  /\ waiting[d] # 0 /\ MayDisturb
  /\ Settled(d, RetryDelay)
  /\ Heard(d)
  /\ told' = [told EXCEPT ![d] = 0]
  /\ timeouts' = timeouts + 1
  /\ UNCHANGED <<pending, generated, window, untraced, exportVars, raw, mqttQueue>>
  /\ UNCHANGED <<failures, restarts, load>>

Tick ==
  /\ nextAt' = [d \in Devices |->
                  IF nextAt[d] = InFlight THEN InFlight
                  ELSE Max({-MaxOverdue, nextAt[d] - 1})]
  /\ window' = [c \in Clients |->
                  IF window[c].age >= Config.rateLimitWindow THEN NoWindow
                  ELSE [window[c] EXCEPT !.age = @ + 1]]
  /\ <<nextAt, window>>' # <<nextAt, window>>
  /\ UNCHANGED <<pending, generated, waiting, inFlight, request, told, untraced>>
  /\ UNCHANGED <<exportVars, raw, mqttQueue, faultVars>>

-----------------------------------------------------------------------------
(* security-gateway                                                        *)

SendOther(o) ==
  /\ o \in unsent
  /\ unsent' = unsent \ {o}
  /\ request' = [request EXCEPT ![<<o, 1>>] = [Free EXCEPT !.stage = "arriving", !.heard = TRUE]]
  /\ UNCHANGED <<fleetVars, window, told, untraced, catalogEvents, exportRows, exportAudits>>
  /\ UNCHANGED <<exported, raw, mqttQueue, faultVars>>

\* The gateway itself, or the service behind a route; services without telemetry and exports
\* only answer.
ServiceOf(s) ==
  IF ownPage(Content(s)) THEN "page"
  ELSE IF target(Content(s)) \in {"ingestion", "dataspace"} THEN target(Content(s)) ELSE "elsewhere"

\* The answer is sent and nothing is left to do.
Done(r) == Over([r EXCEPT !.stage = "done", !.answered = TRUE])

\* An answer the audit never sees.
Unheeded(s, status) == untraced' = [untraced EXCEPT !.unaudited = @ \cup {<<s, status>>}]

\* The middlewares.  Nothing but the rate limit's store is shared between requests.
Admit(s) ==
  LET client  == Content(s).client
      before  == BeforeRateLimit(Content(s))
      limit   == checkRateLimit(window[client])
      verdict == IF before # Pass THEN before
                 ELSE IF limit.allowed THEN AfterRateLimit(Content(s)) ELSE RateLimited
      renewed == before = Pass /\ limit.window.count = 1
      refused == [request[s] EXCEPT !.stage = "audit", !.status = verdict.status,
                                    !.retryAfter = IF verdict = RateLimited
                                                   THEN limit.retryAfter ELSE 0]
  IN  /\ request[s].stage = "arriving"
      /\ window' = IF before = Pass THEN [window EXCEPT ![client] = limit.window] ELSE window
      /\ told' = [d \in Devices |->
                    IF renewed /\ DeviceRequests[d].client = client THEN 0
                    ELSE IF verdict = RateLimited /\ IsAwaited(s) /\ Sender(s) = d
                    THEN told[d] + 1 ELSE told[d]]
      /\ request' = [request EXCEPT ![s] =
                       IF verdict = Pass THEN [@ EXCEPT !.stage = ServiceOf(s)]
                       ELSE IF verdict.decision = "unaudited" THEN Done(refused) ELSE refused]
      /\ IF verdict.decision = "unaudited" THEN Unheeded(s, verdict.status)
                                           ELSE UNCHANGED untraced
      /\ UNCHANGED <<fleetVars, exportVars, raw, mqttQueue, faultVars>>

\* The gateway's own pages.  One that cannot be read is a 503: with an audit for a
\* customer (sendCustomerError), and straight from the catch for the platform's pages.
ReadPage(s) ==
  LET answer(status) == [request[s] EXCEPT !.stage = "audit", !.status = status] IN
  /\ request[s].stage = "page"
  /\ \E status \in {200, 503} :
       IF status = 503 /\ Content(s).path.base \in PLATFORM_PAGES
       THEN request' = [request EXCEPT ![s] = Done(answer(503))] /\ Unheeded(s, 503)
       ELSE request' = [request EXCEPT ![s] = answer(status)] /\ UNCHANGED untraced
  /\ UNCHANGED <<fleetVars, window, told, exportVars, raw, mqttQueue, faultVars>>

\* proxyRequest has sent the answer of the service on, before its audit.
Reply(s, status) ==
  request' = [request EXCEPT ![s] =
                IF @.forgotten THEN Free
                ELSE [@ EXCEPT !.stage = "audit", !.status = status, !.answered = TRUE]]

\* The call of the service failed: 502, after its audit.
NoReply(s) ==
  request' = [request EXCEPT ![s] =
                IF @.forgotten THEN Free
                ELSE [@ EXCEPT !.stage = "audit", !.status = DownstreamError.status]]

\* The request has its audit; one that was not forwarded gets its answer now.
Audited(s, traced) ==
  /\ request' = [request EXCEPT ![s] = Done(@)]
  /\ untraced' = IF traced THEN untraced
                 ELSE IF request[s].answered THEN [untraced EXCEPT !.answeredFirst = @ + 1]
                 ELSE [untraced EXCEPT !.auditedFirst = @ + 1]
  /\ UNCHANGED <<fleetVars, window, told, exportVars, raw, mqttQueue>>
  /\ UNCHANGED <<timeouts, restarts, load>>

\* Mutant: row and event share one try.
RecordInOneTry(s) ==
  /\ request[s].stage = "audit"
  /\ \E rowFails, eventFails \in BOOLEAN :
       /\ MayDisturb \/ ~(rowFails \/ eventFails)
       /\ failures' = failures + (IF rowFails \/ eventFails THEN 1 ELSE 0)
       /\ Audited(s, ~rowFails)

\* createAuditRecorder's record: safeInsertSecurityGatewayAudit and then
\* publishSecurityGatewayAudit, each with its error swallowed.  Nothing reads the one
\* before the other is done, so both are one step; traced: one of them took effect.
Record(s) ==
  /\ request[s].stage = "audit"
  /\ \E failed \in 0..2 :
       /\ failures' = failures + failed
       /\ failed > 0 => failures' + timeouts + restarts <= load.disturbances
       /\ \E traced \in (IF failed = 2 THEN BOOLEAN ELSE {TRUE}) : Audited(s, traced)

\* The rate limit's store and the requests in hand are gone.  What was not answered
\* is a network error for its client; what was passed on is still worked on.
Restart ==
  LET cut == {d \in Devices : waiting[d] # 0 /\ ~request[Awaited(d)].answered}
      unaudited == {s \in Slots : request[s].answered /\ request[s].stage = "audit"}
  IN  /\ \E s \in Slots : request[s].stage # "free"
      /\ MayDisturb /\ restarts' = restarts + 1
      /\ window' = [c \in Clients |-> NoWindow] /\ told' = [d \in Devices |-> 0]
      /\ untraced' = [untraced EXCEPT !.answeredFirst = @ + Cardinality(unaudited)]
      /\ nextAt' = [d \in Devices |-> IF d \in cut THEN RetryDelay ELSE nextAt[d]]
      /\ waiting' = [d \in Devices |-> IF d \in cut THEN 0 ELSE waiting[d]]
      /\ inFlight' = inFlight - Cardinality(cut)
      /\ request' = [s \in Slots |->
                       IF request[s].stage \in Downstream
                       THEN [request[s] EXCEPT !.forgotten = TRUE, !.heard = TRUE]
                       ELSE IF request[s].answered THEN Over([request[s] EXCEPT !.stage = "done"])
                       ELSE Free]
      /\ UNCHANGED <<pending, generated, exportVars, raw, mqttQueue, failures, timeouts, load>>

-----------------------------------------------------------------------------
(* ingestion-api, mqtt-subscriber and the services that only answer        *)

Publish(payload, message) == raw' = [raw EXCEPT ![buildMessageKey(payload)] = Append(@, message)]

\* handleTelemetryRequest
Ingest(s) ==
  LET payload == normalizeTelemetryPayload(Content(s).payload, "telemetry") IN
  /\ request[s].stage = "ingestion"
  /\ IF ~validateTelemetry(payload)
     THEN Reply(s, 400) /\ UNCHANGED <<raw, failures>>
     ELSE Await(Publish(payload, [sender |-> Sender(s), reading |-> request[s].reading]),
                UNCHANGED raw, Reply(s, 202), Reply(s, 503) \/ NoReply(s))
  /\ UNCHANGED <<fleetVars, window, told, untraced, exportVars, mqttQueue>>
  /\ UNCHANGED <<timeouts, restarts, load>>

AnswerElsewhere(s) ==
  /\ request[s].stage = "elsewhere"
  /\ Await(TRUE, TRUE, Reply(s, 200), Reply(s, 503) \/ NoReply(s))
  /\ UNCHANGED <<fleetVars, window, told, untraced, exportVars, raw, mqttQueue>>
  /\ UNCHANGED <<timeouts, restarts, load>>

\* The message handler: what is invalid or cannot be published is dropped, and
\* there is no normalization.
HandleMqtt(m) ==
  /\ m \in mqttQueue /\ mqttQueue' = mqttQueue \ {m}
  /\ IF ~validateTelemetry(MqttPayloads[m])
     THEN UNCHANGED <<raw, failures>>
     ELSE Await(Publish(MqttPayloads[m], [sender |-> m, reading |-> NoReading]),
                UNCHANGED raw, TRUE, TRUE)
  /\ UNCHANGED <<fleetVars, gatewayVars, exportVars, timeouts, restarts, load>>

-----------------------------------------------------------------------------
(* dataspace-export                                                        *)

\* The gateway passes no x-requester-id on: every requester gets the default.
requesterFromRequest(s) == "local-demo-client"

requireApiKey(s) == buildForwardHeaders(Content(s)).api_key = "internal"

\* The payload of an export is a function of the request, the tables do not change.
PayloadOf(s) ==
  LET q == Content(s).query
      limit == normalizeRequestedLimit(q.limit, normalizeMaxRecords(MaxRecords))
  IN  IF q.export = "full_pipeline_demo_summary"
      THEN buildFullPipelineDemoPayload(q.community, getFullPipelineDemoSummary(q.community, limit),
                                        limit)
      ELSE buildExportPayload(q.export, q.community,
                              EXPORT_HANDLERS(q.export, q.community, limit), limit)

AuditOf(s) ==
  IF Content(s).query.export = "catalog_publish" THEN catalogAudit(requesterFromRequest(s))
  ELSE buildAuditEvent(PayloadOf(s), requesterFromRequest(s),
                       getAssetByExportType(Content(s).query.export)).audit_payload

GoOn(s, stage) == request' = [request EXCEPT ![s].stage = stage]

\* The first call of the handler: the query, or the catalog's event.  The
\* catalog itself is open to everyone and needs no call.
StartExport(s) ==
  LET export == Content(s).query.export IN
  /\ request[s].stage = "dataspace"
  /\ IF export = "catalog"
     THEN Reply(s, 200) /\ UNCHANGED <<catalogEvents, failures>>
     ELSE IF ~requireApiKey(s)
     THEN Reply(s, 401) /\ UNCHANGED <<catalogEvents, failures>>
     ELSE Await(IF export = "catalog_publish"
                THEN catalogEvents' = catalogEvents \cup {s} ELSE UNCHANGED catalogEvents,
                UNCHANGED catalogEvents,
                GoOn(s, "store_export"), Reply(s, 503) \/ NoReply(s))
  /\ UNCHANGED <<fleetVars, window, told, untraced, unsent, exportRows, exportAudits, exported>>
  /\ UNCHANGED <<raw, mqttQueue, timeouts, restarts, load>>

\* safeInsertExportAudit: an error is swallowed.
StoreExportAudit(s) ==
  /\ request[s].stage = "store_export"
  /\ Await(exportRows' = exportRows \cup {<<s, AuditOf(s)>>}, UNCHANGED exportRows, TRUE, TRUE)
  /\ GoOn(s, "announce_export")
  /\ UNCHANGED <<fleetVars, window, told, untraced, unsent, catalogEvents, exportAudits>>
  /\ UNCHANGED <<exported, raw, mqttQueue, timeouts, restarts, load>>

\* Mutant: the error of the publication is swallowed like that of the row.
PublishExportAuditSafely(s) ==
  /\ request[s].stage = "announce_export"
  /\ Await(exportAudits' = exportAudits \cup {<<s, AuditOf(s)>>}, UNCHANGED exportAudits,
           TRUE, TRUE)
  /\ Reply(s, 200) /\ exported' = exported \cup {s}
  /\ UNCHANGED <<fleetVars, window, told, untraced, unsent, catalogEvents, exportRows>>
  /\ UNCHANGED <<raw, mqttQueue, timeouts, restarts, load>>

\* publishExportAudit: an error is a 503, and the payload is not handed out.
PublishExportAudit(s) ==
  /\ request[s].stage = "announce_export"
  /\ Await(exportAudits' = exportAudits \cup {<<s, AuditOf(s)>>}, UNCHANGED exportAudits,
           Reply(s, IF Content(s).query.export = "catalog_publish" THEN 202 ELSE 200)
             /\ exported' = exported \cup {s},
           (Reply(s, 503) \/ NoReply(s)) /\ UNCHANGED exported)
  /\ UNCHANGED <<fleetVars, window, told, untraced, unsent, catalogEvents, exportRows>>
  /\ UNCHANGED <<raw, mqttQueue, timeouts, restarts, load>>

-----------------------------------------------------------------------------
Next ==
  \/ Step \/ Tick \/ Restart
  \/ \E d \in Devices : Settle(d) \/ Timeout(d)
  \/ \E o \in Others : SendOther(o)
  \/ \E m \in DOMAIN MqttPayloads : HandleMqtt(m)
  \/ \E s \in Slots :
       \/ Admit(s) \/ ReadPage(s) \/ Record(s) \/ Ingest(s) \/ AnswerElsewhere(s)
       \/ StartExport(s) \/ StoreExportAudit(s) \/ PublishExportAudit(s)

Spec == Init /\ [][Next]_vars

-----------------------------------------------------------------------------
(* Properties                                                              *)

\* Types, and the fleet's counter: as many sends are in flight as devices wait, never
\* more than maxInFlight, whether they end with an answer, an error or a timeout.
TypeOK ==
  /\ \A d \in Devices : /\ nextAt[d] \in -MaxOverdue..InFlight
                        /\ pending[d] \in 0..generated[d] /\ generated[d] <= load.readings
                        /\ waiting[d] \in Lanes \cup {0} /\ (nextAt[d] = InFlight) = (waiting[d] # 0)
                        /\ waiting[d] # 0 => request[Awaited(d)].stage # "free"
  /\ inFlight = Cardinality({d \in Devices : waiting[d] # 0}) /\ inFlight <= load.maxInFlight
  /\ \A s \in Slots :
       /\ request[s].stage \in Downstream \cup {"free", "arriving", "page", "audit", "done"}
       /\ request[s].stage = "free" => request[s] = Free
  /\ \A c \in Clients : window[c].age \in 0..Config.rateLimitWindow
  /\ unsent \subseteq load.requests /\ mqttQueue \subseteq load.messages
  /\ failures + timeouts + restarts <= load.disturbances

MessagesOf(d) == raw[buildMessageKey(DeviceRequests[d].payload)]

PublishedReadings(d) == {m.reading : m \in {n \in Range(MessagesOf(d)) : n.sender = d}}

\* docs/household-fleet-simulator.md: the fleet keeps the envelope of a refused or failed
\* send and "does not ... silently drop the update".  Every reading generated is on
\* raw.telemetry unless it is the pending one, and readings first arrive there in the
\* order of their generation, although sends time out, fail after they took effect and
\* overtake each other in the gateway.  A message from MQTT arrives at most once.
ReadingsAreAccountedFor ==
  /\ \A d \in Devices : (1..generated[d]) \ PublishedReadings(d) \subseteq {pending[d]}
  /\ \A d \in Devices :
       \A i \in {j \in DOMAIN MessagesOf(d) : MessagesOf(d)[j].sender = d} :
         1..(MessagesOf(d)[i].reading - 1)
           \subseteq {m.reading : m \in {MessagesOf(d)[j] : j \in 1..(i - 1)}}
  /\ \A k \in Keys, m \in DOMAIN MqttPayloads :
       Cardinality({i \in DOMAIN raw[k] : raw[k][i].sender = m})
         <= (IF m \in mqttQueue THEN 0 ELSE 1)

\* checkRateLimit and the fleet's Retry-After: a device that waits for its answers is
\* refused at most once in a window, for it comes back when the window is over.
RefusedOncePerWindow == \A d \in Devices : told[d] <= 1

\* What the gateway answers without a call of its audit, of its own accord: preflights,
\* bodies only express refuses, and a page about the platform that cannot be read.
NeedsNoAudit(q, status) ==
  \/ q.method = "OPTIONS" /\ status = 204
  \/ q.body = "unreadable" /\ status = 415
  \/ q.path.base \in PLATFORM_PAGES /\ status = 503

\* createAuditRecorder: row and event are tried independently of each other, so an answer
\* that is audited leaves no trace only if both failed; only answers of services behind the
\* gateway, which are sent before their audit, can also lose it in a restart.  Every other
\* answer without a trace is one of the three kinds index.js never audits
\* (docs/final-presentation-script.md says that the gateway "audits every decision").
NothingLeavesUntraced ==
  /\ 2 * untraced.auditedFirst <= failures
  /\ restarts = 0 => 2 * (untraced.auditedFirst + untraced.answeredFirst) <= failures
  /\ untraced.answeredFirst <= failures + restarts * Cardinality(Slots)
  /\ \A answer \in untraced.unaudited : NeedsNoAudit(Content(answer[1]), answer[2])

\* storeAndPublishAudit: whoever got an export has an event on dataspace.export.audit that
\* counts what was handed out; a catalog's audit follows its event.  What is handed out
\* keeps to the limit asked for, and its columns for household and device hold no
\* identifier (of the free texts beside them nothing is said).
ExportsAreAudited ==
  /\ \A s \in exported : <<s, AuditOf(s)>> \in exportAudits
  /\ \A s \in exported :
       Content(s).query.export \in DOMAIN ASSETS =>
         /\ PayloadOf(s).record_count = AuditOf(s).record_count
         /\ PayloadOf(s).record_count <= normalizeRequestedLimit(Content(s).query.limit, MaxRecords)
         /\ \A row \in Range(PayloadOf(s).data) :
              row.household_ref \notin RawIds /\ row.device_ref \notin RawIds
  /\ \A audit \in exportAudits : audit[2].export_type = "catalog_publish" =>
                                   audit[1] \in catalogEvents
=============================================================================
