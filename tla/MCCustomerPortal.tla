-------------------------- MODULE MCCustomerPortal --------------------------
(* A small instance of CustomerPortal: three worlds, the second six minutes  *)
(* after the first, the third after midnight.  By the third the registry has *)
(* moved device 10, never heard of, and device 4, which reports from its new *)
(* household as well; two proposals are created at the same time.            *)
EXTENDS CustomerPortal

Reading(h, d, type, name, unit, value, time) ==
  [id |-> <<d, name, time>>, household |-> h, community |-> IF h = 6 THEN "c2" ELSE "c1",
   device |-> d, type |-> type, name |-> name, unit |-> unit, value |-> value, at |-> time,
   processed |-> time]

Telemetry1 ==
  {Reading(1, 1, "ev_charger", "ev_charging_power_kw", "kW", 1200, 9995),
   Reading(1, 1, "ev_charger", "charging_state_code", "code", 1000, 9995),
   Reading(1, 2, "heat_pump", "power_w", "W", 900000, 9980),
   Reading(1, 2, "heat_pump", "energy_kwh", "kWh", 5000, 9950),
   Reading(1, 2, "heat_pump", "energy_kwh", "kWh", 5600, 9980),
   Reading(2, 4, "shelly_plug", "active_power_kw", "kW", 300, 9999),
   Reading(3, 5, "smart_meter", "power_kw", "kW", 2000, 9990),
   Reading(4, 6, "solar_inverter", "pv_generation_kw", "kW", 700, 9998),
   Reading(6, 8, "shelly_plug", "active_power_kw", "kW", 40, 9999)}

Telemetry2 ==
  Telemetry1 \cup {Reading(5, 7, "shelly_plug", "active_power_kw", "kW", 100, 10004),
                   Reading(1, 3, "shelly_plug", "active_power_kw", "kW", 2500, 10005)}

Telemetry3 ==
  Telemetry2 \cup {Reading(1, 1, "ev_charger", "ev_charging_power_kw", "kW", 1500, 10081),
                   Reading(5, 4, "shelly_plug", "active_power_kw", "kW", 400, 10080)}

Device(h, d, category, flexible, max) ==
  [device |-> d, household |-> h, community |-> "c1", profile |-> "apartment",
   category |-> category, flexible |-> flexible, max_flexible |-> max, last_seen |-> {}]

Registry1 ==
  {Device(1, 1, "ev_charger", TRUE, 7000), Device(2, 4, "shelly_plug", TRUE, 200),
   Device(7, 9, "washing_machine", FALSE, 0), Device(1, 10, "dishwasher", FALSE, 0)}

Registry2 == Registry1 \cup {Device(1, 2, "heat_pump", FALSE, 0)}

Registry3 ==
  {IF d.device = 10 THEN [d EXCEPT !.household = 2]
   ELSE IF d.device = 4 THEN [d EXCEPT !.household = 5] ELSE d : d \in Registry2}

Proposal(id, h, created, status) ==
  [id |-> id, community |-> "c1", household |-> h, created |-> created, event |-> created,
   start |-> created + 5, end |-> created + 65, target |-> 4000, status |-> status]

Step(id, time, status) == [proposal |-> id, at |-> time, created |-> time, status |-> status]

Executed(id, time) == [Step(id, time, "simulated_success") EXCEPT !.at = time] @@ [simulated |-> TRUE]

Command(id, d, time, allocated) ==
  [proposal |-> id, device |-> d, at |-> time, created |-> time, allocated |-> allocated,
   action |-> "reduce", status |-> "accepted", simulated |-> TRUE]

Outcome(reading, time, status, attempts) ==
  [reading |-> reading, at |-> time, processed |-> time, called |-> TRUE, status |-> status,
   unmapped |-> status # "mapped", attempts |-> attempts]

Event(d, type, time, confidence) ==
  [device |-> d, type |-> type, processed |-> time, confidence |-> confidence]

AuditRow(decision, reason, time) ==
  [decision |-> decision, reason |-> reason, correlation |-> 0, created |-> time, at |-> 0]

Well == [s \in Range(SERVICES) |-> "ok"]

World1 ==
  [now |-> 10000, telemetry |-> Telemetry1, registry |-> Registry1,
   proposals |-> {Proposal(1, {}, 9970, "reviewed"), Proposal(2, {2}, 9990, "proposed"),
                  Proposal(4, {2}, 9990, "proposed")},
   approvals |-> {Step(1, 9975, "reviewed")}, executions |-> {}, commands |-> {},
   raw |-> {[at |-> 9999, received |-> 9999]},
   semantic |-> {Event(1, "ev_charger", 9996, "high"), Event(4, "shelly_plug", 9999, "low")},
   slm |-> {Outcome(<<4, "active_power_kw", 9999>>, 9999, "mapped", 1)},
   batches |-> {[at |-> 9999, size |-> 2]}, ieee |-> {}, exports |-> {}, errors |-> {},
   audit |-> {AuditRow("accepted", "request_forwarded", 9990),
              AuditRow("blocked", "invalid_json", 9991)},
   services |-> Well, ollama |-> [answer |-> "ok", has_model |-> TRUE],
   kafka |-> [up |-> TRUE, topics |-> {"raw.telemetry"}, consuming |-> TRUE]]

World2 ==
  [World1 EXCEPT
     !.now = 10006, !.telemetry = Telemetry2, !.registry = Registry2,
     !.proposals = {Proposal(1, {}, 9970, "ready_to_dispatch"), Proposal(2, {2}, 9990, "proposed"),
                    Proposal(4, {2}, 9990, "proposed"), Proposal(3, {1}, 10002, "proposed")},
     !.approvals = @ \cup {Step(1, 10003, "approved"), Step(1, 10004, "ready_to_dispatch")},
     !.raw = @ \cup {[at |-> 10005, received |-> 10005]},
     !.semantic = @ \cup {Event(7, "shelly_plug", 10005, "high")},
     !.slm = @ \cup {Outcome(<<5, "power_kw", 9990>>, 10005, "safely_unmapped", 3)},
     !.audit = @ \cup {AuditRow("rate_limited", "rate_limit_exceeded", 10003)},
     !.services = [Well EXCEPT !["aggregator"] = "error"]]

World3 ==
  [World2 EXCEPT
     !.now = 10085, !.telemetry = Telemetry3, !.registry = Registry3,
     !.executions = {Executed(1, 10010)}, !.commands = {Command(1, 1, 10082, 1200)},
     !.exports = {[created |-> 10080]}, !.kafka.up = FALSE,
     !.services = [Well EXCEPT !["aggregator"] = "silent"],
     !.ollama = [answer |-> "silent", has_model |-> FALSE]]

MCHistory == <<World1, World2, World3>>

-----------------------------------------------------------------------------
Customer(h) ==
  [role |-> "household_user", username |-> {"u"}, household |-> {h}, community |-> {"c1"}]

Operator == [Customer(1) EXCEPT !.role = "enershare_operator", !.household = {}]

Admin == [Operator EXCEPT !.role = "technical_admin"]

Get(route, context, requested, options) ==
  [route |-> route, context |-> context, requested |-> requested, options |-> options]

Pseudonym(h) == {stableHouseholdPseudonym(h)}

Report(period) == [period |-> period]

AllRequests ==
  <<Get("households", Customer(1), {}, 0), Get("households", Operator, {}, 0),
    Get("summary", Customer(1), {}, 0), Get("summary", Operator, Pseudonym(3), 0),
    Get("summary", Operator, {}, 0), Get("summary", Admin, {Plain(6)}, 0),
    Get("summary", Customer(1), {Plain(2)}, 0), Get("summary", Operator, {Plain(1)}, 0),
    Get("summary", [Customer(1) EXCEPT !.community = {}], {}, 0),
    Get("summary", [Operator EXCEPT !.role = "guest"], {}, 0),
    Get("summary", [Admin EXCEPT !.username = {}], {}, 0),
    Get("summary", [Customer(1) EXCEPT !.household = {}], {}, 0),
    Get("summary", [Operator EXCEPT !.community = {"c3"}], {}, 0),
    Get("analytics", Customer(1), {}, [range |-> "24h", start |-> {}, end |-> {}]),
    Get("analytics", Admin, {Plain(1)}, [range |-> "30d", start |-> {9990}, end |-> {9000}]),
    Get("devices", Customer(1), {}, NoFilter),
    Get("devices", Customer(1), {}, [NoFilter EXCEPT !.limit = {0}, !.offset = {1}]),
    Get("devices", Operator, Pseudonym(1), [NoFilter EXCEPT !.online = {TRUE}, !.state = {"active"},
                                              !.category = {"No Category"}]),
    Get("devices", Operator, Pseudonym(7), [NoFilter EXCEPT !.flexible = {FALSE}, !.search = {{9}},
                                              !.profile = {"apartment"}]),
    Get("device", Customer(1), {}, {3}), Get("device", Customer(1), {}, {4}),
    Get("device", Customer(1), {}, {}),
    Get("flexibility", Customer(1), {}, 0), Get("flexibility", Operator, Pseudonym(2), 0),
    Get("community", Customer(1), {}, 0), Get("community", Operator, Pseudonym(7), 0),
    Get("reports", Customer(1), {}, Report("daily")),
    Get("reports.csv", Operator, Pseudonym(1), Report("monthly")),
    Get("audit", Operator, {}, [limit |-> {1}, correlation |-> {}, decision |-> {"blocked"}]),
    Get("platform_status", Operator, {}, 0),
    Get("platform_devices", Operator, {}, [limit |-> {1}, offset |-> {1}]),
    Get("insights", Customer(1), {}, 0), Get("insights", Operator, Pseudonym(1), 0),
    Get("refresh", Customer(2), {}, 0)>>

MCRequests == AllRequests

Item(key, confident) == [key |-> key, confident |-> confident]

Text(items) == [wellFormed |-> TRUE, items |-> items]

MCModelAnswers ==
  {Text(<<>>), Text(<<Item("flexible_load", TRUE), Item("community_percentile", TRUE)>>),
   Text(<<Item("latest_event", TRUE)>>), Text(<<Item("peak_period", FALSE)>>)}

Alone(c) == [requests |-> {c}, passes |-> {}, disturbances |-> 1]

MCLoads ==
  {Alone(c) : c \in 1..31}
    \cup {[requests |-> {32, 33}, passes |-> {}, disturbances |-> 0],
          [requests |-> {32, 34}, passes |-> {}, disturbances |-> 1],
          [requests |-> {34}, passes |-> {101}, disturbances |-> 1]}
=============================================================================
