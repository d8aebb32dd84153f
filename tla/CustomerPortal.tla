--------------------------- MODULE CustomerPortal ---------------------------
(***************************************************************************)
(* The pages that the security-gateway itself serves: the customer read    *)
(* model, the insights a local model selects, the platform's status and    *)
(* the gateway's audit.  The rest of the platform writes the database      *)
(* meanwhile: History is what the tables become, one world after another,  *)
(* and a request meets each of its queries in one of the worlds between    *)
(* its arrival and its answer.  What an answer says is computed from the   *)
(* worlds of its queries, so only these are kept.                          *)
(***************************************************************************)
EXTENDS PlatformStatus

CONSTANTS
  History,         \* the worlds of the database, in order
  Requests,        \* requests by number, each sent once
  Passes,          \* numbers of the scheduler's passes
  ModelAnswers,    \* what the model may answer
  RefreshMinutes,  \* customerInsightRefreshMinutes
  Loads            \* bounds of the model: which requests and passes happen in one
                   \* behaviour, with how many disturbances (failed calls, restarts)

\* The rest of the platform adds to the tables and takes nothing away; a proposal changes its
\* status only.  The registry alone is overwritten (engine/src/db.js:68-90): a row is that of
\* its device's last message, so that a device changes household, community and all else.
\* Times, households, devices and what is measured are numbers.  By the schema a device has
\* one row of the registry, a proposal one id and a reading one audit row, and no flexible
\* power is negative; the semantic connector marks as unmapped what it does not map.
ASSUME HistoryAssumption ==
  /\ History \in Seq(Range(History)) /\ History # <<>>
  /\ \A world \in Range(History) :
       /\ {"now", "telemetry", "registry", "proposals", "semantic", "slm", "audit", "services",
             "kafka"} \subseteq DOMAIN world
       /\ world.now \in Nat
       /\ \A table \in {world.telemetry, world.registry, world.proposals, world.semantic,
                       world.slm, world.audit} : IsFiniteSet(table)
       /\ \A r \in world.telemetry :
            /\ r.household \in Nat /\ r.device \in Nat /\ r.at \in Nat
            /\ r.processed \in Nat /\ r.value \in Int
       /\ \A d, e \in world.registry :
            /\ d.household \in Nat /\ d.device \in Nat /\ d.max_flexible \in Nat
            /\ d.device = e.device => d = e
       /\ \A p, q \in world.proposals : p.created \in Nat /\ (p.id = q.id => p = q)
       /\ \A a, b \in world.slm : /\ a.processed \in Nat /\ (a.reading = b.reading => a = b)
                                 /\ a.unmapped = (a.status # "mapped")
       /\ world.services \in [Range(SERVICES) -> {"ok", "error", "silent"}]
       /\ world.kafka.up \in BOOLEAN
  /\ \A i, j \in DOMAIN History : i < j =>
       /\ History[i].now < History[j].now
       /\ History[i].telemetry \subseteq History[j].telemetry
       /\ \A p \in History[i].proposals : \E q \in History[j].proposals :
            <<p.id, p.community, p.household>> = <<q.id, q.community, q.household>>

\* A request is about one household at most, its sender's or the one it asks for, and asks
\* for a page of devices in numbers.
ASSUME RequestAssumption ==
  \A c \in DOMAIN Requests :
    /\ Requests[c].context.household \subseteq Nat
    /\ \A h, i \in Requests[c].context.household : h = i
    /\ \A r, q \in Requests[c].requested : r = q
    /\ LET options == Requests[c].options IN
       Requests[c].route \in {"devices", "platform_devices"} =>
         /\ {"limit", "offset"} \subseteq DOMAIN options
         /\ options.limit \subseteq Int /\ options.offset \subseteq Int

ASSUME PortalAssumption ==
  /\ RefreshMinutes \in Nat \ {0}
  /\ \A text \in ModelAnswers : text.items \in Seq(Range(text.items))
  /\ Passes \cap DOMAIN Requests = {}
  /\ Loads \subseteq [requests : SUBSET DOMAIN Requests, passes : SUBSET Passes, disturbances : Nat]

VARIABLES
  at,           \* the world the database is in
  stage,        \* of each request: unsent, open, answered, lost
  from,         \* the world a request arrived in
  granted,      \* the household it may see, if it is about one
  result,       \* what was answered
  generation,   \* insights in the making, for a request or for a pass
  queue,        \* households a pass of the scheduler has still to refresh
  insights,     \* household_generated_insights
  failedUntil,  \* the map of the same name: until when a household is left alone
  audit,        \* the gateway's own rows of security_gateway_audit
  load, disturbances

vars == <<at, stage, from, granted, result, generation, queue, insights, failedUntil, audit,
          load, disturbances>>

generationVars == <<generation, queue, insights, failedUntil>>

-----------------------------------------------------------------------------
Now == History[at].now

Route(c) == Requests[c].route

Context(c) == Requests[c].context

InsightRoutes == {"insights", "refresh"}

\* Who makes insights.
Makers == {c \in DOMAIN Requests : Route(c) \in InsightRoutes} \cup Passes

Idle == [stage |-> "idle", household |-> 0, community |-> {}, from |-> 0, to |-> 0,
         facts |-> <<>>, left |-> <<>>, made |-> {}, generated |-> 0]

NoResult == [status |-> 0, code |-> "none", moments |-> <<>>, clock |-> 0, failing |-> {},
             shown |-> {}]

Households ==
  (UNION {{r.household : r \in world.telemetry \cup world.registry} : world \in Range(History)})
    \cup (UNION {Context(c).household : c \in DOMAIN Requests})

Init ==
  /\ load \in Loads /\ disturbances = 0
  /\ at = 1
  /\ stage = [c \in DOMAIN Requests |-> "unsent"] /\ from = [c \in DOMAIN Requests |-> 0]
  /\ granted = [c \in DOMAIN Requests |-> {}] /\ result = [c \in DOMAIN Requests |-> NoResult]
  /\ generation = [g \in Makers |-> Idle] /\ queue = [p \in Passes |-> <<>>]
  /\ insights = {} /\ failedUntil = [h \in Households |-> 0] /\ audit = {}

Disturb(times) ==
  /\ disturbances + times <= load.disturbances
  /\ disturbances' = disturbances + times

\* The database goes on while something is asked of it.
Advance ==
  /\ at < Len(History) /\ at' = at + 1
  /\ \/ \E c \in load.requests : stage[c] \in {"unsent", "open"}
     \/ load.passes # {} \/ \E p \in Passes : queue[p] # <<>> \/ generation[p] # Idle
  /\ UNCHANGED <<stage, from, granted, result, generationVars, audit, load, disturbances>>

-----------------------------------------------------------------------------
(* Requests                                                                *)

\* auditCustomerRead and the answer; safeInsertSecurityGatewayAudit may lose the row.
Respond(c, answer, reason, failed) ==
  LET row == [decision |-> IF answer.status < 400 THEN "accepted" ELSE "blocked",
              reason |-> reason, correlation |-> c, created |-> Now, at |-> at]
  IN  /\ stage' = [stage EXCEPT ![c] = "answered"]
      /\ result' = [result EXCEPT ![c] = answer]
      /\ \/ audit' = audit \cup {row} /\ Disturb(failed)
         \/ audit' = audit /\ Disturb(failed + 1)

\* sendCustomerError.
Refuse(c, error, failed) ==
  Respond(c, [NoResult EXCEPT !.status = error.status, !.code = error.code], error.code, failed)

Unavailable == CustomerAccessError("customer_read_model_unavailable", 503)

PlatformRoutes == {"audit", "platform_status", "platform_devices"}

NoScope == [household |-> {}, error |-> {}]

\* customerScope: context and household, where the route needs them.
Scopes(c) ==
  IF Route(c) \in PlatformRoutes THEN {NoScope}
  ELSE IF ContextErrors(Context(c)) # {} THEN {Refused(e) : e \in ContextErrors(Context(c))}
  ELSE IF Route(c) = "households" THEN {NoScope}
  ELSE resolveHouseholdScope(History[at], Context(c), Requests[c].requested)

\* A household_user's own household needs no query that could fail.
MayFailInScope(c) ==
  /\ Route(c) \notin PlatformRoutes \cup {"households"} /\ ContextErrors(Context(c)) = {}
  /\ Context(c).role # "household_user"

Arrive(c) ==
  /\ c \in load.requests /\ stage[c] = "unsent"
  /\ from' = [from EXCEPT ![c] = at]
  /\ \/ \E scope \in Scopes(c) :
          /\ granted' = [granted EXCEPT ![c] = scope.household]
          /\ IF scope.error # {} THEN \E e \in scope.error : Refuse(c, e, 0)
             ELSE /\ stage' = [stage EXCEPT ![c] = "open"]
                  /\ UNCHANGED <<result, audit, disturbances>>
     \/ MayFailInScope(c) /\ Refuse(c, Unavailable, 1) /\ UNCHANGED granted
  /\ UNCHANGED <<at, generationVars, load>>

\* The worlds of n queries, one after another, since the request arrived: broken[i] of
\* them are done when the database leaves world i.
Moments(c, n) ==
  {[k \in 1..n |-> from[c] + Cardinality({i \in from[c]..(at - 1) : broken[i] < k})] :
     broken \in [from[c]..(at - 1) -> 0..n]}

\* A handler has asked its n queries and answers, or one of them has failed.
Read(c, route, n, reason) ==
  /\ stage[c] = "open" /\ Route(c) = route
  /\ \/ \E m \in Moments(c, n) :
          Respond(c, [NoResult EXCEPT !.status = 200, !.code = "ok", !.moments = m, !.clock = at],
                  reason, 0)
     \/ Refuse(c, Unavailable, 1)
  /\ UNCHANGED <<at, from, granted, generationVars, load>>

\* What a query met: the world, and the audit rows the gateway had added before it.
World(m) == [History[m] EXCEPT !.audit = @ \cup {a \in audit : a.at < m}]

Worlds(c) == [k \in DOMAIN result[c].moments |-> World(result[c].moments[k])]

Household(c) == CHOOSE h \in granted[c] : TRUE

-----------------------------------------------------------------------------
(* The customer pages                                                      *)

ReadHouseholds(c) == Read(c, "households", 1, "customer_households_read")

ListedBy(c) == listAuthorizedHouseholds(Worlds(c)[1], Context(c))

ReadSummary(c) == Read(c, "summary", 5, "customer_summary_read")

SummaryOf(c) ==
  getCustomerSummary(Context(c), Household(c), Worlds(c), History[result[c].clock].now)

ReadAnalytics(c) == Read(c, "analytics", 2, "customer_analytics_read")

AnalyticsOf(c) ==
  getCustomerAnalytics(Context(c), Household(c), Requests[c].options, Worlds(c),
                       History[from[c]].now)

\* What is no valid filter is none.
FiltersOf(options) ==
  [options EXCEPT !.category = @ \ {"No Category"},
                  !.profile = @ \cap {"apartment", "standard_home", "prosumer_home"},
                  !.state = @ \cap {"active", "idle", "offline"}]

ReadDevices(c) == Read(c, "devices", 4, "customer_devices_read")

DevicesOf(c) ==
  getCustomerDevices(Context(c), Household(c), FiltersOf(Requests[c].options), Worlds(c),
                     History[result[c].clock].now)

DeviceNotFound == CustomerAccessError("customer_device_not_found", 404)

DetailAt(c, m, clock) ==
  LET worlds == [k \in DOMAIN m |-> World(m[k])] IN
  UNION {getCustomerDeviceDetail(Context(c), Household(c), device, worlds, History[clock].now) :
           device \in Requests[c].options}

DetailOf(c) == DetailAt(c, result[c].moments, result[c].clock)

\* A device identifier that is none, or of another household, is not found.
ReadDeviceDetail(c) ==
  /\ stage[c] = "open" /\ Route(c) = "device"
  /\ \/ \E m \in Moments(c, 5) :
          IF DetailAt(c, m, at) = {} THEN Refuse(c, DeviceNotFound, 0)
          ELSE Respond(c, [NoResult EXCEPT !.status = 200, !.code = "ok", !.moments = m,
                                           !.clock = at], "customer_device_detail_read", 0)
     \/ Requests[c].options # {} /\ Refuse(c, Unavailable, 1)
  /\ UNCHANGED <<at, from, granted, generationVars, load>>

ReadFlexibility(c) == Read(c, "flexibility", 4, "customer_flexibility_read")

FlexibilityOf(c) == getCustomerFlexibility(Context(c), Household(c), Worlds(c))

ReadCommunity(c) == Read(c, "community", 8, "customer_community_read")

CommunityOf(c) == getCustomerCommunity(Context(c), Household(c), Worlds(c))

ReadReports(c) == Read(c, "reports", 3, "customer_report_read")

ExportReports(c) == Read(c, "reports.csv", 3, "customer_report_exported")

ReportOf(c) ==
  getCustomerReports(Context(c), Household(c), Requests[c].options.period, Worlds(c))

FileOf(c) == buildCustomerReportCsv(ReportOf(c))

-----------------------------------------------------------------------------
(* The platform's pages: a query that fails leaves a gap in the status, and  *)
(* refuses the audit without a row of its own.                               *)

ReadAudit(c) ==
  /\ stage[c] = "open" /\ Route(c) = "audit"
  /\ \/ \E m \in Moments(c, 1) :
          Respond(c, [NoResult EXCEPT !.status = 200, !.code = "ok", !.moments = m],
                  "security_audit_read", 0)
     \/ /\ Disturb(1)
        /\ stage' = [stage EXCEPT ![c] = "answered"]
        /\ result' = [result EXCEPT ![c] = [NoResult EXCEPT !.status = 503,
                                             !.code = "security_gateway_audit_unavailable"]]
        /\ UNCHANGED audit
  /\ UNCHANGED <<at, from, granted, generationVars, load>>

AuditOf(c) == listSecurityGatewayAudit(Worlds(c)[1], Requests[c].options)

Readers ==
  {"counts", "semantic", "scalability", "insights", "security", "load", "storage", "dataspace"}

\* The sets of queries that may fail, within the disturbances left.
Failing(readers) == {{}} \cup (IF disturbances < load.disturbances
                               THEN {{<<r, k>>} : r \in readers, k \in 1..4} ELSE {})

\* Five queries of every reader, and then the services one after another.
ReadStatus(c) ==
  /\ stage[c] = "open" /\ Route(c) = "platform_status"
  /\ \E m \in Moments(c, 5 + Len(SERVICES)), failing \in Failing(Readers) :
       Respond(c, [NoResult EXCEPT !.status = 200, !.code = "ok", !.moments = m,
                                   !.failing = failing],
               "platform_status_read", Cardinality(failing))
  /\ UNCHANGED <<at, from, granted, generationVars, load>>

StatusOf(c) ==
  LET worlds == Worlds(c) IN
  buildPlatformStatus(SubSeq(worlds, 1, 5), SubSeq(worlds, 6, Len(worlds)), result[c].failing)

ReadPlatformDevices(c) ==
  /\ stage[c] = "open" /\ Route(c) = "platform_devices"
  /\ \E m \in Moments(c, 1), failing \in Failing({"platform_devices"}) :
       Respond(c, [NoResult EXCEPT !.status = 200, !.code = "ok", !.moments = m,
                                   !.failing = failing],
               "platform_devices_read", Cardinality(failing))
  /\ UNCHANGED <<at, from, granted, generationVars, load>>

PlatformDevicesOf(c) ==
  listScalabilityDevices(Worlds(c)[1], result[c].failing, Requests[c].options)

-----------------------------------------------------------------------------
(* Insights                                                                *)

INSIGHT_KEYS ==
  {"peak_period", "peak_device_type", "flexible_load", "latest_event", "community_percentile"}

\* Mutant: an expired insight is as good as another.
getCachedInsightsExpired(h) ==
  LET valid == {r \in insights : r.household = h}
      newest(shown) == \A r \in shown, s \in valid \ shown : r.generated >= s.generated
  IN  {shown \in kSubset(Min({6, Cardinality(valid)}), valid) : newest(shown)}

\* The last six that have not expired; between equal times the order is open.
getCachedInsights(h) ==
  LET valid == {r \in insights : r.household = h /\ r.expires > Now}
      newest(shown) == \A r \in shown, s \in valid \ shown : r.generated >= s.generated
  IN  {shown \in kSubset(Min({6, Cardinality(valid)}), valid) : newest(shown)}

\* What the readers tell of a household when they meet one world, tabulated: the power of
\* the day before a world they are asked in, the summary's flexible load, the last event and
\* the percentile.
Communities == {Context(c).community : c \in {d \in DOMAIN Requests : Route(d) \in InsightRoutes}}

Sources ==
  [h \in Households, community \in Communities, started, m \in DOMAIN History |->
     LET context == [role |-> "technical_admin", community |-> community]
         dbs(n)  == [k \in 1..n |-> History[m]]
         lastDay == [range |-> "24h", start |-> {}, end |-> {}]
     IN  [points |-> getCustomerAnalytics(context, h, lastDay, dbs(2), History[started].now).points,
          flexible |-> getCustomerSummary(context, h, dbs(5), History[m].now).flexible_load,
          event |-> getCustomerFlexibility(context, h, dbs(4)).latest_event,
          percentile |-> getCustomerCommunity(context, h, dbs(8)).percentile]]

\* collectInsightFacts: four readers at once, of which one query each is a fact's source.
FactsOf(h, community, started, m) ==
  LET facts(source) == buildInsightFacts(source[1].points, source[2].flexible,
                                         source[3].event, source[4].percentile)
  IN  facts([i \in 1..4 |-> Sources[<<h, community, started, m[i]>>]])

\* The facts of one world.
FactsIn(h, community, started, m) == FactsOf(h, community, started, [i \in 1..4 |-> m])

\* What a correct answer selects: the first three items count.
parseInsightSelection(text, allowed) ==
  LET items == SubSeq(text.items, 1, Min({3, Len(text.items)})) IN
  IF /\ text.wellFormed
     /\ \A i \in DOMAIN items :
          /\ items[i].key \in allowed /\ items[i].confident
          /\ \A j \in DOMAIN items : items[j].key = items[i].key => j = i
  THEN {[i \in DOMAIN items |-> items[i].key]} ELSE {}

\* Mutant: the generation is not over with its answer.
ConcludeKeepingGeneration(g, code, shown, failed) ==
  /\ generation' = generation
  /\ IF g \in Passes THEN Disturb(failed) /\ UNCHANGED <<stage, result, audit>>
     ELSE Respond(g, [NoResult EXCEPT !.status = 200, !.code = code, !.clock = at, !.shown = shown],
                  "customer_insights_read", failed)

\* A request's answer; a pass goes on to its next household.
Conclude(g, code, shown, failed) ==
  /\ generation' = [generation EXCEPT ![g] = Idle]
  /\ IF g \in Passes THEN Disturb(failed) /\ UNCHANGED <<stage, result, audit>>
     ELSE Respond(g, [NoResult EXCEPT !.status = IF Route(g) = "refresh" THEN 202 ELSE 200,
                                      !.code = code, !.clock = at, !.shown = shown],
                  IF Route(g) = "refresh" THEN "customer_insights_refreshed"
                  ELSE "customer_insights_read", failed)

\* The catch of getOrGenerateCustomerInsights.
GiveUp(g, failed) ==
  /\ failedUntil' = [failedUntil EXCEPT ![generation[g].household] = Now + 5]
  /\ Conclude(g, "temporarily_unavailable", {}, failed)

Generate(g, h, community) ==
  generation' = [generation EXCEPT ![g] = [Idle EXCEPT !.stage = "collecting", !.household = h,
                                                       !.community = community, !.from = at]]

\* getCachedInsights, and what follows from it at once.
LookUp(c) ==
  LET h == Household(c)
      force == Route(c) = "refresh"
  IN  /\ Route(c) \in InsightRoutes /\ stage[c] = "open" /\ generation[c] = Idle
      /\ \/ \E shown \in getCachedInsights(h) :
              IF shown # {} /\ ~force THEN Conclude(c, "cached", shown, 0)
              ELSE IF ~force /\ failedUntil[h] > Now
              THEN Conclude(c, "temporarily_unavailable", {}, 0)
              ELSE /\ Generate(c, h, Context(c).community)
                   /\ UNCHANGED <<stage, result, audit, disturbances>>
         \/ Refuse(c, Unavailable, 1) /\ UNCHANGED generation
      /\ UNCHANGED <<at, from, granted, queue, insights, failedUntil, load>>

CollectFacts(g) ==
  LET new == generation[g] IN
  /\ new.stage = "collecting"
  /\ \/ \E facts \in {FactsOf(new.household, new.community, new.from, m) :
                        m \in [1..4 -> new.from..at]} :
          /\ IF facts = <<>> THEN Conclude(g, "not_enough_data", {}, 0)
             ELSE /\ generation' = [generation EXCEPT ![g] =
                                      [new EXCEPT !.stage = "asking", !.facts = facts, !.to = at]]
                  /\ UNCHANGED <<stage, result, audit, disturbances>>
          /\ UNCHANGED failedUntil
     \/ GiveUp(g, 1)
  /\ UNCHANGED <<at, from, granted, queue, insights, load>>

\* callInsightModel and validateAndRenderSelections; the model may also be silent or down.
AskModel(g) ==
  LET new == generation[g] IN
  /\ new.stage = "asking"
  /\ \/ \E text \in ModelAnswers :
          LET selected == parseInsightSelection(text, DOMAIN new.facts) IN
          \/ selected = {} /\ GiveUp(g, 0)
          \/ /\ selected = {<<>>}
             /\ failedUntil' = [failedUntil EXCEPT ![new.household] = 0]
             /\ Conclude(g, "not_enough_data", {}, 0)
          \/ \E keys \in selected \ {<<>>} :
               /\ generation' = [generation EXCEPT ![g] =
                                   [new EXCEPT !.stage = "storing", !.left = keys, !.generated = Now]]
               /\ UNCHANGED <<stage, result, audit, disturbances, failedUntil>>
     \/ GiveUp(g, 1)
  /\ UNCHANGED <<at, from, granted, queue, insights, load>>

\* One INSERT of persistInsights; those before a failed one stay.
PersistInsight(g) ==
  LET new == generation[g]
      row == [household |-> new.household, community |-> new.community, key |-> new.left[1],
              fact |-> new.facts[new.left[1]], generated |-> new.generated,
              expires |-> new.generated + RefreshMinutes, from |-> new.from, to |-> new.to, by |-> g]
      made == new.made \cup {row}
  IN  /\ new.stage = "storing"
      /\ \/ /\ insights' = insights \cup {row}
            /\ \/ /\ Len(new.left) > 1
                  /\ generation' = [generation EXCEPT ![g].left = Tail(@), ![g].made = made]
                  /\ UNCHANGED <<stage, result, audit, disturbances, failedUntil>>
               \/ /\ Len(new.left) = 1
                  /\ failedUntil' = [failedUntil EXCEPT ![new.household] = 0]
                  /\ Conclude(g, "generated", made, 0)
         \/ insights' \in {insights, insights \cup {row}} /\ GiveUp(g, 1)
      /\ UNCHANGED <<at, from, granted, queue, load>>

\* The scheduler's query: every household with an insight that has expired or soon will,
\* with the community of its last one.
StartPass(p) ==
  LET due == {r \in insights : r.expires <= Now + 15}
      newest == {r \in due : \A s \in due : s.household = r.household => s.generated <= r.generated}
      rows == {<<h, CHOOSE community \in {r.community : r \in {s \in newest : s.household = h}} : TRUE>> :
                 h \in {r.household : r \in newest}}
      ordered == Ordered(rows, LAMBDA a, b : a[1] < b[1])
  IN  /\ p \in load.passes
      /\ load' = [load EXCEPT !.passes = @ \ {p}]
      /\ queue' = [queue EXCEPT ![p] = SubSeq(ordered, 1, Min({50, Len(ordered)}))]
      /\ UNCHANGED <<at, stage, from, granted, result, generation, insights, failedUntil, audit>>
      /\ UNCHANGED disturbances

\* One household after the other, forced; a failed look-up ends the pass.
TakeNext(p) ==
  /\ queue[p] # <<>> /\ generation[p] = Idle
  /\ \/ /\ Generate(p, queue[p][1][1], queue[p][1][2])
        /\ queue' = [queue EXCEPT ![p] = Tail(@)]
        /\ UNCHANGED disturbances
     \/ /\ Disturb(1) /\ queue' = [queue EXCEPT ![p] = <<>>]
        /\ UNCHANGED generation
  /\ UNCHANGED <<at, stage, from, granted, result, insights, failedUntil, audit, load>>

\* The process dies: its map, its requests and its passes are gone.
Restart ==
  /\ Disturb(1)
  /\ stage' = [c \in DOMAIN Requests |-> IF stage[c] = "open" THEN "lost" ELSE stage[c]]
  /\ generation' = [g \in Makers |-> Idle] /\ queue' = [p \in Passes |-> <<>>]
  /\ failedUntil' = [h \in Households |-> 0]
  /\ <<stage, generation, queue, failedUntil>>' # <<stage, generation, queue, failedUntil>>
  /\ UNCHANGED <<at, from, granted, result, insights, audit, load>>

-----------------------------------------------------------------------------
Next ==
  \/ Advance \/ Restart
  \/ \E c \in DOMAIN Requests :
       \/ Arrive(c) \/ ReadHouseholds(c) \/ ReadSummary(c) \/ ReadAnalytics(c)
       \/ ReadDevices(c) \/ ReadDeviceDetail(c) \/ ReadFlexibility(c) \/ ReadCommunity(c)
       \/ ReadReports(c) \/ ExportReports(c) \/ ReadAudit(c) \/ ReadStatus(c)
       \/ ReadPlatformDevices(c) \/ LookUp(c)
  \/ \E g \in Makers : CollectFacts(g) \/ AskModel(g) \/ PersistInsight(g)
  \/ \E p \in Passes : StartPass(p) \/ TakeNext(p)

Spec == Init /\ [][Next]_vars

-----------------------------------------------------------------------------
(* Properties                                                              *)

\* Types of all variables, and that generation and queue belong to what is in hand.

TypeOK ==
  /\ at \in DOMAIN History
  /\ stage \in [DOMAIN Requests -> {"unsent", "open", "answered", "lost"}]
  /\ from \in [DOMAIN Requests -> 0..at]
  /\ \A c \in DOMAIN Requests :
       /\ granted[c] \subseteq Households /\ Cardinality(granted[c]) <= 1
       /\ (stage[c] = "answered") = (result[c].status # 0)
  /\ \A g \in Makers :
       /\ generation[g].stage \in {"idle", "collecting", "asking", "storing"}
       /\ (generation[g].stage = "storing") = (generation[g].left # <<>>)
       /\ g \notin Passes /\ generation[g] # Idle => stage[g] = "open"
       /\ g \in Passes /\ generation[g] # Idle => g \notin load.passes
  /\ \A r \in insights : r.key \in INSIGHT_KEYS /\ r.from <= r.to /\ r.to <= at
  /\ failedUntil \in [Households -> 0..(Now + 5)]
  /\ \A a \in audit : a.at <= at /\ stage[a.correlation] = "answered"
  /\ disturbances \in 0..load.disturbances

Answered(routes) ==
  {c \in DOMAIN Requests : stage[c] = "answered" /\ result[c].status \in {200, 202}
                           /\ Route(c) \in routes}

\* The households a comparison counts.
ComparisonGroup(m, community) ==
  {r.household : r \in {s \in History[m].telemetry : s.community \in community}}

\* docs/customer-dashboard-architecture.md:99-112: no insight is fabricated.  Whatever the
\* model answers, whatever fails and whoever else makes insights meanwhile: a stored insight
\* states a fact of its household and community that held in a world its generation went
\* through; and a cached insight is the household's and has not expired.
InsightsAreGrounded ==
  /\ \A r \in insights :
       /\ History[r.to].now <= r.generated
       /\ \E m \in r.from..r.to :
            LET facts == FactsIn(r.household, r.community, r.from, m) IN
            r.key \in DOMAIN facts /\ facts[r.key] = r.fact
  /\ \A c \in Answered(InsightRoutes) :
       /\ result[c].shown \subseteq insights /\ Cardinality(result[c].shown) <= 6
       /\ (result[c].shown = {}) = (result[c].code \notin {"cached", "generated"})
       /\ \A r \in result[c].shown :
            /\ granted[c] = {r.household}
            /\ result[c].code = "cached" => History[result[c].clock].now < r.expires

-----------------------------------------------------------------------------
(* What one answer puts side by side comes from queries at different times. *)

\* A live connection has an active device; a score is a percentage.
SummariesAddUp ==
  \A c \in Answered({"summary"}) :
    \A summary \in {SummaryOf(c)} :
    /\ summary.connection = "live" => summary.active_devices >= 1
    /\ summary.flexibility_score \subseteq 0..100
    /\ summary.active_devices <= summary.total_devices
    /\ (summary.flexible_load # {}) => summary.active_devices >= 1

\* The devices of a household in a world, and those that have left it between two queries.
DevicesIn(m, h) ==
  {x.device : x \in {y \in History[m].telemetry \cup History[m].registry : y.household = h}}

LeftBetween(c, i, j) ==
  DevicesIn(result[c].moments[i], Household(c)) \ DevicesIn(result[c].moments[j], Household(c))

\* A page without filters shows no more than is counted after it and has left the household
\* meanwhile, because the registry moved it; and never more online, as what has been seen in
\* the household stays in its telemetry.
PagesFitTheirTotal ==
  /\ \A c \in Answered({"devices"}) :
       \A page \in {DevicesOf(c)} :
       LET shown == Len(page.devices)
           counted == Total(LAMBDA k : page.by_category[k], DOMAIN page.by_category)
       IN  [FiltersOf(Requests[c].options) EXCEPT !.limit = {}, !.offset = {}] = NoFilter =>
             /\ shown > 0 => page.offset + shown <= page.total + Cardinality(LeftBetween(c, 1, 2))
             /\ page.total <= counted + Cardinality(LeftBetween(c, 2, 3))
             /\ Cardinality({i \in 1..shown : page.devices[i].online}) <= page.online_devices
  /\ \A c \in Answered({"platform_devices"}) :
       \A page \in {PlatformDevicesOf(c)} :
       page.devices # <<>> => page.offset + Len(page.devices) <= page.total

\* docs/customer-dashboard-metric-definitions.md:199: a household is compared within five
\* at least, and the answer is a percentage; what is active is online, and is counted.
ComparisonsNeedAGroup ==
  \A c \in Answered({"community"}) :
    \A community \in {CommunityOf(c)} :
    /\ community.percentile \subseteq 0..100
    /\ community.percentile # {} =>
         Cardinality(ComparisonGroup(result[c].moments[3], Context(c).community)) >= 5
    /\ community.active_households <= community.household_count
    /\ community.cohort.active <= community.cohort.online
    /\ community.cohort.online <= community.cohort.assets
    /\ community.progress.mapped + community.progress.unmapped <= community.progress.terminal
    /\ community.progress.completion \in 0..1000

\* The platform is operational only if every service answered well when it was asked; what
\* the semantic connector has accepted and refused is within what it has audited.
OperationalIsHealthy ==
  \A c \in Answered({"platform_status"}) :
    \A status \in {StatusOf(c)} :
    LET askedAt(i) == History[result[c].moments[5 + i]]
    IN  /\ status.pipeline_status = "operational" =>
             /\ \A i \in DOMAIN SERVICES : askedAt(i).services[SERVICES[i]] = "ok"
             /\ History[result[c].moments[1]].kafka.up
             /\ \A id \in DOMAIN PIPELINE_BLOCKS : status.pipeline_blocks[id].status = "ok"
        /\ status.scalability.acceptance + status.scalability.unmapped <= 101
        /\ status.semantic.mapped + status.semantic.unmapped <= status.semantic.total
        /\ status.security.blocked + status.security.rate_limited <= status.security.rejected

AnswersAddUp ==
  SummariesAddUp /\ PagesFitTheirTotal /\ ComparisonsNeedAGroup /\ OperationalIsHealthy

-----------------------------------------------------------------------------
CustomerRoutes ==
  {"summary", "analytics", "devices", "device", "flexibility", "community", "reports",
   "reports.csv"} \cup InsightRoutes

\* The proposals an answer tells of.
EventsShown(c) ==
  CASE Route(c) = "summary" -> SummaryOf(c).current_grid_event
    [] Route(c) = "analytics" -> AnalyticsOf(c).flexibility_events
    [] Route(c) = "flexibility" -> {e.event : e \in Range(FlexibilityOf(c).events)}
    [] Route(c) = "reports" -> ReportOf(c).history
    [] OTHER -> {}

\* The devices an answer names as the household's.
DevicesShown(c) ==
  CASE Route(c) = "devices" -> {d.device : d \in Range(DevicesOf(c).devices)}
    [] Route(c) = "device" -> {d.device.device : d \in DetailOf(c)}
    [] Route(c) = "reports" -> {d.device : d \in ReportOf(c).devices}
    [] Route(c) = "reports.csv" -> {d[1] : d \in FileOf(c).device_energy}
    [] OTHER -> {}

\* The households an answer names.
NamesShown(c) ==
  CASE Route(c) = "summary" ->
         UNION {{h.display_name, h.pseudonym} \cup h.id : h \in {SummaryOf(c).household}}
    [] Route(c) = "community" -> {CommunityOf(c).selected}
    [] Route(c) = "households" ->
         UNION {{entry.selector, entry.pseudonym} : entry \in Range(ListedBy(c))}
    [] OTHER -> {}

\* The scope of a request: a household_user's own household; for others one that their
\* community knows, under the name they have asked for, and an operator's never by its
\* identifier.
GrantedInScope(c) ==
  LET context == Context(c) IN
  IF context.role = "household_user" THEN granted[c] = context.household
  ELSE /\ Household(c) \in KnownHouseholds(History[from[c]], context.community)
       /\ \A r \in Requests[c].requested :
            r.id = Household(c) /\ (r.pseudonym \/ context.role = "technical_admin")

\* What is answered is within the scope of the request.  Nobody sees the devices of another
\* household or the proposals made for one: each was the household's own in a world that a
\* query of the answer met, also when the device has moved or moves meanwhile.
AnswersStayInScope ==
  /\ \A c \in Answered(CustomerRoutes) :
       LET context == Context(c)
           h == Household(c)
           met == Range(result[c].moments)
       IN  /\ GrantedInScope(c)
           /\ \A d \in DevicesShown(c) : \E m \in met : d \in DevicesIn(m, h)
           /\ \A e \in EventsShown(c) : \E m \in met : \E p \in History[m].proposals :
                /\ p.id = e.proposal
                /\ p.community \in context.community /\ p.household \subseteq {h}
  /\ \A c \in Answered(CustomerRoutes \cup {"households"}) :
       \A name \in NamesShown(c) :
         name.pseudonym \/ (Context(c).role = "household_user" /\ {name.id} = Context(c).household)
=============================================================================
