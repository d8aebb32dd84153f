------------------------- MODULE CustomerReadModel -------------------------
(***************************************************************************)
(* services/security-gateway/src/customer-read-model.js: what the customer *)
(* pages show.  A reader asks the database several times, without a        *)
(* transaction: dbs[i] is the world its i-th query meets, clock the time   *)
(* when it is done.                                                        *)
(***************************************************************************)
EXTENDS CustomerAccess

CONSTANT Cohort  \* the households of the scale validation, by the prefix of their names

POWER_DEVICE_TYPES ==
  {"smart_plug", "shelly_plug", "washing_machine", "clothes_dryer", "dishwasher",
   "lighting_circuit", "ev_charger", "heat_pump", "thermostat_hvac", "water_heater",
   "solar_inverter", "home_battery"}

\* ORDER BY a column: among equals the order is open, as some numbering of the rows has it.
SortedBy(S, Column(_)) ==
  LET number == CHOOSE f \in [S -> 1..Cardinality(S)] : IsInjective(f)
  IN  Ordered(S, LAMBDA a, b : \/ Column(a) < Column(b)
                               \/ Column(a) = Column(b) /\ a # b /\ number[a] < number[b])

\* ORDER BY a column DESC and LIMIT.
Highest(S, Column(_), limit) ==
  SubSeq(SortedBy(S, LAMBDA a : -Column(a)), 1, Min({limit, Cardinality(S)}))

\* What a household shows to a customer, an operator and an administrator.
householdDisplay(context, household) ==
  IF context.role = "household_user" THEN Plain(household)
  ELSE stableHouseholdPseudonym(household)

\* Mutant: the identifier is in the answer whoever asks.
HouseholdOfForAll(context, household) ==
  [display_name |-> householdDisplay(context, household),
   pseudonym |-> stableHouseholdPseudonym(household), id |-> {Plain(household)}]

HouseholdOf(context, household) ==
  [display_name |-> householdDisplay(context, household),
   pseudonym |-> stableHouseholdPseudonym(household),
   id |-> IF context.role = "household_user" THEN {Plain(household)} ELSE {}]

\* The proposals of a household and of its community as a whole.
ProposalsOf(world, context, household) ==
  {p \in world.proposals :
     p.community \in context.community /\ p.household \subseteq {household}}

EventOf(p) ==
  [proposal |-> p.id, status |-> p.status, display_status |-> customerStatus(p.status),
   target |-> round(p.target), start |-> p.start, end |-> p.end]

-----------------------------------------------------------------------------
\* Mutant: the connection counts as live for longer than a device as active.
ConnectionStatusLenient(lastUpdated, clock) ==
  IF lastUpdated = {} THEN "no_data"
  ELSE IF clock - Coalesce(lastUpdated, 0) <= 20 THEN "live" ELSE "stale"

ConnectionStatus(lastUpdated, clock) ==
  IF lastUpdated = {} THEN "no_data"
  ELSE IF clock - Coalesce(lastUpdated, 0) <= 10 THEN "live" ELSE "stale"

\* What the first query of the summary counts.
DeviceTotals(devices, now) ==
  LET active   == {d \in devices : SeenWithin(d, 10, now)}
      eligible == {d \in active : d.flexible}
  IN  [total |-> Cardinality(devices), active |-> Cardinality(active),
       eligible |-> Cardinality(eligible),
       live |-> Total(Demand, {d \in devices : Consumes(d)}),
       flexible |-> Total(LAMBDA d : d.max_flexible, eligible),
       updated |-> Largest(Values(LAMBDA d : d.last_seen, devices)),
       hasEv |-> \E d \in devices : d.device_type = "ev_charger",
       hasHeatPump |-> \E d \in devices : d.device_type = "heat_pump"]

\* The events of a household and how many of them were simulated with success.
ScoreOf(totals, world, events) ==
  calculateFlexibilityScore(
    [deviceCount |-> totals.total, eligibleDevices |-> totals.eligible,
     currentPower |-> totals.live, flexibleLoad |-> totals.flexible,
     hasEv |-> totals.hasEv, hasHeatPump |-> totals.hasHeatPump,
     eventCount |-> Cardinality(events),
     successfulEvents |-> Cardinality({p \in events : \E x \in world.executions :
       x.proposal = p.id /\ x.status = "simulated_success" /\ x.simulated})])

\* What today's simulated commands allocate for the duration of their events.
ShiftedToday(world, proposals) ==
  LET allocated == {c \in world.commands : c.simulated /\ c.at >= StartOfDay(world)}
      shiftedBy(p) == Total(LAMBDA c : Positive(c.allocated) * Positive(p.end - p.start),
                            {c \in allocated : c.proposal = p.id}) \div 60
  IN  Total(shiftedBy, proposals)

getCustomerSummary(context, household, dbs, clock) ==
  LET mine(i) == ProposalsOf(dbs[i], context, household)
      answer(totals, today, open, shifted) ==
        [household |-> HouseholdOf(context, household),
         connection |-> ConnectionStatus(totals.updated, clock), last_updated |-> totals.updated,
         live_consumption |-> IF totals.total = 0 THEN {} ELSE {round(totals.live)},
         energy_used_today |-> Values(LAMBDA e : {round(Coalesce(e.used, 0))}, today),
         energy_quality |-> Coalesce({e.quality : e \in today}, "unavailable"),
         active_devices |-> totals.active, total_devices |-> totals.total,
         flexible_load |-> IF totals.eligible = 0 THEN {} ELSE {round(totals.flexible)},
         current_grid_event |-> {EventOf(p) : p \in open},
         energy_shifted |-> IF shifted > 0 THEN {round(shifted)} ELSE {},
         flexibility_score |-> ScoreOf(totals, dbs[5], mine(5))]
  IN  answer(DeviceTotals(Inventory(dbs[1], household), dbs[1].now),
             {e \in HouseholdDailyEnergy(dbs[2], household) : e.day = StartOfDay(dbs[2])},
             Range(Highest({p \in mine(3) : p.end >= dbs[3].now - Day},
                               LAMBDA p : p.created, 1)),
             ShiftedToday(dbs[4], mine(4)))

getCustomerAnalytics(context, household, options, dbs, started) ==
  LET pointOf(start, rows) ==
        [start |-> start, total |-> round(Average(LAMBDA p : p.total, rows)),
         smart_plug |-> round(Average(LAMBDA p : p.smart_plug, rows)),
         ev_charger |-> round(Average(LAMBDA p : p.ev_charger, rows)),
         heat_pump |-> round(Average(LAMBDA p : p.heat_pump, rows)),
         samples |-> Total(LAMBDA p : p.samples, rows)]
      pointsOf(rows, bucket) ==
        Ordered({pointOf(start, {p \in rows : Bucket(p.start, bucket) = start}) :
                   start \in {Bucket(p.start, bucket) : p \in rows}},
                LAMBDA a, b : a.start < b.start)
      answer(range, points) ==
        [range |-> range, points |-> SubSeq(points, 1, Min({500, Len(points)})),
         partial_data |-> \E i \in DOMAIN points : points[i].samples < 2,
         flexibility_events |->
           {EventOf(p) : p \in {x \in ProposalsOf(dbs[2], context, household) :
                                  x.start <= range.end /\ x.end >= range.start}}]
      within(range) ==
        answer(range, pointsOf({p \in HouseholdPower(dbs[1], household) :
                                  p.start \in range.start..range.end}, range.bucket))
  IN  within(normalizeAnalyticsRange(options, started))

-----------------------------------------------------------------------------
\* The filters of a page; one that is not asked for is empty.
MeetsFilters(row, options, now) ==
  /\ \A c \in options.category : row.device_type = c
  /\ \A p \in options.profile : p \in row.profile
  /\ \A device \in options.deviceId : row.device = device
  /\ \A matching \in options.search : row.device \in matching
  /\ \A online \in options.online : /\ row.last_seen # {}
                                    /\ SeenWithin(row, 10, now) = online
  /\ \A flexible \in options.flexible : row.flexible = flexible
  /\ \A state \in options.state :
       CASE state = "active"  -> IsActive(row)
         [] state = "idle"    -> ~IsActive(row)
         [] state = "offline" -> ~SeenWithin(row, 10, now)

\* One device of the page, as it is shown.
DeviceView(world, household, row, clock) ==
  LET online  == SeenWithin(row, 10, clock)
      capable == row.flexible \/ row.device_type \in POWER_DEVICE_TYPES
      today   == {e \in DeviceDailyEnergy(world, household) :
                    e.device = row.device /\ e.day = StartOfDay(world)}
      command == Highest({c \in world.commands : c.device = row.device},
                             LAMBDA c : c.created, 1)
  IN  [device |-> row.device, device_type |-> row.device_type, profile |-> row.profile,
       online |-> online, last_seen |-> row.last_seen,
       current_power |-> {round(p) : p \in row.power},
       energy_used_today |-> {round(u) : u \in Values(LAMBDA e : e.used, today)},
       energy_quality |-> Coalesce({e.quality : e \in today}, "unavailable"),
       operating_state |-> operatingState(row), flexible |-> capable,
       flexibility_available |-> online /\ capable,
       available |-> IF ~(online /\ capable) THEN 0
                     ELSE round(IF row.max_flexible # 0 THEN row.max_flexible ELSE Demand(row)),
       latest_command |-> {[action |-> c.action, status |-> c.status, simulated |-> c.simulated] :
                             c \in Range(command)}]

\* ORDER BY last_seen DESC NULLS LAST, then the name.
PageOf(rows, page) ==
  LET before(a, b) == LET s == Coalesce(a.last_seen, -1)
                          t == Coalesce(b.last_seen, -1)
                      IN  s > t \/ (s = t /\ a.device < b.device)
      cut(ordered) ==
        SubSeq(ordered, page.offset + 1, Min({page.offset + page.limit, Len(ordered)}))
  IN  cut(Ordered(rows, before))

getCustomerDevices(context, household, options, dbs, clock) ==
  LET rows(i) == {r \in Inventory(dbs[i], household) : MeetsFilters(r, options, dbs[i].now)}
      usedToday(r) == Total(LAMBDA e : Coalesce(e.used, 0),
                            {e \in DeviceDailyEnergy(dbs[4], household) :
                               e.device = r.device /\ e.day = StartOfDay(dbs[4])})
      answer(page, shown, counted, typed) ==
        [limit |-> page.limit, offset |-> page.offset, total |-> Cardinality(counted),
         devices |-> [i \in DOMAIN shown |-> DeviceView(dbs[1], household, shown[i], clock)],
         online_devices |-> Cardinality({r \in counted : SeenWithin(r, 10, dbs[2].now)}),
         active_devices |-> Cardinality({r \in counted : IsActive(r)}),
         flexible_devices |-> Cardinality({r \in counted : r.flexible}),
         not_flexible |-> Cardinality({r \in counted : ~r.flexible}),
         current_consumption |-> round(Total(Demand, {r \in counted : Consumes(r)})),
         by_category |-> [c \in {r.device_type : r \in typed} |->
                            Cardinality({r \in typed : r.device_type = c})],
         energy_used_today |->
           round(Total(usedToday, {r \in rows(4) : r.device_type # "smart_meter"}))]
      paged(page) == answer(page, PageOf(rows(1), page), rows(2), rows(3))
  IN  paged(normalizePagination(options.limit, options.offset))

NoFilter ==
  [limit |-> {}, offset |-> {}, category |-> {}, profile |-> {}, deviceId |-> {}, search |-> {},
   online |-> {}, flexible |-> {}, state |-> {}]

\* The page of one device, and its power of the last day; the fifth query only if it is there.
getCustomerDeviceDetail(context, household, device, dbs, clock) ==
  LET page == getCustomerDevices(context, household,
                [NoFilter EXCEPT !.limit = {1}, !.offset = {0}, !.deviceId = {device}], dbs, clock)
      readings == {r \in dbs[5].telemetry :
                     /\ r.household = household /\ r.device = device
                     /\ r.name \in PowerNames /\ r.at >= dbs[5].now - Day}
      powerOf(r) == IF r.name = "pv_generation_kw" THEN r.value ELSE PowerByUnit(r)
  IN  {[device |-> d,
        recent_usage |-> {[start |-> b, power |-> round(Average(powerOf,
                             {r \in readings : Bucket(r.at, 15) = b}))] :
                            b \in {Bucket(r.at, 15) : r \in readings}}] :
         d \in Range(page.devices)}

-----------------------------------------------------------------------------
\* The last twenty proposals with the evidence of what became of them; without proposals
\* nothing else is asked.
getCustomerFlexibility(context, household, dbs) ==
  LET proposals == Highest(ProposalsOf(dbs[1], context, household), LAMBDA p : p.created, 20)
      timeline(p) ==
        LET steps == {[at |-> p.created, status |-> "proposed"]}
                       \cup {[at |-> a.at, status |-> a.status] :
                               a \in {x \in dbs[2].approvals : x.proposal = p.id}}
                       \cup {[at |-> m.at, status |-> "mock_result"] :
                               m \in {x \in dbs[3].executions : x.proposal = p.id}}
        IN  SortedBy(steps, LAMBDA a : a.at)
      contributions(p) == {c \in dbs[4].commands : c.proposal = p.id}
      allocated(p) == Total(LAMBDA c : c.allocated, contributions(p))
      eventOf(p) ==
        [event |-> EventOf(p), timeline |-> timeline(p),
         contributions |-> {[device |-> c.device, allocated |-> round(c.allocated),
                             status |-> customerStatus(c.status)] : c \in contributions(p)},
         mock_dispatch_status |-> IF \E x \in dbs[3].executions : x.proposal = p.id
                                  THEN customerStatus("mock_result") ELSE "Not simulated yet",
         shifted |-> IF allocated(p) > 0
                     THEN {round((allocated(p) * Positive(p.end - p.start)) \div 60)} ELSE {}]
      ids == {p.id : p \in Range(proposals)}
  IN  [events |-> [i \in DOMAIN proposals |-> eventOf(proposals[i])],
       latest_event |-> {EventOf(proposals[i]) : i \in DOMAIN proposals \cap {1}},
       flexible_load |-> {Total(LAMBDA c : round(c.allocated), contributions(proposals[i])) :
                            i \in DOMAIN proposals \cap {1}} \ {0},
       no_real_execution |-> \A x \in dbs[3].executions \cup dbs[4].commands :
                               x.proposal \in ids => x.simulated]

-----------------------------------------------------------------------------
\* What the households of a community draw by their latest states.
DemandOf(states, household) ==
  Total(LAMBDA s : Coalesce(s.power, 0), {s \in states : s.household = household})

\* Mutant: a household is compared with any number of others.
PercentileInAnyGroup(world, community, household) ==
  LET states == {s \in LatestState(world) : s.community \in community}
      group  == {s.household : s \in states}
      below  == {h \in group : household \in group
                                /\ DemandOf(states, h) <= DemandOf(states, household)}
  IN  IF group = {} THEN {} ELSE {Share(Cardinality(below), Cardinality(group), 100)}

\* A household without telemetry is compared too: nothing is below NULL.
PercentileOf(world, community, household) ==
  LET states == {s \in LatestState(world) : s.community \in community}
      group  == {s.household : s \in states}
      below  == {h \in group : household \in group
                                /\ DemandOf(states, h) <= DemandOf(states, household)}
  IN  IF Cardinality(group) < 5 THEN {}
      ELSE {Share(Cardinality(below), Cardinality(group), 100)}

\* The registry of the validation households LEFT JOINed with their latest states.
CohortAssets(world, community) ==
  LET states == LatestState(world)
      rowOf(d) == LET s == {x \in states : <<x.household, x.device>> = <<d.household, d.device>>}
                      seen == {x.last_seen : x \in s}
                  IN  [household |-> d.household, device |-> d.device,
                       device_type |-> d.category, profile |-> d.profile,
                       flexible |-> d.flexible, max_flexible |-> d.max_flexible,
                       last_seen |-> IF seen = {} THEN d.last_seen ELSE seen,
                       power |-> Values(LAMBDA x : x.power, s)]
  IN  {rowOf(d) : d \in {x \in world.registry : x.community \in community /\ x.household \in Cohort}}

\* The last reading of every device of the cohort, and the last audit row of it.
SemanticProgress(world, community) ==
  LET readings == {r \in world.telemetry : r.community \in community /\ r.household \in Cohort}
      latest == {r \in readings : ~\E s \in readings :
                    /\ s.device = r.device
                    /\ s.at > r.at \/ (s.at = r.at /\ s.processed > r.processed)}
      outcomeOf(r) == Highest({a \in world.slm : a.reading = r.id}, LAMBDA a : a.processed, 1)
      terminal == {r \in latest : outcomeOf(r) # <<>>}
  IN  [normalized |-> Cardinality(latest), terminal |-> Cardinality(terminal),
       mapped |-> Cardinality({r \in terminal : outcomeOf(r)[1].status = "mapped"}),
       unmapped |-> Cardinality({r \in terminal : outcomeOf(r)[1].unmapped}),
       completion |-> IF latest = {} THEN 0
                      ELSE Share(Cardinality(terminal), Cardinality(latest), 1000)]

getCustomerCommunity(context, household, dbs) ==
  LET community == context.community
      states(i) == {s \in LatestState(dbs[i]) : s.community \in community}
      present   == {s \in states(1) : s.last_seen >= dbs[1].now - 10}
      active    == {s.household : s \in present}
      demand(h) == DemandOf(present, h)
      events    == {p \in dbs[4].proposals : p.community \in community /\ p.end >= dbs[4].now}
      assets    == CohortAssets(dbs[5], community)
      online    == {a \in assets : SeenWithin(a, 20, dbs[5].now)}
      inCohort(i) == {d \in dbs[i].registry : d.community \in community /\ d.household \in Cohort}
      having(S, Column(_), value) == {x \in S : Column(x) = value}
  IN  [selected |-> stableHouseholdPseudonym(household),
       household_count |-> Cardinality({s.household : s \in states(1)}),
       active_households |-> Cardinality(active),
       total_demand |-> round(Total(demand, active)),
       flexible_load |-> round(Total(LAMBDA s : Coalesce(s.power, 0),
                                     {s \in present : s.type \in THREE})),
       average_load |-> IF active = {} THEN {} ELSE {round(Average(demand, active))},
       types |-> [t \in {s.type : s \in states(2)} |->
                    Cardinality(having(states(2), LAMBDA s : s.type, t))],
       percentile |-> PercentileOf(dbs[3], community, household),
       active_events |-> Cardinality(events),
       requested_reduction |-> round(Total(LAMBDA p : p.target, events)),
       cohort |-> [households |-> Cardinality({a.household : a \in assets}),
                   assets |-> Cardinality(assets), online |-> Cardinality(online),
                   active |-> Cardinality({a \in online : IsActive(a)}),
                   flexible |-> Cardinality({a \in assets : a.flexible}),
                   demand |-> round(Total(Demand, {a \in online : Consumes(a)})),
                   available |-> round(Total(LAMBDA a : a.max_flexible,
                                             {a \in online : a.flexible}))],
       profiles |-> [f \in {d.profile : d \in inCohort(6)} |->
                       Cardinality(having(inCohort(6), LAMBDA d : d.profile, f))],
       categories |-> [c \in {d.category : d \in inCohort(7)} |->
                         Cardinality(having(inCohort(7), LAMBDA d : d.category, c))],
       progress |-> SemanticProgress(dbs[8], community)]

-----------------------------------------------------------------------------
reportRange(period) ==
  IF period = "daily" THEN 1 ELSE IF period = "monthly" THEN 31 ELSE 7

getCustomerReports(context, household, period, dbs) ==
  LET days == reportRange(period)
      inRange(i, e) == e.day >= StartOfDay(dbs[i]) - (days - 1) * Day
      energy  == {e \in HouseholdDailyEnergy(dbs[1], household) : inRange(1, e)}
      devices == {e \in DeviceDailyEnergy(dbs[2], household) : inRange(2, e)}
      ofDevice(d) == {e \in devices : e.device = d}
      rounded(optional) == round(Coalesce(optional, 0))
  IN  [days |-> days,
       energy |-> {[day |-> e.day, used |-> rounded(e.used), metered |-> rounded(e.metered),
                    estimated |-> rounded(e.estimated), quality |-> e.quality] : e \in energy},
       devices |-> {[device |-> d,
                     used |-> round(Total(LAMBDA e : Coalesce(e.used, 0), ofDevice(d))),
                     contains_estimate |-> \E e \in ofDevice(d) : e.quality = "estimated"] :
                      d \in {e.device : e \in devices}},
       history |-> {EventOf(p) : p \in {x \in ProposalsOf(dbs[3], context, household) :
                                          x.event >= dbs[3].now - days * Day}}]

\* The sections of the file, as sets of rows under the same columns.
buildCustomerReportCsv(report) ==
  [household_energy |-> {<<e.day, e.used, e.quality>> : e \in report.energy},
   device_energy |-> {<<d.device, d.used, d.contains_estimate>> : d \in report.devices},
   flexibility_event |-> {<<p.proposal, p.target, p.display_status>> : p \in report.history}]
=============================================================================
