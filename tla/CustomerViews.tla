--------------------------- MODULE CustomerViews ---------------------------
(***************************************************************************)
(* The database as the customer pages read it: the tables they use, and    *)
(* the views of database/timescale/011 and 012.  A world is the content of *)
(* the tables at one time: now, in minutes; households and devices are     *)
(* numbers, ordered as their names.  A reading's value is in thousandths   *)
(* of its unit, kW, W or kWh.                                              *)
(***************************************************************************)
EXTENDS CustomerMetrics

Average(W(_), S) == Total(W, S) \div Cardinality(S)

Bucket(time, width) == width * (time \div width)

StartOfDay(world) == Bucket(world.now, Day)

\* The value of a column over the rows that have it.
Values(Column(_), S) == UNION {Column(s) : s \in S}

Largest(values) == IF values = {} THEN {} ELSE {Max(values)}

-----------------------------------------------------------------------------
EnergyNames == {"energy_import_kwh", "energy_delivered_kwh", "energy_kwh"}

PowerNames ==
  {"active_power_kw", "ev_charging_power_kw", "heat_pump_power_kw", "power_kw", "power_w",
   "active_power_w", "pv_generation_kw", "battery_power_kw"}

CodeNames == {"charging_state_code", "operating_mode_code", "operating_state_code"}

\* The latest state goes by the name of the reading ...
PowerByName(r) ==
  IF r.name \in {"power_w", "active_power_w"} THEN r.value \div 1000 ELSE r.value

\* ... and the buckets by its unit, with generation as negative demand.
PowerByUnit(r) ==
  IF r.name = "pv_generation_kw" THEN -r.value
  ELSE IF r.unit = "W" THEN r.value \div 1000 ELSE r.value

\* What the daily energy is estimated from, without the names that 012 adds.
EstimatedBy(r) ==
  r.name \in PowerNames \ {"pv_generation_kw", "battery_power_kw"}

\* DISTINCT ON (household_id, device_id, reading_name).
LatestReadings(world) ==
  {r \in world.telemetry :
     ~\E s \in world.telemetry :
        /\ <<s.household, s.device, s.name>> = <<r.household, r.device, r.name>>
        /\ s.at > r.at \/ (s.at = r.at /\ s.processed > r.processed)}

\* The view customer_device_latest_state: a row for each device of a household.  A device that
\* has changed its community or type there has the max of the names, which is one of them ...
StateOf(one, mine) ==
  LET named(names) == {r \in mine : r.name \in names}
      maxOf(names)  == CHOOSE name \in names : TRUE
  IN  [household |-> one.household, community |-> maxOf({r.community : r \in mine}),
       device |-> one.device, type |-> maxOf({r.type : r \in mine}), last_seen |-> Max({r.at : r \in mine}),
       power |-> Largest({PowerByName(r) : r \in named(PowerNames)}),
       code |-> [n \in CodeNames |-> Largest({r.value \div 1000 : r \in named({n})})]]

\* ... grouped from the latest readings.
LatestState(world) ==
  LET latest == LatestReadings(world)
      mine(one) == {r \in latest : <<r.household, r.device>> = <<one.household, one.device>>}
  IN  {StateOf(one, mine(one)) : one \in latest}

\* The view customer_household_power_15m for one household.
HouseholdPower(world, household) ==
  LET readings == {r \in world.telemetry : r.household = household /\ r.name \in PowerNames}
      members(g, rows) == {r \in rows : <<r.device, r.type>> = g}
      sumOf(groups, rows) == Total(LAMBDA g : Average(PowerByUnit, members(g, rows)), groups)
      rowOf(start, community, rows, groups) ==
        [start |-> start, community |-> community,
         total |-> sumOf({g \in groups : g[2] # "smart_meter"}, rows),
         smart_plug |-> sumOf({g \in groups : g[2] \in {"shelly_plug", "smart_plug", "plug"}}, rows),
         ev_charger |-> sumOf({g \in groups : g[2] \in {"ev_charger", "easee_core", "charger"}}, rows),
         heat_pump |-> sumOf({g \in groups : g[2] \in {"heat_pump", "hvac"}}, rows),
         samples |-> Cardinality(rows)]
      grouped(start, community, rows) ==
        rowOf(start, community, rows, {<<r.device, r.type>> : r \in rows})
  IN  {grouped(key[1], key[2], {r \in readings : <<Bucket(r.at, 15), r.community>> = key}) :
         key \in {<<Bucket(r.at, 15), r.community>> : r \in readings}}

\* The view customer_device_daily_energy for one household: two readings of a meter in a
\* day measure it, otherwise it is estimated from the power.
EnergyOf(day, device, rows) ==
  LET metered == {r \in rows : r.name \in EnergyNames}
      sampled == {r \in rows : EstimatedBy(r)}
      values  == {r.value : r \in metered}
      measured == IF values = {} THEN {} ELSE {Max(values) - Min(values)}
      estimated ==
        IF sampled = {} THEN {}
        ELSE {Total(LAMBDA b : Average(PowerByUnit, {r \in sampled : Bucket(r.at, 15) = b}) \div 4,
                    {Bucket(r.at, 15) : r \in sampled})}
      twice == Cardinality(metered) >= 2
  IN  [day |-> day, device |-> device, type |-> (CHOOSE r \in rows : TRUE).type,
       metered |-> measured, estimated |-> estimated,
       used |-> IF twice THEN measured ELSE estimated,
       quality |-> IF twice THEN "measured"
                   ELSE IF estimated # {} THEN "estimated" ELSE "unavailable"]

DeviceDailyEnergy(world, household) ==
  LET readings == {r \in world.telemetry :
                     r.household = household /\ (r.name \in EnergyNames \/ EstimatedBy(r))}
      of(key) == {r \in readings : <<Bucket(r.at, Day), r.device>> = key}
  IN  {EnergyOf(key[1], key[2], of(key)) :
         key \in {<<Bucket(r.at, Day), r.device>> : r \in readings}}

\* The view customer_household_daily_energy for one household: smart meters measure what
\* the other devices use, so they are left out.
HouseholdDailyEnergy(world, household) ==
  LET category(e) == {d.category : d \in {x \in world.registry :
                                            x.device = e.device /\ x.household = household}}
      total(Column(_), rows) ==
        IF Values(Column, rows) = {} THEN {}
        ELSE {Total(LAMBDA e : Coalesce(Column(e), 0), rows)}
      rowOf(day, counted, qualities) ==
        [day |-> day, used |-> total(LAMBDA e : e.used, counted),
         metered |-> total(LAMBDA e : e.metered, counted),
         estimated |-> total(LAMBDA e : e.estimated, counted),
         quality |-> IF Cardinality(qualities) = 2 THEN "partly_estimated"
                     ELSE Coalesce(qualities, "unavailable")]
      ofDay(day, counted) == rowOf(day, counted, {e.quality : e \in counted} \ {"unavailable"})
      grouped(rows) ==
        {ofDay(day, {e \in rows : e.day = day /\ Coalesce(category(e), e.type) # "smart_meter"}) :
           day \in {e.day : e \in rows}}
  IN  grouped(DeviceDailyEnergy(world, household))

-----------------------------------------------------------------------------
THREE == {"shelly_plug", "ev_charger", "heat_pump"}

\* A device by its row d of the registry and its latest state s, if it has them.
InventoryRow(household, device, d, s) ==
  LET column(Of(_), rows) == {Of(x) : x \in rows}
      codeName(category) == IF category = "ev_charger" THEN "charging_state_code"
                            ELSE IF category = "heat_pump" THEN "operating_mode_code"
                            ELSE "operating_state_code"
      type  == column(LAMBDA x : x.type, s)
      power == Values(LAMBDA x : x.power, s)
      rowOf(category, capable) ==
        [household |-> household, device |-> device, device_type |-> category,
         profile |-> column(LAMBDA x : x.profile, d), flexible |-> capable,
         max_flexible |-> Coalesce(column(LAMBDA x : x.max_flexible, d),
                                   IF capable THEN Positive(Coalesce(power, 0)) ELSE 0),
         last_seen |-> column(LAMBDA x : x.last_seen, s), power |-> power,
         code |-> Values(LAMBDA x : x.code[codeName(category)], s)]
  IN  rowOf(Coalesce(column(LAMBDA x : x.category, d), Coalesce(type, "none")),
            Coalesce(column(LAMBDA x : x.flexible, d), type \cap THREE # {}))

\* The registry of simulated devices, FULL OUTER JOINed with the latest state: every
\* device of a household that either of them knows, once.
Inventory(world, household) ==
  LET registered == {d \in world.registry : d.household = household}
      states     == {s \in LatestState(world) : s.household = household}
      ofDevice(device, rows) == {x \in rows : x.device = device}
  IN  {InventoryRow(household, device, ofDevice(device, registered), ofDevice(device, states)) :
         device \in {x.device : x \in registered} \cup {x.device : x \in states}}

\* last_seen >= now() - interval; NULL is not.
SeenWithin(row, minutes, now) == \E t \in row.last_seen : t >= now - minutes

IsActive(row) == Max({Coalesce(row.power, 0), -Coalesce(row.power, 0)}) > 50

Demand(row) == Positive(Coalesce(row.power, 0))

\* Meters measure what others use, and generation is none.
Consumes(row) == row.device_type \notin {"smart_meter", "solar_inverter"}
=============================================================================
