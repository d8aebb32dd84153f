-------------------------- MODULE CustomerMetrics --------------------------
(***************************************************************************)
(* services/security-gateway/src/customer-metrics.js: the arithmetic of    *)
(* the customer pages.  Time is counted in minutes, power in W and energy  *)
(* in Wh where the code has kW and kWh; a value that may be null or absent *)
(* is a set with at most one member.                                       *)
(***************************************************************************)
EXTENDS Integers, Sequences, SequencesExt, TLC

Hour == 60

Day == 24 * Hour

\* coalesce, and the ?? and || of the code.
Coalesce(optional, fallback) ==
  IF optional = {} THEN fallback ELSE CHOOSE value \in optional : TRUE

Positive(value) == Max({value, 0})

Total(Column(_), S) == MapThenSumSet(Column, S)

\* The elements of S in an order without ties.
Ordered(S, Before(_, _)) ==
  [i \in 1..Cardinality(S) |-> CHOOSE x \in S : Cardinality({y \in S : Before(y, x)}) = i - 1]

\* numerator / denominator in 1 / parts, rounded as Math.round rounds.
Share(numerator, denominator, parts) ==
  (2 * parts * numerator + denominator) \div (2 * denominator)

\* kW with two decimals.
round(watts) == 10 * ((watts + 5) \div 10)

-----------------------------------------------------------------------------
RANGE_PROFILES == "24h" :> Day @@ "7d" :> 7 * Day @@ "30d" :> 30 * Day

STATUS_LABELS ==
  "proposed" :> "Opportunity received" @@ "reviewed" :> "Reviewed"
    @@ "approved" :> "Approved for preparation" @@ "rejected" :> "Not participating"
    @@ "ready_to_dispatch" :> "Ready for simulation" @@ "mock_sent" :> "Simulation sent"
    @@ "simulated_success" :> "Simulation completed" @@ "mock_result" :> "Simulation completed"
    @@ "accepted" :> "Accepted by simulator"

customerStatus(status) ==
  IF status \in DOMAIN STATUS_LABELS THEN STATUS_LABELS[status] ELSE "Status unavailable"

normalizePagination(limit, offset) ==
  [limit |-> Max({1, Min({50, Coalesce(limit, 20)})}), offset |-> Positive(Coalesce(offset, 0))]

\* A start or an end that is no date is as good as none.
normalizeAnalyticsRange(input, now) ==
  LET length == IF input.range \in DOMAIN RANGE_PROFILES
                THEN RANGE_PROFILES[input.range] ELSE RANGE_PROFILES["24h"]
      end    == Coalesce(input.end, now)
      asked  == Coalesce(input.start, end - length)
      start  == Max({IF asked >= end THEN end - length ELSE asked, end - 31 * Day})
  IN  [start |-> start, end |-> end,
       bucket |-> IF end - start <= 36 * Hour THEN 15
                  ELSE IF end - start <= 8 * Day THEN Hour ELSE 6 * Hour]

-----------------------------------------------------------------------------
CHARGING == <<"Paused", "Charging", "Reduced charging">>

HEATING == <<"Heating", "Reduced output", "Boost heating">>

\* From code 0 on.
GENERIC_STATES ==
  <<"Idle", "Monitoring", "Cooling", "Washing", "Rinsing", "Spinning", "Drying",
    "Cooling down", "Off", "Dimmed", "On", "Heating", "Holding temperature", "Standby",
    "Generating", "Exporting", "Charging", "Discharging">>

StateAt(names, position) ==
  IF position \in DOMAIN names THEN names[position] ELSE "Status unavailable"

\* Number(null) is 0: without a reading the code is 0, not the fallback of toNumber.
operatingState(row) ==
  LET code == Coalesce(row.code, 0) IN
  CASE row.device_type = "ev_charger"  -> StateAt(CHARGING, code + 1)
    [] row.device_type = "heat_pump"   -> StateAt(HEATING, code)
    [] row.device_type = "shelly_plug" -> IF Coalesce(row.power, 0) > 10 THEN "On"
                                          ELSE "Off or idle"
    [] OTHER -> IF code + 1 \in DOMAIN GENERIC_STATES THEN GENERIC_STATES[code + 1]
                ELSE IF Max({Coalesce(row.power, 0), -Coalesce(row.power, 0)}) > 50
                THEN "Active" ELSE "Idle"

-----------------------------------------------------------------------------
\* Mutant: the flexible share of the load is not cut at one.
calculateFlexibilityScoreUncut(input) ==
  IF input.deviceCount < 2 \/ input.eligibleDevices < 1 \/ input.eventCount < 1 THEN {}
  ELSE {(5 + (IF input.currentPower > 0
              THEN Share(input.flexibleLoad, input.currentPower, 300) ELSE 0)
           + Share(input.eligibleDevices, input.deviceCount, 250)
           + (IF input.hasEv THEN 150 ELSE 0) + (IF input.hasHeatPump THEN 150 ELSE 0)
           + Share(input.successfulEvents, input.eventCount, 150)) \div 10}

\* Each component in tenths of a point, the score in points.
calculateFlexibilityScore(input) ==
  LET shareOf(part, whole, tenths) == Share(Min({part, whole}), whole, tenths)
      controllable == IF input.currentPower > 0
                      THEN shareOf(input.flexibleLoad, input.currentPower, 300) ELSE 0
      components == controllable
                      + shareOf(input.eligibleDevices, input.deviceCount, 250)
                      + (IF input.hasEv THEN 150 ELSE 0)
                      + (IF input.hasHeatPump THEN 150 ELSE 0)
                      + shareOf(input.successfulEvents, input.eventCount, 150)
  IN  IF input.deviceCount < 2 \/ input.eligibleDevices < 1 \/ input.eventCount < 1 THEN {}
      ELSE {(components + 5) \div 10}

-----------------------------------------------------------------------------
\* The first of the points with the highest demand, if any has a demand.
PeakOf(points) ==
  LET higher(i) == /\ points[i].total > 0
                   /\ \A j \in DOMAIN points :
                        /\ points[j].total <= points[i].total
                        /\ j < i => points[j].total < points[i].total
  IN  {points[i] : i \in {k \in DOMAIN points : higher(k)}}

\* The first type in this order wins among equals.
LargestContributor(peak) ==
  IF peak.smart_plug >= Max({peak.ev_charger, peak.heat_pump}) THEN "smart_plug"
  ELSE IF peak.ev_charger >= peak.heat_pump THEN "ev_charger" ELSE "heat_pump"

\* compactFacts(buildInsightFacts(...)) asks four readers: a fact for every key that has one.
buildInsightFacts(points, flexibleLoad, latestEvent, percentile) ==
  LET peak == PeakOf(points)
      facts ==
        [peak_period |-> {[timestamp |-> p.start, power |-> round(p.total)] : p \in peak},
         peak_device_type |->
           {[device_type |-> LargestContributor(p), power |-> round(p[LargestContributor(p)])] :
              p \in {q \in peak : q[LargestContributor(q)] > 0}},
         flexible_load |-> {[flexible_load |-> round(f)] : f \in {g \in flexibleLoad : g > 0}},
         latest_event |-> {[status |-> e.status, target |-> round(e.target)] : e \in latestEvent},
         community_percentile |-> {[percentile |-> p] : p \in percentile}]
  IN  [key \in {k \in DOMAIN facts : facts[k] # {}} |-> Coalesce(facts[key], 0)]
=============================================================================
