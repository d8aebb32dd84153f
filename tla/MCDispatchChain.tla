-------------------------- MODULE MCDispatchChain --------------------------
(* DispatchChain for TLC: a signal about load, and a message on each of the *)
(* two topics that no service of the repository sent; or readings, of which *)
(* two are invalid and one is repeated.                                     *)
EXTENDS DispatchChain

Signal(id, action, end) ==
  [signal_id |-> id, dso_id |-> "dso", community_id |-> "community-dublin-north",
   signal_type |-> "grid_stress", severity |-> "critical", requested_action |-> action,
   start_time |-> 1, end_time |-> end, reason |-> "peak"]

MCBodies ==
  [load |-> Signal("load", "reduce_load", 2)]

\* Not JSON: the aggregator makes an event out of it that has no signal.
NotJson ==
  [correlation_id |-> "grid.signals:0:0", community_id |-> Missing,
   ieee20305_payload |->
     [dso |-> Missing, community |-> Missing,
      signal |-> [id |-> Missing, severity |-> Missing, requested_action |-> Missing,
                  start_time |-> NoTime, end_time |-> NoTime]]]

MCGridBacklog == <<NotJson>>

MCReadyBacklog ==
  <<[id |-> NoRow, status |-> "approved", no_execution |-> TRUE, execution_blocked |-> TRUE,
     community_id |-> "community-dublin-north", requested_action |-> "reduce_load",
     proposed_action |-> "reduce_ev_charging", target_kw |-> 1000,
     correlation_id |-> Missing]>>

Reading(id, time, device_type, reading_name, concept) ==
  [reading_id |-> id, event_time |-> time, household_id |-> "house", community_id |-> "north",
   device_id |-> "device", device_type |-> device_type, reading_name |-> reading_name,
   concept |-> concept, finite_value |-> TRUE, correlation_id |-> Missing]

MCEnriched ==
  LET charging == Reading("r1", 1, {"ev", "other"}, {"ev_", "other"}, {"evcharging"}) IN
  <<charging, ParseError("offset-1"), Reading("r2", 2, {"other"}, {"grid_stress"}, {}), charging,
    Reading("r3", NoTime, {"other"}, {"other"}, {})>>
=============================================================================
