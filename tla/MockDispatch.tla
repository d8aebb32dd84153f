---------------------------- MODULE MockDispatch ----------------------------
(***************************************************************************)
(* services/mock-dispatch-adapter without its consumer: what is simulated  *)
(* for an approved proposal, and the payloads that say so.                 *)
(***************************************************************************)

NoTarget == "no target"

ACTION_COMMANDS ==
  [reduce_ev_charging             |-> <<"ev_charger", "set_charging_limit", "reduced_kw">>,
   delay_flexible_load            |-> <<"flexible_load", "delay_start", "time_window">>,
   discharge_battery_if_available |-> <<"battery", "discharge_mock", "target_kw">>,
   reduce_battery_charging        |-> <<"battery", "reduce_charge_rate", "target_kw">>,
   increase_pv_export_if_available |->
     <<"solar_inverter", "increase_export_mock", "target_kw">>,
   reduce_export_limit            |-> <<"solar_inverter", "reduce_export_limit", "target_kw">>]

\* getActionRule: an unknown action throws, and the event is dropped.
HasActionRule(action) == action \in DOMAIN ACTION_COMMANDS

validateReadyEvent(event) ==
  /\ event.status = "ready_to_dispatch"
  /\ event.no_execution /\ event.execution_blocked

getTargetForRule(kind, event) ==
  IF kind = "time_window" THEN <<kind, event.start_time, event.end_time>>
  ELSE <<kind, event.target_kw>>

buildMockCommandPayload(event) ==
  LET rule == ACTION_COMMANDS[event.proposed_action] IN
  [dispatch_command_id |-> event.id, community_id |-> event.community_id,
   mock_device_type |-> rule[1], command |-> rule[2],
   target |-> getTargetForRule(rule[3], event), correlation_id |-> event.correlation_id]

buildMockResultPayload(command) ==
  [dispatch_command_id |-> command.dispatch_command_id, command |-> command.command,
   simulation_status |-> "simulated_success", correlation_id |-> command.correlation_id]

buildMockAudit(command, result) ==
  [dispatch_command_id |-> command.dispatch_command_id,
   mock_device_type |-> command.mock_device_type,
   simulation_status |-> result.simulation_status, correlation_id |-> command.correlation_id]

buildRejectedMockAudit(event) ==
  [dispatch_command_id |-> event.id, mock_device_type |-> "none",
   simulation_status |-> "rejected_invalid_ready_event",
   correlation_id |-> event.correlation_id]

\* buildAuditRow: the row of dispatch_execution_audit.
buildMockAuditRow(audit, target) ==
  [dispatch_command_id |-> audit.dispatch_command_id, target |-> target,
   simulation_status |-> audit.simulation_status, correlation_id |-> audit.correlation_id]

buildRejectedMockAuditRow(event) == buildMockAuditRow(buildRejectedMockAudit(event), NoTarget)
=============================================================================
