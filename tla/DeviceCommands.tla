--------------------------- MODULE DeviceCommands ---------------------------
(***************************************************************************)
(* services/device-command-translator without its loop: the registry of    *)
(* the simulated devices, the allocation of a reduction over them and the  *)
(* commands, results and audit records of an approved proposal; and the    *)
(* simulators in services/common/simulators, as far as a command changes   *)
(* their state.  Powers are watts: every amount in the code is rounded to  *)
(* a thousandth of a kilowatt.                                             *)
(*                                                                         *)
(* A list that the code filters out of the registry is the set of the      *)
(* positions it keeps, and what it maps over such a list a function on     *)
(* them; both are gone through in the order of the registry.               *)
(***************************************************************************)
EXTENDS Integers, Sequences, FiniteSetsExt

-----------------------------------------------------------------------------
(* The registry and the simulators                                         *)

DEVICES == <<
  [device_id |-> "shelly-plug-001", device_type |-> "shelly_plug", provider |-> "shelly",
   community_id |-> "community-dublin-north", area_id |-> "dublin-north",
   controllable_load_kw |-> 1500,
   supported_actions |-> {"turn_off", "turn_on", "reduce_load", "restore_load"}],
  [device_id |-> "easee-core-001", device_type |-> "ev_charger", provider |-> "enode",
   community_id |-> "community-dublin-north", area_id |-> "dublin-north",
   controllable_load_kw |-> 7400,
   supported_actions |-> {"pause_charging", "resume_charging", "reduce_charging_power",
                          "restore_charging_power"}],
  [device_id |-> "heat-pump-001", device_type |-> "heat_pump",
   provider |-> "heat_pump_simulator",
   community_id |-> "community-dublin-north", area_id |-> "dublin-north",
   controllable_load_kw |-> 3200,
   supported_actions |-> {"reduce_load", "restore_load", "set_temperature", "boost_heat"}]
>>

DeviceIds == {DEVICES[i].device_id : i \in DOMAIN DEVICES}

findDevicesForScope(community, area) ==
  {i \in DOMAIN DEVICES : DEVICES[i].community_id = community /\ DEVICES[i].area_id = area}

Load(i) == DEVICES[i].controllable_load_kw

getTotalControllableLoadKw(devices) == MapThenSumSet(Load, devices)

SHELLY_ACTIONS    == {"turn_off", "turn_on", "reduce_load", "restore_load"}
ENODE_ACTIONS     == {"pause_charging", "resume_charging", "reduce_charging_power",
                      "restore_charging_power"}
HEAT_PUMP_ACTIONS == {"reduce_load", "restore_load", "set_temperature", "boost_heat"}

\* What each simulator does: the state a supported action puts the device in.
shellyApply ==
  [turn_off |-> "off", turn_on |-> "on", restore_load |-> "on", reduce_load |-> "reduced"]

enodeApply ==
  [pause_charging |-> "paused", resume_charging |-> "charging",
   restore_charging_power |-> "charging", reduce_charging_power |-> "reduced"]

heatPumpApply ==
  [reduce_load |-> "reduced", restore_load |-> "heating", boost_heat |-> "boost"]

\* resolveSimulatorBaseUrl and buildEndpoint: whose simulator is called.
resolveSimulator(device) ==
  IF device.provider = "enode" THEN enodeApply
  ELSE IF device.provider = "heat_pump_simulator" THEN heatPumpApply ELSE shellyApply

InitialState ==
  [id \in DeviceIds |->
    IF id = "shelly-plug-001" THEN "on"
    ELSE IF id = "easee-core-001" THEN "charging" ELSE "heating"]

-----------------------------------------------------------------------------
(* The allocation                                                          *)

Least(a, b) == IF a < b THEN a ELSE b

\* Math.round: to the nearest watt.
roundKw(numerator, denominator) == (2 * numerator + denominator) \div (2 * denominator)

\* A fixed amount, or a percentage of what the devices can give.
getRequestedReductionKw(event, devices) ==
  IF event.target_kw > 0 THEN event.target_kw
  ELSE roundKw(getTotalControllableLoadKw(devices) * Least(event.target_percent, 100), 100)

\* A device's share of the target, in proportion to its load.
Proportional(i, target, total) == roundKw(Least(Load(i) * total, target * Load(i)), total)

\* Mutant: the last device gets its rounded proportion like the others.
allocateProportionally(devices, requested) ==
  LET total    == getTotalControllableLoadKw(devices)
      share(i) == Proportional(i, Least(requested, total), total)
  IN  [i \in {j \in devices : share(j) > 0} |-> share(i)]

\* What the shares of the devices before the last leave of the target.
Remaining(devices, target, total) ==
  target - MapThenSumSet(LAMBDA i : Proportional(i, target, total), devices \ {Max(devices)})

\* In proportion to the loads, rounded one by one; the last device takes what
\* remains.  Devices whose share is nothing are left out.
allocateReduction(devices, requested) ==
  LET total  == getTotalControllableLoadKw(devices)
      target == Least(requested, total)
      rest   == Remaining(devices, target, total)
      share(i) == IF i # Max(devices) THEN Proportional(i, target, total)
                  ELSE IF rest < 0 THEN 0 ELSE Least(Load(i), rest)
  IN  [i \in {j \in devices : share(j) > 0} |-> share(i)]

-----------------------------------------------------------------------------
(* From an approved proposal to commands                                   *)

NoAction == "no action"

LoadActions == {"reduce_load", "shift_load"}

shellyAction(device, event, kw) ==
  IF event.requested_action \in LoadActions \/ event.proposed_action = "delay_flexible_load"
  THEN IF kw >= device.controllable_load_kw THEN "turn_off" ELSE "reduce_load"
  ELSE NoAction

enodeAction(device, event, kw) ==
  IF \/ event.requested_action \in LoadActions
     \/ event.proposed_action \in {"reduce_ev_charging", "delay_flexible_load"}
  THEN IF kw >= device.controllable_load_kw THEN "pause_charging" ELSE "reduce_charging_power"
  ELSE NoAction

heatPumpAction(event) ==
  IF event.requested_action \in LoadActions \/ event.proposed_action = "delay_flexible_load"
  THEN "reduce_load" ELSE NoAction

\* Mutant: a charger is asked to reduce its load, which is not an action of it.
getDeviceActionForAll(device, event, kw) == shellyAction(device, event, kw)

\* The actions the aggregator's proposals can ask for; the direct requests
\* (turn_on, restore_load, ...) come from no proposal.
getDeviceAction(device, event, kw) ==
  CASE device.device_type = "shelly_plug" -> shellyAction(device, event, kw)
    [] device.device_type = "ev_charger"  -> enodeAction(device, event, kw)
    [] device.device_type = "heat_pump"   -> heatPumpAction(event)

validateReadyCommand(event) ==
  /\ event.status = "ready_to_dispatch"
  /\ event.no_execution /\ event.execution_blocked

\* getAreaId: a proposal has no area, so the default applies.
DefaultArea == "dublin-north"

buildCommandPayload(event, device, action, kw) ==
  [dispatch_command_id |-> event.id, device_id |-> device.device_id,
   provider |-> device.provider, community_id |-> event.community_id,
   action |-> action, allocated_reduction_kw |-> kw,
   requested_reduction_kw |-> event.target_kw, correlation_id |-> event.correlation_id]

NoCommands == <<>>

\* All commands of the event, or none if one of its devices cannot be asked.
translateReadyCommand(event) ==
  LET devices == findDevicesForScope(event.community_id, DefaultArea)
      shares  == allocateReduction(devices, getRequestedReductionKw(event, devices))
      action(i) == getDeviceAction(DEVICES[i], event, shares[i])
  IN  IF \/ ~validateReadyCommand(event)
         \/ devices = {}
         \/ \E i \in DOMAIN shares : action(i) \notin DEVICES[i].supported_actions
      THEN NoCommands
      ELSE [i \in DOMAIN shares |-> buildCommandPayload(event, DEVICES[i], action(i), shares[i])]

\* The answer of the simulator, or simulator_unavailable.
buildResultPayload(command, accepted) ==
  [dispatch_command_id |-> command.dispatch_command_id, device_id |-> command.device_id,
   community_id |-> command.community_id, action |-> command.action,
   allocated_reduction_kw |-> command.allocated_reduction_kw,
   status |-> IF accepted THEN "simulated_accepted" ELSE "simulated_rejected",
   correlation_id |-> command.correlation_id]

buildDeviceAudit(result) ==
  [dispatch_command_id |-> result.dispatch_command_id, device_id |-> result.device_id,
   action |-> result.action, allocated_reduction_kw |-> result.allocated_reduction_kw,
   status |-> result.status, correlation_id |-> result.correlation_id]

buildAuditRowFromResult(result) ==
  [device_id |-> result.device_id, action |-> result.action,
   allocated_reduction_kw |-> result.allocated_reduction_kw,
   status |-> result.status, correlation_id |-> result.correlation_id]

buildRejectedDeviceAudit(event) ==
  [dispatch_command_id |-> event.id, device_id |-> NoAction, action |-> NoAction,
   allocated_reduction_kw |-> 0, status |-> "rejected",
   correlation_id |-> event.correlation_id]
=============================================================================
