---------------------------- MODULE GridSignals ----------------------------
(***************************************************************************)
(* What happens to the data on the way from a DSO to a dispatch proposal,  *)
(* without state: services/ieee20305-translator/src/translator.js accepts  *)
(* a signal and wraps it, services/aggregator/src/validation.js unwraps it *)
(* and aggregator.js turns it into a proposal.                             *)
(*                                                                         *)
(* A string is a member of a small set, Missing if it is absent, blank or  *)
(* not a string; a time is a number, NoTime if it does not parse.  Powers  *)
(* are watts.                                                              *)
(***************************************************************************)
EXTENDS Integers, Sequences

Missing == "missing"
NoTime  == 0
TooLong == "longer than 500 characters"

\* a || b || c
FirstOf(options) ==
  LET given == {i \in DOMAIN options : options[i] # Missing} IN
  IF given = {} THEN Missing ELSE options[CHOOSE i \in given : \A j \in given : i <= j]

-----------------------------------------------------------------------------
(* ieee20305-translator: grid signals                                      *)

GRID_SIGNAL_TYPES      == {"grid_stress", "curtailment_request", "flexibility_request"}
GRID_SIGNAL_ACTIONS    == {"reduce_load", "shift_load", "increase_export", "reduce_export"}
GRID_SIGNAL_SEVERITIES == {"low", "medium", "high", "critical"}

RequiredStrings ==
  {"signal_id", "dso_id", "community_id", "signal_type", "severity", "requested_action", "reason"}

validateGridSignal(signal) ==
  /\ \A field \in RequiredStrings : signal[field] # Missing
  /\ signal.signal_type \in GRID_SIGNAL_TYPES
  /\ signal.requested_action \in GRID_SIGNAL_ACTIONS
  /\ signal.severity \in GRID_SIGNAL_SEVERITIES
  /\ signal.start_time # NoTime /\ signal.end_time # NoTime
  /\ signal.end_time > signal.start_time
  /\ signal.reason # TooLong

\* The event of a valid signal; the signal's own id is its correlation id.
translateGridSignal(signal) ==
  [event_time        |-> signal.start_time,
   community_id      |-> signal.community_id,
   resource_type     |-> "GridSignal",
   correlation_id    |-> signal.signal_id,
   ieee20305_payload |->
     [dso       |-> signal.dso_id,
      community |-> signal.community_id,
      signal    |-> [id |-> signal.signal_id, type |-> signal.signal_type,
                     severity |-> signal.severity, reason |-> signal.reason,
                     requested_action |-> signal.requested_action,
                     start_time |-> signal.start_time, end_time |-> signal.end_time]]]

-----------------------------------------------------------------------------
(* aggregator: what is read out of a message of grid.signals               *)

VALID_REQUESTED_ACTIONS == {"reduce_load", "shift_load", "increase_export", "reduce_export"}

extractGridSignal(event) ==
  LET raw == event.ieee20305_payload.signal IN
  [signal_id        |-> FirstOf(<<raw.id, event.correlation_id>>),
   dso_id           |-> event.ieee20305_payload.dso,
   community_id     |-> FirstOf(<<event.ieee20305_payload.community, event.community_id>>),
   severity         |-> raw.severity,
   requested_action |-> raw.requested_action,
   start_time       |-> raw.start_time,
   end_time         |-> raw.end_time,
   correlation_id   |-> FirstOf(<<event.correlation_id, raw.id>>)]

validateGridSignalEvent(event) ==
  LET signal == extractGridSignal(event) IN
  /\ signal.signal_id # Missing /\ signal.community_id # Missing
  /\ signal.requested_action \in VALID_REQUESTED_ACTIONS
  /\ signal.severity # Missing
  /\ signal.start_time # NoTime /\ signal.end_time # NoTime
  /\ signal.end_time > signal.start_time

-----------------------------------------------------------------------------
(* aggregator: the rules of a proposal                                     *)

SEVERITY_TARGET_KW == [low |-> 1000, medium |-> 2500, high |-> 5000, critical |-> 7500]

ACTION_RULES ==
  [reduce_load     |-> "reduce_ev_charging",
   shift_load      |-> "delay_flexible_load",
   increase_export |-> "increase_pv_export_if_available",
   reduce_export   |-> "reduce_export_limit"]

\* An unknown severity counts as medium.
normalizeSeverity(severity) ==
  IF severity \in DOMAIN SEVERITY_TARGET_KW THEN severity ELSE "medium"

getTargetKwForSeverity(severity) == SEVERITY_TARGET_KW[normalizeSeverity(severity)]

getActionRule(action) == ACTION_RULES[action]

createDispatchProposal(signal) ==
  [signal_id        |-> signal.signal_id,
   community_id     |-> signal.community_id,
   requested_action |-> signal.requested_action,
   proposed_action  |-> getActionRule(signal.requested_action),
   target_kw        |-> getTargetKwForSeverity(signal.severity),
   start_time       |-> signal.start_time,
   end_time         |-> signal.end_time,
   priority         |-> normalizeSeverity(signal.severity),
   correlation_id   |-> FirstOf(<<signal.correlation_id, signal.signal_id>>)]

buildAuditPayload(proposal, status) ==
  [signal_id |-> proposal.signal_id, correlation_id |-> proposal.correlation_id,
   requested_action |-> proposal.requested_action,
   proposed_action |-> proposal.proposed_action, target_kw |-> proposal.target_kw,
   status |-> status]

buildRejectedAudit(event) ==
  LET id == FirstOf(<<event.ieee20305_payload.signal.id, event.correlation_id>>) IN
  [signal_id |-> id, correlation_id |-> FirstOf(<<event.correlation_id, id>>),
   status |-> "failed"]
=============================================================================
