------------------------ MODULE SemanticTranslation ------------------------
(***************************************************************************)
(* services/ieee20305-translator/src/translator.js: an event of            *)
(* semantic.enriched in the form of IEEE 2030.5.  The code looks for       *)
(* fragments in names, so a name is the set of the fragments in it, with   *)
(* "other" for the rest; an absent or blank name is empty.  A value is     *)
(* finite or it is not, and a unit is left out.                            *)
(***************************************************************************)
EXTENDS GridSignals

\* What a message that is not JSON is taken for: nothing but a time of its own, that of
\* its processing.
ParseError(id) ==
  [reading_id |-> Missing, event_time |-> NoTime, household_id |-> Missing,
   community_id |-> Missing, device_id |-> Missing, device_type |-> {}, reading_name |-> {},
   concept |-> {}, finite_value |-> FALSE, correlation_id |-> id]

validateSemanticEvent(event) ==
  /\ event.event_time # NoTime
  /\ Missing \notin {event.household_id, event.community_id, event.device_id}
  /\ event.device_type # {} /\ event.reading_name # {}
  /\ event.finite_value

\* The fragments are looked for anywhere: the type "unknown_device" has an "ev" in it.
determineResourceType(event) ==
  IF \/ event.reading_name \cap {"grid_stress", "curtailment", "flexibility"} # {}
     \/ "gridcondition" \in event.concept
  THEN "DERControlCandidate"
  ELSE IF \/ event.reading_name \cap {"pv_", "battery", "ev_"} # {}
          \/ event.device_type \cap {"pv", "battery", "ev", "der"} # {}
          \/ event.concept \cap {"pvgeneration", "battery", "evcharging"} # {}
       THEN "DERStatus" ELSE "MirrorMeterReading"

hrefSegment ==
  [DERStatus |-> "status", DERControlCandidate |-> "control-candidates",
   MirrorMeterReading |-> "readings"]

buildHref(resourceType, event) ==
  <<hrefSegment[resourceType], event.community_id, event.household_id, event.device_id,
    event.reading_name, event.event_time>>

normalizeTimestamp(value, fallback) == IF value = NoTime THEN fallback ELSE value

\* An invalid event is passed on as well, under its time or that of its processing.
buildInvalidSemanticTranslation(event, now) ==
  [reading_id |-> event.reading_id, event_time |-> normalizeTimestamp(event.event_time, now),
   resource_type |-> "MirrorMeterReading",
   href |-> <<"invalid-semantic", normalizeTimestamp(event.event_time, now)>>,
   translation_status |-> "invalid_semantic_event", raw_semantic_payload |-> event]

translateSemanticEvent(event, now) ==
  IF ~validateSemanticEvent(event) THEN buildInvalidSemanticTranslation(event, now)
  ELSE [reading_id |-> event.reading_id, event_time |-> event.event_time,
        resource_type |-> determineResourceType(event),
        href |-> buildHref(determineResourceType(event), event),
        translation_status |-> "translated", raw_semantic_payload |-> event]

\* ON CONFLICT (event_time, reading_id) WHERE reading_id IS NOT NULL DO NOTHING.
WithTranslation(rows, translation) ==
  IF /\ translation.reading_id # Missing
     /\ \E row \in rows : /\ row.reading_id = translation.reading_id
                          /\ row.event_time = translation.event_time
  THEN rows ELSE rows \cup {translation}
=============================================================================
