-------------------------- MODULE TelemetryPayload --------------------------
(***************************************************************************)
(* services/common/telemetry-validator.js and the message key of           *)
(* ingestion-api and mqtt-subscriber.  A payload is a record of the fields *)
(* it has; a string that is absent, blank or of another type is Absent.    *)
(***************************************************************************)
EXTENDS FiniteSets

Absent == "absent"

NotAnObject == [shape |-> "other"]

isPlainObject(payload) == payload.shape = "object"

ALLOWED_FIELDS ==
  {"message_id", "correlation_id", "reading_ids", "household_id", "community_id", "device_id",
   "device_type", "timestamp", "readings", "protocol", "source", "metadata"}

\* The spelling of clients that do not follow the schema.
CompatibleFields == {"deviceId", "deviceType", "data", "householdId", "communityId"}

VALID_PROTOCOLS == {"http", "mqtt"}

\* A reading is a number, or an object with a numeric value and no other field than
\* a unit.
validateReading(reading) ==
  \/ reading.kind = "number"
  \/ /\ reading.kind = "object" /\ reading.fields \subseteq {"value", "unit"}
     /\ "value" \in reading.fields

\* Names may be null, flags are booleans, amounts are not negative, and what is
\* simulated cannot be declared real.
validateMetadata(metadata) ==
  metadata.known /\ metadata.wellTyped /\ ~metadata.declaredReal

NoMetadata == [known |-> TRUE, wellTyped |-> TRUE, declaredReal |-> FALSE]

validateTelemetry(payload) ==
  /\ isPlainObject(payload)
  /\ payload.fields \subseteq ALLOWED_FIELDS
  /\ Absent \notin {payload.household_id, payload.community_id, payload.device_id,
                    payload.device_type, payload.source, payload.timestamp}
  /\ payload.protocol \in VALID_PROTOCOLS
  /\ payload.readings # {} /\ \A reading \in payload.readings : validateReading(reading)
  /\ payload.reading_ids \subseteq {reading.name : reading \in payload.readings}
  /\ validateMetadata(payload.metadata)

\* Only a payload that uses one of the other spellings is rewritten, and then
\* protocol and source get their defaults and unknown fields are gone.
normalizeTelemetryPayload(payload, defaultSource) ==
  IF ~isPlainObject(payload) \/ payload.fields \cap CompatibleFields = {} THEN payload
  ELSE [payload EXCEPT
         !.fields = (@ \cap {"message_id", "correlation_id", "reading_ids", "metadata"})
                      \cup {"household_id", "community_id", "device_id", "device_type",
                            "timestamp", "readings", "protocol", "source"},
         !.protocol = IF @ = Absent THEN "http" ELSE @,
         !.source = IF @ = Absent THEN defaultSource ELSE @]

buildMessageKey(payload) == <<payload.community_id, payload.household_id, payload.device_id>>
=============================================================================
