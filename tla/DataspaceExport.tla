--------------------------- MODULE DataspaceExport ---------------------------
(***************************************************************************)
(* services/dataspace-export without its handlers: assets and limits       *)
(* (policy.js), pseudonyms (pseudonymize.js), queries (db.js) and payloads *)
(* (export-builder.js, buildAuditEvent of index.js).  Rows keep what the   *)
(* exports tell apart: community, household and device.                    *)
(***************************************************************************)
EXTENDS Integers, Sequences, SequencesExt

CONSTANT Tables  \* Tables[t]: rows behind the export type t, newest first

\* What a row or a query does not name.
NoId == "null"

\* The sections of the full export, in its order.
Sections == <<"semantic_summary", "grid_signal_summary", "dispatch_proposal_summary",
              "approval_audit_summary", "mock_dispatch_summary">>

ASSETS ==
  [semantic_summary          |-> "semantic-summary",
   grid_signal_summary       |-> "grid-signal-summary",
   dispatch_proposal_summary |-> "dispatch-proposal-summary",
   approval_audit_summary    |-> "approval-audit-summary",
   mock_dispatch_summary     |-> "mock-dispatch-summary",
   full_pipeline_demo_summary |-> "full-pipeline-demo-summary"]

getAssetByExportType(type) == ASSETS[type]

\* 0 stands for what is not a positive integer.
normalizeMaxRecords(value) == IF value < 1 THEN 100 ELSE IF value > 500 THEN 500 ELSE value

normalizeRequestedLimit(requested, maxRecords) ==
  LET safeMax == normalizeMaxRecords(maxRecords) IN
  IF requested < 1 \/ requested > safeMax THEN safeMax ELSE requested

\* A salted hash behind a prefix: injective here.
pseudonymizeHouseholdId(id) == IF id = NoId THEN NoId ELSE "household_hash_of_" \o id
pseudonymizeDeviceId(id)    == IF id = NoId THEN NoId ELSE "device_hash_of_" \o id

Rows == UNION {Range(Tables[t]) : t \in DOMAIN Tables}

RawIds == ({row.household_id : row \in Rows} \cup {row.device_id : row \in Rows}) \ {NoId}

ASSUME TablesAssumption ==
  /\ Range(Sections) \subseteq DOMAIN Tables
  /\ \A t \in DOMAIN Tables : Tables[t] \in Seq(Range(Tables[t]))

\* The hash of an identifier is not an identifier of the tables.
ASSUME PseudonymAssumption ==
  \A id \in RawIds : {pseudonymizeHouseholdId(id), pseudonymizeDeviceId(id)} \cap RawIds = {}

-----------------------------------------------------------------------------
\* The query of an export: the newest rows of the community, or of all, up to the limit.
EXPORT_HANDLERS(type, community, limit) ==
  LET table == Tables[type]
      found == {i \in DOMAIN table : community \in {NoId, table[i].community_id}}
      count == Cardinality(found)
  IN  [n \in 1..(IF count < limit THEN count ELSE limit) |->
         table[CHOOSE i \in found : Cardinality({j \in found : j < i}) = n - 1]]

getFullPipelineDemoSummary(community, limit) ==
  [type \in Range(Sections) |-> EXPORT_HANDLERS(type, community, limit)]

\* Grid signals and approvals name no household at all.  Only the columns that refer to
\* somebody are modelled: the free texts of a row (explanation, reason, correlation_id)
\* are copied as they are, with whatever their author wrote into them.
mapRow(type, row) ==
  IF type \in {"grid_signal_summary", "approval_audit_summary"}
  THEN [household_ref |-> NoId, device_ref |-> NoId]
  ELSE [household_ref |-> pseudonymizeHouseholdId(row.household_id),
        device_ref |-> pseudonymizeDeviceId(row.device_id)]

mapRows(type, rows, maxRecords) ==
  [i \in 1..(IF Len(rows) < maxRecords THEN Len(rows) ELSE maxRecords) |-> mapRow(type, rows[i])]

buildExportPayload(type, community, rows, maxRecords) ==
  LET data == mapRows(type, rows, normalizeRequestedLimit(maxRecords, maxRecords)) IN
  [export_type |-> type, community_id |-> community, record_count |-> Len(data), data |-> data]

\* takeSection: a section gets what the sections before it have left of the limit.
buildFullPipelineDemoPayload(community, rows, maxRecords) ==
  LET safeMax == normalizeRequestedLimit(maxRecords, maxRecords)
      data == FoldLeft(LAMBDA taken, type :
                         taken \o mapRows(type, rows[type], safeMax - Len(taken)),
                       <<>>, Sections)
  IN  [export_type |-> "full_pipeline_demo_summary", community_id |-> community,
       record_count |-> Len(data), data |-> data]

buildAuditPayload(payload, requester, assetId) ==
  [export_type |-> payload.export_type, asset_id |-> assetId, requester_id |-> requester,
   community_id |-> payload.community_id, record_count |-> payload.record_count]

\* The row holds the payload that was handed out as well.
buildAuditEvent(payload, requester, assetId) ==
  [audit_payload |-> buildAuditPayload(payload, requester, assetId), export_payload |-> payload]

buildCatalogMetadata == [catalog_id |-> "adflex-local-dataspace-catalog", assets |-> DOMAIN ASSETS]

\* What POST /dataspace/catalog/publish puts in its audit.
catalogAudit(requester) ==
  [export_type |-> "catalog_publish", asset_id |-> "catalog", requester_id |-> requester,
   community_id |-> "community-dublin-north",
   record_count |-> Cardinality(buildCatalogMetadata.assets)]
=============================================================================
