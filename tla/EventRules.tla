------------------------------ MODULE EventRules ------------------------------
(***************************************************************************)
(* What the server takes for an event (domain/event.py, domain/payloads.py,*)
(* domain/enums.py, domain/validation.py, services/ingestion.py).          *)
(*                                                                         *)
(* An event is a record [device, seq, type, version, entity, subject,      *)
(* payload, t, responder, team, agency, incident]: subject is entity_id, t *)
(* is t_dev in seconds.  A payload is a function from the names of the     *)
(* fields it holds; free text and the coordinates of an origin are left    *)
(* out.                                                                    *)
(***************************************************************************)
EXTENDS Integers

\* domain/limits.py
MaxCells == 8191
MaxCellIndex == MaxCells - 1
MaxDeviceId == 4095
MaxDeviceSeq == 1048575
MaxTeamId == 255
MaxResponderId == 1023
MaxAgencyId == 15
MaxPersonCount == 63
MaxItemId == 255
QtyDeltas == -128..127
RelCoords == -32768..32767
CurrentSchemaVersion == 1

-----------------------------------------------------------------------------
\* EVENT_TYPE_CODE, whose keys are the EventType enum.
EventTypeCode == [
    INCIDENT_DECLARED |-> 1, GRID_GENERATED |-> 2, TEAM_REGISTERED |-> 3,
    DEVICE_ENROLLED |-> 4, ASSIGNMENT_ISSUED |-> 5, ASSIGNMENT_REVOKED |-> 6,
    CELL_STATUS_REPORTED |-> 7, SURVIVOR_REPORTED |-> 8, RESOURCE_DELTA_REPORTED |-> 9,
    POSITION_REPORTED |-> 10, TEAM_STATUS_REPORTED |-> 11]

EventType == DOMAIN EventTypeCode

EntityTypeFor == [
    INCIDENT_DECLARED |-> "INCIDENT", GRID_GENERATED |-> "GRID", TEAM_REGISTERED |-> "TEAM",
    DEVICE_ENROLLED |-> "DEVICE", ASSIGNMENT_ISSUED |-> "ASSIGNMENT",
    ASSIGNMENT_REVOKED |-> "ASSIGNMENT", CELL_STATUS_REPORTED |-> "CELL",
    SURVIVOR_REPORTED |-> "SURVIVOR", RESOURCE_DELTA_REPORTED |-> "RESOURCE",
    POSITION_REPORTED |-> "TEAM", TEAM_STATUS_REPORTED |-> "TEAM"]

CriticalTypes == {"SURVIVOR_REPORTED"}

\* PAYLOAD_MODEL: the fields a payload must hold, and those it may hold.
Required == [
    INCIDENT_DECLARED |-> {"started_at"}, GRID_GENERATED |-> {"rows", "cols", "cell_size_m", "bearing_deg"},
    TEAM_REGISTERED |-> {"team_id", "callsign", "agency_id"},
    DEVICE_ENROLLED |-> {"device_id", "team_id", "responder_id"},
    ASSIGNMENT_ISSUED |-> {"assignment_id", "team_id", "cell_ids"},
    ASSIGNMENT_REVOKED |-> {"assignment_id"}, CELL_STATUS_REPORTED |-> {"cell_index", "status"},
    SURVIVOR_REPORTED |-> {"cell_index", "person_count", "survivor_status"},
    RESOURCE_DELTA_REPORTED |-> {"item_id", "qty_delta"},
    POSITION_REPORTED |-> {"rel_lat", "rel_lon"}, TEAM_STATUS_REPORTED |-> {"team_status"}]

Optional(type) ==
    CASE type = "SURVIVOR_REPORTED" -> {"triage", "rel_lat", "rel_lon"}
      [] type = "POSITION_REPORTED" -> {"cell_index"}
      [] OTHER -> {}

CellStatuses == {"IN_PROGRESS", "SEARCHED", "NEEDS_RESEARCH"}
SurvivorStatuses == {"TRAPPED", "ACCESSIBLE", "EXTRICATED", "DECEASED"}
Triages == {"RED", "YELLOW", "GREEN", "BLACK"}
TeamStatuses == {"ACTIVE", "STANDBY", "OUT_OF_SERVICE"}

\* The bounds and enums of the payload models; the other fields are not bounded above.
FieldIsValid(name, v) ==
    CASE name = "cell_index" -> v \in 0..MaxCellIndex
      [] name = "cell_ids" -> v # {} /\ v \subseteq 0..MaxCellIndex
      [] name = "team_id" -> v \in 0..MaxTeamId
      [] name = "agency_id" -> v \in 0..MaxAgencyId
      [] name = "device_id" -> v \in 0..MaxDeviceId
      [] name = "responder_id" -> v \in 0..MaxResponderId
      [] name = "person_count" -> v \in 0..MaxPersonCount
      [] name = "item_id" -> v \in 0..MaxItemId
      [] name = "qty_delta" -> v \in QtyDeltas
      [] name \in {"rel_lat", "rel_lon"} -> v \in RelCoords
      [] name \in {"rows", "cols"} -> v \in 1..MaxCells
      [] name = "cell_size_m" -> v > 0
      [] name = "bearing_deg" -> v \in 0..359
      [] name = "assignment_id" -> v >= 0
      [] name = "status" -> v \in CellStatuses
      [] name = "survivor_status" -> v \in SurvivorStatuses
      [] name = "triage" -> v \in Triages
      [] name = "team_status" -> v \in TeamStatuses
      [] OTHER -> TRUE

\* Mutant: the fields that are there are checked, their presence is not.
PayloadMatchesType_Lenient(type, p) ==
    /\ DOMAIN p \subseteq Required[type] \cup Optional(type)
    /\ \A name \in DOMAIN p : FieldIsValid(name, p[name])
    /\ type = "GRID_GENERATED" => p.rows * p.cols <= MaxCells

\* _payload_matches_type: extra="forbid", and model_post_init of a grid.
PayloadMatchesType(type, p) ==
    /\ Required[type] \subseteq DOMAIN p
    /\ DOMAIN p \subseteq Required[type] \cup Optional(type)
    /\ \A name \in DOMAIN p : FieldIsValid(name, p[name])
    /\ type = "GRID_GENERATED" => p.rows * p.cols <= MaxCells

\* _ENTITY_ID_SOURCE: the subject that an event must name.
EntityIdSource(e) ==
    CASE e.type \in {"INCIDENT_DECLARED", "GRID_GENERATED"} -> e.incident
      [] e.type \in {"POSITION_REPORTED", "TEAM_STATUS_REPORTED"} -> e.team
      [] e.type = "TEAM_REGISTERED" -> e.payload.team_id
      [] e.type = "DEVICE_ENROLLED" -> e.payload.device_id
      [] e.type \in {"ASSIGNMENT_ISSUED", "ASSIGNMENT_REVOKED"} -> e.payload.assignment_id
      [] e.type = "CELL_STATUS_REPORTED" -> e.payload.cell_index
      [] e.type = "RESOURCE_DELTA_REPORTED" -> e.payload.item_id
      [] e.type = "SURVIVOR_REPORTED" -> 0

\* CanonicalEvent: the bounds of its fields and its three validators, in order.
IsCanonical(e) ==
    /\ e.device \in 0..MaxDeviceId /\ e.seq \in 0..MaxDeviceSeq
    /\ e.type \in EventType
    /\ e.responder \in 0..MaxResponderId /\ e.team \in 0..MaxTeamId
    /\ e.agency \in 0..MaxAgencyId /\ e.incident >= 0 /\ e.version >= 1
    /\ e.entity = EntityTypeFor[e.type]
    /\ PayloadMatchesType(e.type, e.payload)
    /\ e.subject = EntityIdSource(e)

\* parse_event, of an object that names a type: "ok", or the code it refuses with.
ParseEvent(raw) ==
    CASE raw.type \notin EventType -> "UNKNOWN_TYPE"
      [] raw.type \in EventType /\ raw.version > CurrentSchemaVersion -> "UNSUPPORTED_SCHEMA"
      [] OTHER -> IF IsCanonical(raw) THEN "ok" ELSE "INVALID_PAYLOAD"

-----------------------------------------------------------------------------
\* The severity partition of the codes.
CodeClass == [
    UNKNOWN_TYPE |-> "STRUCTURAL", UNSUPPORTED_SCHEMA |-> "STRUCTURAL",
    INVALID_PAYLOAD |-> "STRUCTURAL", ATTRIBUTION_MISMATCH |-> "SECURITY",
    WRONG_INCIDENT |-> "SECURITY", TYPE_NOT_PERMITTED |-> "SECURITY",
    SEQ_NOT_MONOTONIC |-> "SECURITY", UNKNOWN_CELL |-> "REFERENCE",
    UNAVAILABLE |-> "TRANSIENT"]

IsRetryable(code) == CodeClass[code] = "TRANSIENT"

\* AP-20: a reference error does not refuse a CRITICAL event.
MayPermanentlyReject(code, type) ==
    ~(type \in CriticalTypes /\ CodeClass[code] = "REFERENCE") /\ ~IsRetryable(code)

UnknownCell(e) ==
    /\ "cell_index" \in DOMAIN e.payload
    /\ e.payload.cell_index > MaxCellIndex

\* ingest_batch up to the order rule: "ok", or the code an event is refused with.  The
\* caller's incident is 0 where its credential has no scope.
Judge(raw, caller) ==
    IF ParseEvent(raw) # "ok" THEN ParseEvent(raw)
    ELSE IF UnknownCell(raw) /\ MayPermanentlyReject("UNKNOWN_CELL", raw.type) THEN "UNKNOWN_CELL"
    ELSE IF caller.role = "FIELD" /\ raw.device # caller.device THEN "ATTRIBUTION_MISMATCH"
    ELSE IF caller.incident \notin {0, raw.incident} THEN "WRONG_INCIDENT"
    ELSE "ok"
=============================================================================
