------------------------------- MODULE SmsBatch -------------------------------
(***************************************************************************)
(* A batch that goes by SMS: what the handset packs (SmsBatchEncoder.kt,   *)
(* WireEventMapper.kt, SmsCodec.kt), and what the server packs again to    *)
(* verify it (services/batch_mac.py, codec/wire.py, codec/bitio.py).  The  *)
(* gateway between them, which unpacks the SMS and posts the events, is    *)
(* not part of the repository.                                             *)
(*                                                                         *)
(* A packed blob is the sequence of its fields <<value, width>>: widths    *)
(* are fixed by the type and the presence mask, so the bits and the fields *)
(* determine each other.  A MAC is what it was computed from: secrets are  *)
(* the device_ids, and no two inputs have one MAC.                         *)
(***************************************************************************)
EXTENDS Integers, SequencesExt, Collections, EventRules

\* The budget and the base fields of docs/09 section 6.6.
MaxBatchBits == 120 * 8
HeaderBits == 89
FixedOverheadBits == 68 + HeaderBits
MaxEventCount == 31
MaxSeqDelta == 63
MaxTDelta == 4095

SmsEligible ==
    {"CELL_STATUS_REPORTED", "SURVIVOR_REPORTED", "RESOURCE_DELTA_REPORTED", "TEAM_STATUS_REPORTED"}

\* The positional codes of the enums.
StatusCode == [IN_PROGRESS |-> 0, SEARCHED |-> 1, NEEDS_RESEARCH |-> 2]
SurvivorStatusCode == [TRAPPED |-> 0, ACCESSIBLE |-> 1, EXTRICATED |-> 2, DECEASED |-> 3]
TriageCode == [RED |-> 0, YELLOW |-> 1, GREEN |-> 2, BLACK |-> 3]
TeamStatusCode == [ACTIVE |-> 0, STANDBY |-> 1, OUT_OF_SERVICE |-> 2]

\* BitWriter.write: a value that does not fit is refused, never cut.
Fits(field) == 0 <= field[1] /\ field[1] < 2 ^ field[2]

\* BitWriter.write_signed: two's complement, where it fits.
Signed(v, width) ==
    <<IF v \in -(2 ^ (width - 1))..(2 ^ (width - 1) - 1) THEN v % 2 ^ width ELSE -1, width>>

Bits(fields) == FoldLeft(LAMBDA n, f : n + f[2], 0, fields)

-----------------------------------------------------------------------------
(* The codec, on both sides.                                               *)

When(p, name, field) == IF name \in DOMAIN p THEN <<field>> ELSE <<>>
Bit(p, name, weight) == IF name \in DOMAIN p THEN weight ELSE 0

\* The fields of each type after the prefix.
Layout(type, p, responder) ==
    CASE type = "CELL_STATUS_REPORTED" ->
            << <<p.cell_index, 13>>, <<StatusCode[p.status], 3>>, <<responder, 10>> >>
      [] type = "RESOURCE_DELTA_REPORTED" ->
            << <<p.item_id, 8>>, Signed(p.qty_delta, 8), <<responder, 10>> >>
      [] type = "TEAM_STATUS_REPORTED" ->
            << <<TeamStatusCode[p.team_status], 3>>, <<responder, 10>> >>
      [] type = "SURVIVOR_REPORTED" ->
            << <<Bit(p, "triage", 4) + Bit(p, "rel_lat", 2) + Bit(p, "rel_lon", 1), 3>>,
               <<p.cell_index, 13>>, <<p.person_count, 6>>,
               <<SurvivorStatusCode[p.survivor_status], 3>> >>
            \o When(p, "triage", <<TriageCode[p.triage], 3>>)
            \o When(p, "rel_lat", Signed(p.rel_lat, 16))
            \o When(p, "rel_lon", Signed(p.rel_lon, 16))
            \o << <<responder, 10>> >>

PackEvent(e, seqDelta, tDelta) ==
    << <<EventTypeCode[e.type], 4>>, <<seqDelta, 6>>, <<tDelta, 12>> >>
    \o Layout(e.type, e.payload, e.responder)

\* Mutant: the presence mask is not counted.
EventBits_NoMask(e) ==
    LET p == e.payload IN
    22 + CASE e.type = "CELL_STATUS_REPORTED" -> 13 + 3 + 10
           [] e.type = "RESOURCE_DELTA_REPORTED" -> 8 + 8 + 10
           [] e.type = "TEAM_STATUS_REPORTED" -> 3 + 10
           [] e.type = "SURVIVOR_REPORTED" ->
                13 + 6 + 3 + Bit(p, "triage", 3) + Bit(p, "rel_lat", 16) + Bit(p, "rel_lon", 16) + 10

\* event_bits: the size without packing.
EventBits(e) ==
    LET p == e.payload IN
    22 + CASE e.type = "CELL_STATUS_REPORTED" -> 13 + 3 + 10
           [] e.type = "RESOURCE_DELTA_REPORTED" -> 8 + 8 + 10
           [] e.type = "TEAM_STATUS_REPORTED" -> 3 + 10
           [] e.type = "SURVIVOR_REPORTED" ->
                3 + 13 + 6 + 3 + Bit(p, "triage", 3) + Bit(p, "rel_lat", 16) + Bit(p, "rel_lon", 16) + 10

\* What the events of a batch take out of the budget.
BudgetOf(events) == FoldLeft(LAMBDA n, e : n + EventBits(e), 0, events)

\* The header names the first event's device, team, agency, incident and schema.
PackHeader(first, baseSeq, baseT, count) ==
    << <<1, 4>>, <<first.device, 12>>, <<first.team, 8>>, <<first.agency, 4>>,
       <<first.incident, 12>>, <<first.version, 4>>, <<baseSeq, 20>>, <<baseT, 20>>, <<count, 5>> >>

\* encode_payload, of events in ascending seq: header || events.
EncodePayload(first, baseT, start, events) ==
    FoldLeft(LAMBDA fields, e : fields \o PackEvent(e, e.seq - first.seq, e.t - start - baseT),
             PackHeader(first, first.seq, baseT, Len(events)), events)

Mac(secret, fields) == <<secret, fields>>

BySeq(S) == Sorted([e \in S |-> e.seq])

-----------------------------------------------------------------------------
(* The handset.                                                            *)

BaseT(first, start) == Max({0, first.t - start})

\* toWire, seqDeltaOf and tDeltaOf: what makes an event stay PENDING.
HasWireForm(e, first, start) ==
    /\ e.type \in SmsEligible
    /\ Required[e.type] \subseteq DOMAIN e.payload
    /\ e.seq - first.seq \in 0..MaxSeqDelta
    /\ e.t - start - BaseT(first, start) \in 0..MaxTDelta

MayTake(events, e) ==
    /\ Len(events) < MaxEventCount
    /\ FixedOverheadBits + BudgetOf(Append(events, e)) <= MaxBatchBits

\* pack, the loop: the events that are included, greedily and in ascending seq.
Included(candidates, start) ==
    LET ordered == BySeq(candidates) IN
    FoldLeft(LAMBDA events, e : IF HasWireForm(e, ordered[1], start) /\ MayTake(events, e)
                                  THEN Append(events, e)
                                  ELSE events,
             <<>>, ordered)

\* pack, of what is included: the base is that of the first candidate, included or not.
Pack(candidates, start, events) ==
    LET first == BySeq(candidates)[1]
        fields == EncodePayload(first, BaseT(first, start), start, events)
    IN [origin |-> first.device, fields |-> fields, mac |-> Mac(first.device, fields), events |-> events]

\* pack raises otherwise: nothing is included, the epoch is too old, or a value has no
\* room in its field.
CanPack(batch) ==
    /\ batch.events # <<>>
    /\ \A i \in DOMAIN batch.fields : Fits(batch.fields[i])

-----------------------------------------------------------------------------
(* The server.                                                             *)

\* Mutant: the header takes the time of the last event.
VerifyGatewayBatch_LastTime(batch, start) ==
    LET ordered == batch.events
        baseT == ordered[Len(ordered)].t - start
        fields == EncodePayload(ordered[1], baseT, start, ordered)
    IN /\ baseT >= 0
       /\ \A i \in DOMAIN fields : Fits(fields[i])
       /\ Mac(batch.origin, fields) = batch.mac

\* verify_gateway_batch, once INCIDENT_DECLARED says when the incident started: the base
\* is that of the first event which was sent.
VerifyGatewayBatch(batch, start) ==
    LET ordered == batch.events
        baseT == ordered[1].t - start
        fields == EncodePayload(ordered[1], baseT, start, ordered)
    IN /\ ordered # <<>>
       /\ \A i \in DOMAIN ordered : ordered[i].type \in SmsEligible
       /\ baseT >= 0
       /\ \A i \in DOMAIN fields : Fits(fields[i])
       /\ Mac(batch.origin, fields) = batch.mac
=============================================================================
