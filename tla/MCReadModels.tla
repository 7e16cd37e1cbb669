---------------------------- MODULE MCReadModels -----------------------------
(* Instances of ReadModels for TLC: one incident, the server and two handsets. *)
EXTENDS ReadModels

Symmetry == Permutations(Txns)

Event(device, seq, type, subject, payload) ==
    [device |-> device, seq |-> seq, type |-> type, version |-> 1,
     entity |-> IF type \in EventType THEN EntityTypeFor[type] ELSE "CELL",
     subject |-> subject, payload |-> payload, t |-> 100 + 10 * seq, responder |-> device,
     team |-> device, agency |-> 1, incident |-> 1, server_seq |-> 0]

Cell(device, seq, c, status) ==
    Event(device, seq, "CELL_STATUS_REPORTED", c, [cell_index |-> c, status |-> status])
Issued(seq, id, team, cells) ==
    Event(0, seq, "ASSIGNMENT_ISSUED", id, [assignment_id |-> id, team_id |-> team, cell_ids |-> cells])
Revoked(seq, id) == Event(0, seq, "ASSIGNMENT_REVOKED", id, [assignment_id |-> id])
Grid(seq, cols) ==
    Event(0, seq, "GRID_GENERATED", 1, [rows |-> 2, cols |-> cols, cell_size_m |-> 50, bearing_deg |-> 90])
Declared(seq) == Event(0, seq, "INCIDENT_DECLARED", 1, [started_at |-> 100])
Position(device, seq) == Event(device, seq, "POSITION_REPORTED", device, [rel_lat |-> 1, rel_lon |-> -1])
Stock(device, seq, qty) ==
    Event(device, seq, "RESOURCE_DELTA_REPORTED", 7, [item_id |-> 7, qty_delta |-> qty])
Status(device, seq, status) ==
    Event(device, seq, "TEAM_STATUS_REPORTED", device, [team_status |-> status])
Survivor(device, seq, c) ==
    Event(device, seq, "SURVIVOR_REPORTED", 0,
          [cell_index |-> c, person_count |-> 2, survivor_status |-> "TRAPPED",
           triage |-> "RED", rel_lat |-> -5, rel_lon |-> 5])
Registered(seq, id) ==
    Event(0, seq, "TEAM_REGISTERED", id, [team_id |-> id, callsign |-> "Alpha", agency_id |-> 1])

Upload(role, device, events) ==
    [caller |-> [role |-> role, device |-> device, incident |-> 1], events |-> events,
     candidates |-> {}, start |-> 0, batch |-> <<>>]
Server(e) == Upload("SERVER", 0, <<e>>)
Field(e) == Upload("FIELD", e.device, <<e>>)
\* What a gateway relays of a handset's candidates.
Relay(candidates, start) ==
    {[caller |-> [role |-> "GATEWAY", device |-> 2, incident |-> 1],
      events |-> events, candidates |-> candidates, start |-> start,
      batch |-> Pack(candidates, start, events)] : events \in {Included(candidates, start)}}

\* A cell that goes from one team to the other, and a revocation of the first assignment.
Assignments ==
    {Server(Issued(1, 1, 1, {0, 1})), Server(Issued(2, 2, 2, {0})), Server(Revoked(3, 1)),
     Field(Cell(1, 1, 1, "IN_PROGRESS"))}

\* Two teams search one cell, and one of them takes it back.
Searches ==
    {Field(Cell(1, 1, 0, "SEARCHED")), Field(Cell(2, 1, 0, "SEARCHED")),
     Field(Cell(2, 2, 0, "NEEDS_RESEARCH"))}

\* Cells around the end of the alphabet, and one that the grid does not have.
Grids ==
    {Server(Grid(1, 28)), Field(Cell(1, 1, 25, "SEARCHED")), Field(Cell(2, 1, 56, "IN_PROGRESS")),
     Server(Issued(2, 1, 1, {26, 27, 28}))}

Teams ==
    {Server(Registered(1, 1)),
     Upload("FIELD", 1, <<Status(1, 1, "ACTIVE"), Status(1, 2, "STANDBY")>>),
     Upload("FIELD", 2, <<Stock(2, 1, -3), Position(2, 2)>>)}

\* What is refused: by its type, schema, fields, subject, cell, device and incident.
Refused ==
    {Upload("FIELD", 1,
        <<[Cell(1, 1, 0, "SEARCHED") EXCEPT !.type = "SOS"],
          [Cell(1, 1, 0, "SEARCHED") EXCEPT !.version = 2],
          [Cell(1, 1, 0, "SEARCHED") EXCEPT !.payload = [cell_index |-> 0]]>>),
     Upload("FIELD", 1,
        <<[Cell(1, 1, 0, "SEARCHED") EXCEPT !.subject = 1],
          [Cell(1, 1, 0, "SEARCHED") EXCEPT !.incident = 2],
          Survivor(1, 1, 8191)>>),
     Upload("FIELD", 2, <<Cell(1, 1, 0, "SEARCHED"), Cell(2, 1, 0, "SEARCHED")>>)}

\* Relayed batches: whole; without their first candidate, or their last; for another epoch.
Relays ==
    {Server(Declared(1))}
    \cup Relay({Cell(1, 1, 0, "SEARCHED"), Status(1, 2, "ACTIVE"), Stock(1, 70, -128)}, 100)
    \cup Relay({Position(1, 1), Cell(1, 2, 0, "SEARCHED")}, 100)
    \cup Relay({Status(2, 1, "ACTIVE"), Survivor(2, 2, 3)}, 105)

\* Nine survivors with every field are one too many for an SMS.
FullBatch ==
    {Server(Declared(1))} \cup Relay({Survivor(1, n, n) : n \in 1..9}, 100)

AllTraffics == {Assignments, Searches, Grids, Teams, Refused, Relays, FullBatch}
=============================================================================
