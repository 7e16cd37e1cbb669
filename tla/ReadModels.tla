------------------------------ MODULE ReadModels ------------------------------
(***************************************************************************)
(* The read side of the server over a log that is being written:           *)
(* snapshot, export and diagnostics (services/queries.py) and the rebuild  *)
(* of the read models (projections/rebuild.py), next to uploads that are   *)
(* judged by their content (EventRules), verified when a gateway relays    *)
(* them (SmsBatch), and appended (EventTable).                             *)
(*                                                                         *)
(* Every statement of a reader is a step of its own: under READ COMMITTED  *)
(* the second one sees what was committed after the first.                 *)
(***************************************************************************)
EXTENDS EventTable, Projection, GridCells, SmsBatch

CONSTANTS
    Incident,  \* the incident that is read
    Traffics,  \* what is sent: sets of uploads [caller, events, candidates,
               \* start, batch]: the last three are what a gateway relays and a handset packed
    NoUpload,  \* the upload of an idle writer
    NoEvent    \* the content of no row

\* Everything that may be sent, and the events in it.
Uploads == UNION Traffics
RawEvents == UNION {{u.events[i] : i \in DOMAIN u.events} : u \in Uploads}

\* What an upload says of an event is free; that it is an event object is not.
ASSUME ReadModelsAssumption ==
    /\ Incident \in Nat
    /\ NoUpload \notin Uploads /\ NoEvent \notin RawEvents
    /\ \A u \in Uploads : u.events \in Seq(RawEvents)
    /\ \A e \in RawEvents : {"type", "payload", "server_seq"} \subseteq DOMAIN e

\* Lengths are whole metres here, and bearings quarter turns.
ASSUME GridAssumption ==
    \A e \in RawEvents :
        e.type = "GRID_GENERATED" /\ {"cell_size_m", "bearing_deg"} \subseteq DOMAIN e.payload
        => e.payload.cell_size_m \in Int /\ e.payload.bearing_deg \in QuarterTurns

\* What a gateway relays of the candidates of a handset is what the handset packed of them,
\* its events of one counter.
ASSUME RelayAssumption ==
    \A u \in Uploads : u.candidates # {} =>
        /\ IsFiniteSet(u.candidates)
        /\ \A e \in u.candidates : e.seq \in Nat /\ e.t \in Int
        /\ \A e, f \in u.candidates : e.seq = f.seq => e = f
        /\ u.start \in Int
        /\ u.events = Included(u.candidates, u.start)
        /\ u.batch = Pack(u.candidates, u.start, u.events)

VARIABLES
    traffic,  \* the uploads that are still to arrive
    content,  \* the columns of each row, NoEvent where there is none
    writer,   \* each writing transaction: [upload, pos, highest, inserting]
    reader,   \* the reading one: [kind, stage, rows, number, projected, calm]
    models    \* the read models: [rows, watermark, calm]: what they were folded from

vars == <<tableVars, traffic, content, writer, reader, models>>

IdleWriter == [upload |-> NoUpload, pos |-> 1, highest |-> <<>>, inserting |-> FALSE]
IdleReader == [kind |-> "none", stage |-> "idle", rows |-> {}, number |-> 0,
               projected |-> 0, calm |-> TRUE]

ReadModelsInit ==
    /\ TableInit
    /\ traffic \in Traffics
    /\ content = [k \in Keys |-> NoEvent]
    /\ writer = [t \in Txns |-> IdleWriter]
    /\ reader = IdleReader
    /\ models = [rows |-> {}, watermark |-> 0, calm |-> TRUE]

\* _from_row of the rows in K: the events with their server_seqs.
EventsOf(K) == {[content[k] EXCEPT !.server_seq = row[k]] : k \in K}
Log == EventsOf(Committed)

HighestNumber(K) == Max({0} \cup {row[k] : k \in K})
Idle(t) == writer[t].upload = NoUpload
Calm == \A t \in Txns : Idle(t)

-----------------------------------------------------------------------------
(* Writing.                                                                *)

Declarations(E, i) == {e \in OfType(E, "INCIDENT_DECLARED") : e.incident = i}

\* incident_started_at: the first declaration in the log.
StartedAt(E, i) == Ordered(Declarations(E, i))[1].payload.started_at

\* verify_gateway_batch: a batch that is not verified is answered with 401 and not
\* evaluated at all.
IsVerified(u) ==
    u.caller.role = "GATEWAY" =>
        /\ Declarations(Log, u.events[1].incident) # {}
        /\ VerifyGatewayBatch(u.batch, StartedAt(Log, u.events[1].incident))

\* author: the server's own events are numbered one after the other (CommandPost has the
\* concurrent ones).
IsNumbered(u, t) == u.caller.role = "SERVER" => u.events[1].seq = HighestSeq(t, u.events[1].device) + 1

\* An upload arrives; a reader between two statements is not alone any more.
Arrive(t) ==
    /\ Idle(t)
    /\ \E u \in traffic :
          /\ IsVerified(u) /\ IsNumbered(u, t)
          /\ writer' = [writer EXCEPT ![t].upload = u]
          /\ traffic' = traffic \ {u}
    /\ reader' = [reader EXCEPT !.calm = @ /\ ~(reader.stage = "read" /\ reader.kind = "log")]
    /\ UNCHANGED <<tableVars, content, models>>

AtAnEvent(t) ==
    /\ ~Idle(t) /\ ~writer[t].inserting
    /\ writer[t].pos <= Len(writer[t].upload.events)

Raw(t) == writer[t].upload.events[writer[t].pos]

\* The dict `highest`, read once per device and batch.
HighestOf(t, d) ==
    IF d \in DOMAIN writer[t].highest THEN writer[t].highest[d] ELSE HighestSeq(t, d)

\* The server's own events are built by author(), which numbers and validates them.
IsAcceptable(t) ==
    /\ Judge(Raw(t), writer[t].upload.caller) = "ok"
    /\ writer[t].upload.caller.role = "SERVER" \/ Raw(t).seq >= HighestOf(t, Raw(t).device)

RejectEvent(t) ==
    /\ AtAnEvent(t)
    /\ ~IsAcceptable(t)
    /\ writer' = [writer EXCEPT ![t].pos = @ + 1]
    /\ UNCHANGED <<tableVars, traffic, content, reader, models>>

\* Devices and MaxSeq bound what the table of an instance can hold.
StartInsert(t) ==
    LET d == Raw(t).device IN
    /\ AtAnEvent(t)
    /\ IsAcceptable(t)
    /\ <<d, Raw(t).seq>> \in Keys
    /\ DrawServerSeq(t)
    /\ writer' = [writer EXCEPT
          ![t].inserting = TRUE,
          ![t].highest = (d :> Max({HighestOf(t, d), Raw(t).seq})) @@ @]
    /\ UNCHANGED <<traffic, content, reader, models>>

FinishInsert(t) ==
    LET k == <<Raw(t).device, Raw(t).seq>> IN
    /\ writer[t].inserting
    /\ InsertOrSkip(t, k)
    /\ content' = [content EXCEPT ![k] = IF row[k] = 0 THEN Raw(t) ELSE @]
    /\ writer' = [writer EXCEPT ![t].inserting = FALSE, ![t].pos = @ + 1]
    /\ UNCHANGED <<traffic, reader, models>>

CommitUpload(t) ==
    /\ ~Idle(t) /\ ~writer[t].inserting
    /\ writer[t].pos > Len(writer[t].upload.events)
    /\ CommitTable(t)
    /\ writer' = [writer EXCEPT ![t] = IdleWriter]
    /\ UNCHANGED <<traffic, content, reader, models>>

\* The transaction is rolled back, and the client sends the upload again.
FailUpload(t) ==
    /\ ~Idle(t)
    /\ RollbackTable(t)
    /\ content' = [k \in Keys |-> IF owner[k] = t THEN NoEvent ELSE content[k]]
    /\ traffic' = traffic \cup {writer[t].upload}
    /\ writer' = [writer EXCEPT ![t] = IdleWriter]
    /\ UNCHANGED <<reader, models>>

-----------------------------------------------------------------------------
(* Reading.                                                                *)

\* Mutant: read_since(1), as if the first number were included.
ReadLog_FromOne(kind) ==
    /\ reader.stage = "idle"
    /\ reader' = [IdleReader EXCEPT !.kind = kind, !.stage = "read",
                                    !.rows = {k \in Committed : row[k] > 1}, !.calm = Calm]
    /\ UNCHANGED <<tableVars, traffic, content, writer, models>>

\* The first statement: read_since(0), or count(*).  A snapshot and a rebuild make the
\* same two statements ("log"); the rebuild goes on with CommitRebuild.
ReadLog(kind) ==
    /\ reader.stage = "idle"
    /\ reader' = [IdleReader EXCEPT !.kind = kind, !.stage = "read",
                                    !.rows = Committed, !.calm = Calm]
    /\ UNCHANGED <<tableVars, traffic, content, writer, models>>

\* Mutant: the number counts rows of open transactions.
ReadMax_Dirty ==
    /\ reader.stage = "read"
    /\ reader' = [reader EXCEPT !.stage = "max", !.number = HighestNumber({k \in Keys : row[k] # 0})]
    /\ UNCHANGED <<tableVars, traffic, content, writer, models>>

\* max_server_seq, in a statement of its own.
ReadMax ==
    /\ reader.stage = "read"
    /\ reader' = [reader EXCEPT !.stage = "max", !.number = HighestNumber(Committed)]
    /\ UNCHANGED <<tableVars, traffic, content, writer, models>>

\* diagnostics: the watermark of the read models, in a third statement.
ReadWatermark ==
    /\ reader.stage = "max" /\ reader.kind = "diagnostics"
    /\ reader' = [reader EXCEPT !.stage = "watermark", !.projected = models.watermark]
    /\ UNCHANGED <<tableVars, traffic, content, writer, models>>

\* rebuild: the read models are cleared, written and committed together.  A second rebuild
\* that overlaps finds the rows it could not see to delete, and fails (EndRead).
CommitRebuild ==
    /\ reader.stage = "max" /\ reader.kind = "log"
    /\ models' = [rows |-> reader.rows, watermark |-> reader.number, calm |-> reader.calm]
    /\ reader' = IdleReader
    /\ UNCHANGED <<tableVars, traffic, content, writer>>

\* A whole rebuild of another client falls between two statements of diagnostics.
RebuildMeanwhile ==
    /\ reader.kind = "diagnostics" /\ reader.stage \in {"read", "max"}
    /\ models' = [rows |-> Committed, watermark |-> HighestNumber(Committed), calm |-> Calm]
    /\ reader' = [reader EXCEPT !.calm = FALSE]
    /\ UNCHANGED <<tableVars, traffic, content, writer>>

\* The response has left, or the reader failed.
EndRead ==
    /\ reader.stage # "idle"
    /\ reader' = IdleReader
    /\ UNCHANGED <<tableVars, traffic, content, writer, models>>

WriterStep(t) ==
    Arrive(t) \/ RejectEvent(t) \/ StartInsert(t) \/ FinishInsert(t) \/ CommitUpload(t) \/ FailUpload(t)

ReaderStep ==
    \/ \E kind \in {"log", "diagnostics"} : ReadLog(kind)
    \/ ReadMax \/ ReadWatermark \/ CommitRebuild \/ RebuildMeanwhile \/ EndRead

ReadModelsNext == (\E t \in Txns : WriterStep(t)) \/ ReaderStep

ReadModelsSpec == ReadModelsInit /\ [][ReadModelsNext]_vars

-----------------------------------------------------------------------------
(* What is answered.                                                       *)

Scoped(E) == {e \in E : e.incident = Incident}

\* _grid_for: the first grid in the log, if there is one.
GridFor(E) ==
    LET grids == OfType(Scoped(E), "GRID_GENERATED") IN
    {e.payload : e \in {f \in grids : \A h \in grids : f.server_seq <= h.server_seq}}

CellsOf(E) == {k[2] : k \in DOMAIN FoldCellState(Scoped(E))}

\* cell_label and cell_corners_local validate the index; GridError is not handled.
ExportFails(E) == \E g \in GridFor(E), c \in CellsOf(E) : ~IsValidCell(g, c)

\* export: a feature for each cell that is not untouched.
Export(E) ==
    IF ExportFails(E) THEN {}
    ELSE {[cell |-> c, label |-> CellLabel(g, c), corners |-> CellCorners(g, c)] :
            g \in GridFor(E), c \in CellsOf(E)}
-----------------------------------------------------------------------------
ReadModelsTypeOK ==
    /\ TableTypeOK
    /\ \A k \in Keys : row[k] = 0 <=> content[k] = NoEvent
    /\ \A t \in Txns : writer[t].inserting <=> drawn[t] # 0
    /\ models.rows \subseteq Committed
    /\ reader.stage \in {"idle", "read", "max", "watermark"}
    /\ reader.rows \subseteq Committed

\* A cursor that was read while nobody wrote never skips an event, whatever is written
\* later: the events of the snapshot, or of the rebuild, are all that will ever be at or
\* below it (snapshot: current_server_seq; rebuild: the watermark).
CalmCursorsAreComplete ==
    /\ reader.calm /\ reader.stage = "max" /\ reader.kind = "log" =>
          {k \in Committed : row[k] <= reader.number} \subseteq reader.rows
    /\ models.calm => {k \in Committed : row[k] <= models.watermark} \subseteq models.rows

\* The diagnostics add up: there are no more events than numbers, and the read models
\* are not ahead of the log unless a rebuild ended between the statements (diagnostics).
DiagnosticsAddUp ==
    reader.stage = "watermark" =>
        /\ Cardinality(reader.rows) <= reader.number
        /\ reader.calm => reader.projected <= reader.number

-----------------------------------------------------------------------------
(* The rules of docs/08 section 7.2, over the set of the committed events. *)

Latest(S) == CHOOSE e \in S : \A f \in S : f.server_seq <= e.server_seq

IssuesBefore(E, e) ==
    {f \in OfType(E, "ASSIGNMENT_ISSUED") :
        f.payload.assignment_id = e.payload.assignment_id /\ f.server_seq <= e.server_seq}

\* The issues and revocations that are about a cell.
About(E, k) ==
    {e \in OfType(E, "ASSIGNMENT_ISSUED") \cup OfType(E, "ASSIGNMENT_REVOKED") :
        /\ e.incident = k[1]
        /\ IssuesBefore(E, e) # {}
        /\ k[2] \in Latest(IssuesBefore(E, e)).payload.cell_ids}

HolderByRule(E, k) ==
    IF About(E, k) = {} \/ Latest(About(E, k)).type = "ASSIGNMENT_REVOKED" THEN NoTeam
    ELSE Latest(About(E, k)).payload.team_id

ReportsOn(E, k) == {e \in OfType(E, "CELL_STATUS_REPORTED") : CellKey(e) = k}

StatusByRule(E, k) ==
    IF ReportsOn(E, k) # {} THEN Latest(ReportsOn(E, k)).payload.status
    ELSE IF HolderByRule(E, k) # NoTeam THEN "ASSIGNED" ELSE "UNSEARCHED"

StatusesOf(E, team) == {e \in OfType(E, "TEAM_STATUS_REPORTED") : e.team = team}

\* What the folds compute one event after the other is what the rules say of the set:
\* a cell is what the latest report on it says, then what the latest issue or revocation
\* about it says; a team is in the state it reported last (folds.py rules 3, 4, 6).
FoldsFollowTheRules ==
    LET E == Scoped(Log)
        state == FoldCellState(E)
        teams == FoldTeamState(E)
    IN
    /\ \A k \in DOMAIN state \cup {<<Incident, c>> : c \in 0..2} :
          StatusByRule(E, k) = IF k \in DOMAIN state THEN state[k].status ELSE "UNSEARCHED"
    /\ \A k \in DOMAIN FoldAssignmentState(E) :
          HolderByRule(E, k) = FoldAssignmentState(E)[k].team
    /\ \A t \in DOMAIN teams : teams[t].status =
          IF StatusesOf(E, t) = {} THEN "None" ELSE Latest(StatusesOf(E, t)).payload.team_status

\* A duplicate search is never taken back: later reports, in any order of acceptance,
\* only add teams to it (fold_duplicate_search; DM-22).
DuplicatesAreKept ==
    [][\A k \in DOMAIN FoldDuplicateSearch(Log) :
          /\ k \in DOMAIN FoldDuplicateSearch(Log')
          /\ FoldDuplicateSearch(Log)[k] \subseteq FoldDuplicateSearch(Log')[k]]_vars

\* The counts of an incident add up to its grid, as long as nobody named a cell that the
\* grid does not have; then they add up to more (fold_coverage_metrics).
CoverageAddsUp ==
    \A c \in {FoldCoverageMetrics(Scoped(Log), i) : i \in {Incident}} :
        LET sum == CellsIn(c.counts, DOMAIN c.counts) + c.unsearched IN
        /\ sum >= c.total
        /\ CellsOf(Log) \subseteq 0..(c.total - 1) => sum = c.total

\* What the folds and the queries read of a payload.
ReadOf(type) ==
    CASE type = "INCIDENT_DECLARED" -> {"started_at"}
      [] type = "GRID_GENERATED" -> {"rows", "cols", "cell_size_m", "bearing_deg"}
      [] type = "TEAM_REGISTERED" -> {"team_id", "callsign", "agency_id"}
      [] type = "ASSIGNMENT_ISSUED" -> {"assignment_id", "team_id", "cell_ids"}
      [] type = "ASSIGNMENT_REVOKED" -> {"assignment_id"}
      [] type = "CELL_STATUS_REPORTED" -> {"cell_index", "status"}
      [] type = "SURVIVOR_REPORTED" -> {"cell_index", "person_count", "survivor_status"}
      [] type = "RESOURCE_DELTA_REPORTED" -> {"item_id", "qty_delta"}
      [] type = "POSITION_REPORTED" -> {"rel_lat", "rel_lon"}
      [] type = "TEAM_STATUS_REPORTED" -> {"team_status"}
      [] OTHER -> {}

\* One stored event that a fold cannot read would fail every snapshot, export, rebuild and
\* page from then on, for everyone: whoever sent it, none is stored, numbers being sent as
\* numbers (parse_event, folds.py).
CommittedEventsAreReadable ==
    \A e \in Log : e.type \in EventType /\ ReadOf(e.type) \subseteq DOMAIN e.payload

\* An export fails only when a report or an assignment names a cell that the published
\* grid does not have, and otherwise no two of its cells have one label or one corner in
\* the same place, and a label leads back to its cell (export, grid.py).
ExportNamesItsCells ==
    \A g \in GridFor(Log) :
        /\ ExportFails(Log) => \E c \in CellsOf(Log) : c >= g.rows * g.cols
        /\ \A f, h \in Export(Log) :
              /\ f.cell < g.rows * g.cols
              /\ CellIndexFromLabel(g, f.label) = f.cell
              /\ f # h => f.label # h.label /\ \A i \in 1..4 : f.corners[i] # h.corners[i]

-----------------------------------------------------------------------------
Relayed == {u \in traffic : u.candidates # {}}

\* A batch that a handset packed and a gateway relayed untouched is verified as soon as
\* the incident's declaration is in the log, provided the first candidate was packed: the
\* two sides take the base of the header from different events otherwise
\* (SmsBatchEncoder.pack, verify_gateway_batch).
HonestRelayIsVerified ==
    \A u \in Relayed :
        LET first == BySeq(u.candidates)[1] IN
        /\ Declarations(Log, first.incident) # {}
        /\ u.start = StartedAt(Log, first.incident)
        /\ CanPack(u.batch)
        /\ u.batch.events[1] = first
        => IsVerified(u)

\* What a handset packs fits one SMS, to the bit: the sizes it budgets with are those of
\* the codec (SmsBatchEncoder.pack, event_bits).
PackedBatchesFit ==
    \A u \in Relayed : CanPack(u.batch) =>
        /\ FixedOverheadBits - HeaderBits + Bits(u.batch.fields) <= MaxBatchBits
        /\ Bits(u.batch.fields) = HeaderBits + BudgetOf(u.batch.events)
        /\ Len(u.batch.events) <= MaxEventCount
=============================================================================
