------------------------------ MODULE Projection ------------------------------
(***************************************************************************)
(* The fold rules (projections/folds.py): what the server computes from a  *)
(* set of committed events, each with its server_seq.                      *)
(*                                                                         *)
(* The loops that depend on an order are folds over the events sorted by   *)
(* server_seq, as in the code; the others are set expressions.  Cells are  *)
(* keys <<incident, cell_index>>.  A state's last_server_seq is left out,  *)
(* and so are the fields that a fold only copies.                          *)
(***************************************************************************)
EXTENDS Integers, SequencesExt, Collections

CONSTANT NoTeam  \* None

\* _ordered: every committed event has a server_seq.
Ordered(E) == Sorted([e \in E |-> e.server_seq])

OfType(E, type) == {e \in E : e.type = type}
CellKey(e) == <<e.incident, e.payload.cell_index>>

-----------------------------------------------------------------------------
(* Rule 4: assignments.                                                    *)

Issue(s, e) ==
    LET keys == {<<e.incident, c>> : c \in e.payload.cell_ids} IN
    [cells |-> Put(s.cells, e.payload.assignment_id, keys),
     state |-> Update(s.state, [k \in keys |-> [team |-> e.payload.team_id,
                                                assignment |-> e.payload.assignment_id]])]

\* Mutant: the cells of a revoked assignment are forgotten, not freed.
Revoke_KeepsHolder(s, e) ==
    [s EXCEPT !.cells = Put(@, e.payload.assignment_id, {})]

\* Every cell the assignment was issued for, whoever holds it by now.
Revoke(s, e) ==
    LET aid == e.payload.assignment_id
        keys == IF aid \in DOMAIN s.cells THEN s.cells[aid] ELSE {}
    IN [s EXCEPT !.state = Update(@, [k \in keys |-> [team |-> NoTeam, assignment |-> aid]])]

Assign(s, e) ==
    CASE e.type = "ASSIGNMENT_ISSUED" -> Issue(s, e)
      [] e.type = "ASSIGNMENT_REVOKED" -> Revoke(s, e)
      [] OTHER -> s

FoldAssignmentState(E) ==
    FoldLeft(Assign, [cells |-> <<>>, state |-> <<>>], Ordered(E)).state

-----------------------------------------------------------------------------
(* Rules 6 and 1: cell status and duplicate searches.                      *)

Report(f, e) == Put(f, CellKey(e), [status |-> e.payload.status, team |-> e.team])

LatestReports(E) == FoldLeft(Report, <<>>, Ordered(OfType(E, "CELL_STATUS_REPORTED")))

\* A report counts before an assignment, however much older it is.
FoldCellState(E) ==
    LET held == FoldAssignmentState(E)
        live == {k \in DOMAIN held : held[k].team # NoTeam}
    IN Update([k \in live |-> [status |-> "ASSIGNED", team |-> held[k].team]], LatestReports(E))

\* Mutant: a team that reports something else later is taken back.
Searchers_Latest(E, key) ==
    LET reports == {e \in OfType(E, "CELL_STATUS_REPORTED") : CellKey(e) = key} IN
    {e.team : e \in {r \in reports : /\ r.payload.status = "SEARCHED"
                                    /\ \A f \in reports : f.team = r.team => f.server_seq <= r.server_seq}}

Searchers(E, key) ==
    {e.team : e \in {r \in OfType(E, "CELL_STATUS_REPORTED") :
                        CellKey(r) = key /\ r.payload.status = "SEARCHED"}}

FoldDuplicateSearch(E) ==
    LET keys == {CellKey(e) : e \in OfType(E, "CELL_STATUS_REPORTED")} IN
    [key \in {k \in keys : Cardinality(Searchers(E, k)) >= 2} |-> Searchers(E, key)]

-----------------------------------------------------------------------------
(* Rules 3, 2 and 5, and the positions.                                    *)

Team(f, id) == IF id \in DOMAIN f THEN f[id] ELSE [callsign |-> "None", status |-> "None"]

Tell(f, e) ==
    CASE e.type = "TEAM_REGISTERED" ->
           LET id == e.payload.team_id IN
           Put(f, id, [Team(f, id) EXCEPT !.callsign = e.payload.callsign])
      [] e.type = "TEAM_STATUS_REPORTED" ->
           Put(f, e.team, [Team(f, e.team) EXCEPT !.status = e.payload.team_status])
      [] OTHER -> f

FoldTeamState(E) == FoldLeft(Tell, <<>>, Ordered(E))

FoldTeamPosition(E) ==
    FoldLeft(LAMBDA f, e : Put(f, e.team, <<e.payload.rel_lat, e.payload.rel_lon>>),
             <<>>, Ordered(OfType(E, "POSITION_REPORTED")))

\* Not clamped: a negative total is information.
FoldResourceStock(E) ==
    LET deltas == OfType(E, "RESOURCE_DELTA_REPORTED")
        keys == {<<e.team, e.payload.item_id>> : e \in deltas}
    IN [key \in keys |->
           MapThenSumSet(LAMBDA e : e.payload.qty_delta,
                         {e \in deltas : <<e.team, e.payload.item_id>> = key})]

\* The full set, never deduplicated, in the order of the server_seqs.
FoldSurvivorReports(E) == Ordered(OfType(E, "SURVIVOR_REPORTED"))

-----------------------------------------------------------------------------
(* AP-24: coverage.                                                        *)

\* The last grid of the incident, 0 without one.
GridTotal(E, i) ==
    FoldLeft(LAMBDA n, e : IF e.incident = i THEN e.payload.rows * e.payload.cols ELSE n,
             0, Ordered(OfType(E, "GRID_GENERATED")))

\* cells_<status>, for the statuses that are not the rest.
Counts(E, i) ==
    LET state == FoldCellState(E) IN
    [status \in {"SEARCHED", "IN_PROGRESS", "NEEDS_RESEARCH", "ASSIGNED"} |->
        Cardinality({k \in DOMAIN state : k[1] = i /\ state[k].status = status})]

CellsIn(counts, statuses) == MapThenSumSet(LAMBDA s : counts[s], statuses)

\* Mutant: an assigned cell is counted as unsearched too.
Unsearched_IgnoresAssigned(total, counts) ==
    Max({0, total - CellsIn(counts, {"SEARCHED", "IN_PROGRESS", "NEEDS_RESEARCH"})})

\* max(..., 0): cells that the grid does not have may be counted.
Unsearched(total, counts) == Max({0, total - CellsIn(counts, DOMAIN counts)})

FoldCoverageMetrics(E, i) ==
    LET total == GridTotal(E, i)
        counts == Counts(E, i)
    IN [total |-> total, counts |-> counts, unsearched |-> Unsearched(total, counts)]

FoldAll(E, i) ==
    [cell_state |-> FoldCellState(E), duplicate_search |-> FoldDuplicateSearch(E),
     assignment_state |-> FoldAssignmentState(E), team_state |-> FoldTeamState(E),
     team_position |-> FoldTeamPosition(E), resource_stock |-> FoldResourceStock(E),
     survivor_reports |-> FoldSurvivorReports(E), coverage_metrics |-> FoldCoverageMetrics(E, i)]
=============================================================================
