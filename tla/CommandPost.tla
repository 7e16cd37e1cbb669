---------------------------- MODULE CommandPost -----------------------------
(***************************************************************************)
(* The commander's requests: declare an incident, publish its grid,        *)
(* register a team, issue and revoke assignments (services/incidents.py,   *)
(* services/assignments.py), each one a transaction that reads what is     *)
(* there and then has the server write an event.  A request needs the      *)
(* session of a commander, and a session needs an incident with a          *)
(* password: only bootstrap.py stores one.                                 *)
(***************************************************************************)
EXTENDS ServerAuthoring

CONSTANTS
    MaxIncident,  \* the incident_ids that may be drawn
    Teams,        \* the team_ids
    NoTeam,       \* nobody
    Cells,        \* the cell indices of a grid
    Wishes        \* what the requests ask the server to write

Kinds == {"declare", "grid", "team", "assign", "revoke"}

\* The events that the server writes, to what the requests tell apart: `subject` is the
\* incident, team, assignment or device that the event is about.
Events(kinds) ==
    [kind : kinds, subject : Nat, incident : Nat, team : Teams \cup {NoTeam}, cells : SUBSET Cells]

ASSUME CommandAssumption ==
    /\ MaxIncident \in Nat \ {0}
    /\ NoTeam \notin Teams
    /\ Wishes \subseteq Events(Kinds)
    /\ NoEvent \notin Events(Kinds \cup {"enrol"})

VARIABLES
    declared,  \* the incident table: "none", "open" or "committed" for each id
    declarer,  \* the transaction that inserted it, NoTxn where there is none
    lastId,    \* the last incident_id drawn
    session,   \* the incidents whose commander holds a valid token
    held       \* the other holders that an assignment request has found

incidentVars == <<declared, declarer, lastId, session>>
commandVars == <<incidentVars, held>>
vars == <<tableVars, authorVars, commandVars>>

Incidents == 1..MaxIncident
Bootstrapped == 1  \* the first incident_id drawn

CommandInit ==
    /\ AuthoringInit
    /\ declared = [i \in Incidents |-> "none"]
    /\ declarer = [i \in Incidents |-> NoTxn]
    /\ lastId = 0
    /\ session = {}
    /\ held = [t \in Txns |-> {}]

-----------------------------------------------------------------------------
(* What a transaction reads.                                               *)

OfKind(V, kind) == {k \in V : content[k] # NoEvent /\ content[k].kind = kind}

Latest(S) == CHOOSE k \in S : \A l \in S : row[l] <= row[k]

\* cells_of_assignment at event k: those of the last issue of its assignment_id so far.
IssueOf(V, k) ==
    Latest({j \in OfKind(V, "assign") :
                content[j].subject = content[k].subject /\ row[j] <= row[k]})

\* The events that fold_assignment_state applies to a cell.
Touching(V, i, c) ==
    {k \in OfKind(V, "assign") \cup OfKind(V, "revoke") :
        LET issue == content[IssueOf(V, k)] IN issue.incident = i /\ c \in issue.cells}

\* fold_assignment_state: the last of them by server_seq says who holds the cell.
Holder(V, i, c) ==
    LET T == Touching(V, i, c) IN
    IF T = {} \/ content[Latest(T)].kind = "revoke" THEN NoTeam
    ELSE content[Latest(T)].team

OtherHolders(V, e) ==
    {<<c, Holder(V, e.incident, c)>> :
        c \in {d \in e.cells : Holder(V, e.incident, d) \notin {NoTeam, e.team}}}

-----------------------------------------------------------------------------
(* Incidents and sessions.                                                 *)

\* bootstrap.py, on an empty deployment: an incident with a password, and no event.
Bootstrap ==
    /\ lastId = 0
    /\ lastId' = Bootstrapped
    /\ declared' = [declared EXCEPT ![Bootstrapped] = "committed"]
    /\ UNCHANGED <<tableVars, authorVars, declarer, session, held>>

\* open_session: an incident whose password_hash is NULL authenticates nobody.
OpenSession ==
    /\ declared[Bootstrapped] = "committed"
    /\ session = {}
    /\ session' = {Bootstrapped}
    /\ UNCHANGED <<tableVars, authorVars, declared, declarer, lastId, held>>

\* is_expired: the token is refused from now on.
SessionExpires ==
    /\ session # {}
    /\ session' = {}
    /\ UNCHANGED <<tableVars, authorVars, declared, declarer, lastId, held>>

\* require_session, and require_incident_membership.
Commander == session # {}
Member(i) == i \in session

\* declare_incident: the incident row and its id.
InsertIncident(t) ==
    /\ Commander
    /\ lastId < MaxIncident
    /\ lastId' = lastId + 1
    /\ \E w \in Wishes :
          /\ w.kind = "declare"
          /\ Begin(t, [w EXCEPT !.subject = lastId', !.incident = lastId'], "author")
    /\ declared' = [declared EXCEPT ![lastId'] = "open"]
    /\ declarer' = [declarer EXCEPT ![lastId'] = t]
    /\ UNCHANGED <<session, held>>

\* register_team: the incident exists.
RegisterTeam(t) ==
    /\ Commander
    /\ \E w \in Wishes :
          /\ w.kind = "team"
          /\ declared[w.incident] = "committed"
          /\ Begin(t, w, "author")
    /\ UNCHANGED commandVars

\* generate_grid: the incident exists and has no grid yet.
GenerateGrid(t) ==
    /\ \E w \in Wishes :
          /\ w.kind = "grid"
          /\ Member(w.incident)
          /\ declared[w.incident] = "committed"
          /\ \A k \in OfKind(Visible(t), "grid") : content[k].incident # w.incident
          /\ Begin(t, w, "author")
    /\ UNCHANGED commandVars

\* Mutant: the comparison with the requesting team is turned round.
FindHolders_OwnTeam(t) ==
    /\ \E w \in Wishes :
          /\ w.kind = "assign"
          /\ Member(w.incident)
          /\ Begin(t, w, "held")
          /\ held' = [held EXCEPT ![t] =
                {<<c, w.team>> : c \in {d \in w.cells :
                    Holder(Visible(t), w.incident, d) = w.team}}]
    /\ UNCHANGED incidentVars

\* issue: who holds the cells.
FindHolders(t) ==
    /\ \E w \in Wishes :
          /\ w.kind = "assign"
          /\ Member(w.incident)
          /\ Begin(t, w, "held")
          /\ held' = [held EXCEPT ![t] = OtherHolders(Visible(t), w)]
    /\ UNCHANGED incidentVars

\* Mutant: the type code of the WHERE clause is that of a revocation.
NextAssignmentId_OfRevoked(t) ==
    1 + Max({0} \cup {content[k].subject : k \in OfKind(Visible(t), "revoke")})

NextAssignmentId(t) ==
    1 + Max({0} \cup {content[k].subject : k \in OfKind(Visible(t), "assign")})

\* _next_assignment_id, in a statement of its own.
ReadNextAssignmentId(t) ==
    /\ pc[t] = "held"
    /\ draft' = [draft EXCEPT ![t].subject = NextAssignmentId(t)]
    /\ pc' = [pc EXCEPT ![t] = "author"]
    /\ UNCHANGED <<tableVars, content, seq, number, history, commandVars>>

\* revoke: the assignment was issued; its first issue gives the incident.
RevokeAssignment(t) ==
    /\ Commander
    /\ \E w \in Wishes :
          LET issued == {k \in OfKind(Visible(t), "assign") : content[k].subject = w.subject}
              first == CHOOSE k \in issued : \A l \in issued : row[k] <= row[l]
          IN
          /\ w.kind = "revoke"
          /\ issued # {}
          /\ Begin(t, [w EXCEPT !.incident = content[first].incident], "author")
    /\ UNCHANGED commandVars

\* The transaction's incident row is committed, or is gone.
CloseIncident(t, fate) ==
    /\ declared' = [i \in Incidents |-> IF declarer[i] = t THEN fate ELSE declared[i]]
    /\ declarer' = [i \in Incidents |-> IF declarer[i] = t THEN NoTxn ELSE declarer[i]]
    /\ held' = [held EXCEPT ![t] = {}]
    /\ UNCHANGED <<lastId, session>>

Commit(t) ==
    /\ CommitAuthored(t, held[t])
    /\ CloseIncident(t, "committed")

\* Mutant: the incident row is committed on its own.
Fail_KeepsIncident(t) ==
    /\ FailAuthoring(t)
    /\ CloseIncident(t, "committed")

Fail(t) ==
    /\ FailAuthoring(t)
    /\ CloseIncident(t, "none")

CommandStep(t) ==
    \/ InsertIncident(t)
    \/ RegisterTeam(t)
    \/ GenerateGrid(t)
    \/ FindHolders(t)
    \/ ReadNextAssignmentId(t)
    \/ RevokeAssignment(t)
    \/ AuthorStep(t) /\ UNCHANGED commandVars

SessionStep == Bootstrap \/ OpenSession \/ SessionExpires

CommandNext ==
    \/ SessionStep
    \/ \E t \in Txns : CommandStep(t) \/ Commit(t) \/ Fail(t)

CommandSpec == CommandInit /\ [][CommandNext]_vars

-----------------------------------------------------------------------------
CommandTypeOK ==
    /\ TableTypeOK
    /\ pc \in [Txns -> {"idle", "held", "enrol", "device", "credential",
                     "author", "numbered", "insert", "written"}]
    /\ seq \in [Txns -> 0..MaxSeq]
    /\ lastId \in 0..MaxIncident
    /\ \A i \in Incidents :
          /\ declared[i] = "open" <=> declarer[i] # NoTxn
          /\ declared[i] # "none" => i <= lastId
    /\ \A k \in Keys : row[k] = 0 <=> content[k] = NoEvent

\* A declared incident has its INCIDENT_DECLARED event, and the event its incident: the
\* log alone rebuilds it (declare_incident).
DeclaredIncidentHasItsEvent ==
    alone => \A i \in Incidents \ {Bootstrapped} :
        declared[i] = "committed" <=> \E k \in OfKind(Committed, "declare") : content[k].subject = i

\* The log has one reading: an incident has one grid at most, which is what makes a cell
\* index mean one cell (FR-205), and no two assignments have one id, so that a revocation
\* means one of them (generate_grid, _next_assignment_id).
LogHasOneReading ==
    alone =>
        /\ \A k, l \in OfKind(Committed, "grid") :
              content[k].incident = content[l].incident => k = l
        /\ \A k, l \in OfKind(Committed, "assign") :
              content[k].subject = content[l].subject => k = l

\* A 201 for an assignment names every other team that held one of its cells when the
\* assignment took its place in the log (FR-303, AP-03).
CollisionIsSurfaced ==
    alone => \A a \in {b \in answered : b.event.kind = "assign"} :
        OtherHolders({k \in Committed : row[k] < a.number}, a.event) \subseteq a.held
=============================================================================
