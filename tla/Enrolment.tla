------------------------------ MODULE Enrolment ------------------------------
(***************************************************************************)
(* Enrolment beside the commander's requests: join codes, device_ids and   *)
(* the scope of a device's token (services/identity.py).                   *)
(*                                                                         *)
(* enrol() reads the code, computes the next device_id, inserts the        *)
(* credential, writes the uses of the code back and has the server write a *)
(* DEVICE_ENROLLED event: five statements of one transaction.  The event   *)
(* is all that scopes the token to a team and an incident.                 *)
(***************************************************************************)
EXTENDS CommandPost

CONSTANTS
    Codes,         \* the join codes that may be minted
    MaxUses,       \* the uses each one is minted with
    MaxDevice,     \* MAX_DEVICE_ID
    MaxResponder,  \* MAX_RESPONDER_ID: responder_id is the device_id for now (DM-53)
    NoCode         \* no join code

ASSUME EnrolmentAssumption ==
    /\ NoCode \notin Codes
    /\ {MaxUses, MaxDevice, MaxResponder} \subseteq Nat \ {0}

VARIABLES
    code,    \* each join code: [state, team, incident, uses]
    update,  \* the open UPDATE of its uses: [by, uses]
    device,  \* each device_id's credential: [state, by, code]
    read     \* what each enrolment has read: [code, uses, device]

enrolVars == <<code, update, device, read>>
allVars == <<vars, enrolVars>>

DeviceIds == 1..MaxDevice
NoUpdate == [by |-> NoTxn, uses |-> 0]
NoDevice == [state |-> "none", by |-> NoTxn, code |-> NoCode]
NothingRead == [code |-> NoCode, uses |-> 0, device |-> 0]

EnrolmentInit ==
    /\ CommandInit
    /\ code = [c \in Codes |-> [state |-> "none", team |-> NoTeam, incident |-> 0, uses |-> 0]]
    /\ update = [c \in Codes |-> NoUpdate]
    /\ device = [d \in DeviceIds |-> NoDevice]
    /\ read = [t \in Txns |-> NothingRead]

Enrolled == {d \in DeviceIds : device[d].state = "committed"}
EnrolledBy(c) == {d \in Enrolled : device[d].code = c}

-----------------------------------------------------------------------------
\* mint_join_code: of the commander's own incident, for any team.
MintJoinCode(c) ==
    /\ code[c].state = "none"
    /\ \E i \in session, team \in Teams :
          code' = [code EXCEPT ![c] = [@ EXCEPT !.state = "live", !.team = team, !.incident = i]]
    /\ UNCHANGED <<vars, update, device, read>>

CodeExpires(c) ==
    /\ code[c].state = "live"
    /\ code' = [code EXCEPT ![c].state = "expired"]
    /\ UNCHANGED <<vars, update, device, read>>

\* Mutant: the limit itself is allowed.
ReadJoinCode_OneMore(t) ==
    /\ \E c \in Codes :
          /\ code[c].state = "live" /\ code[c].uses <= MaxUses
          /\ Begin(t, [kind |-> "enrol", subject |-> 0, incident |-> code[c].incident,
                       team |-> code[c].team, cells |-> {}], "enrol")
          /\ read' = [read EXCEPT ![t] = [@ EXCEPT !.code = c, !.uses = code[c].uses]]
    /\ UNCHANGED <<commandVars, code, update, device>>

\* enrol: a code that is live and not used up.
ReadJoinCode(t) ==
    /\ \E c \in Codes :
          /\ code[c].state = "live" /\ code[c].uses < MaxUses
          /\ Begin(t, [kind |-> "enrol", subject |-> 0, incident |-> code[c].incident,
                       team |-> code[c].team, cells |-> {}], "enrol")
          /\ read' = [read EXCEPT ![t] = [@ EXCEPT !.code = c, !.uses = code[c].uses]]
    /\ UNCHANGED <<commandVars, code, update, device>>

\* _next_device_id, in a statement of its own.
NextDeviceId == 1 + Max({0} \cup Enrolled)

ReadNextDeviceId(t) ==
    /\ pc[t] = "enrol"
    /\ NextDeviceId <= MaxDevice
    /\ read' = [read EXCEPT ![t].device = NextDeviceId]
    /\ draft' = [draft EXCEPT ![t].subject = NextDeviceId]
    /\ pc' = [pc EXCEPT ![t] = "device"]
    /\ UNCHANGED <<tableVars, content, seq, number, history, commandVars, code, update, device>>

\* Mutant: device_id is not UNIQUE.
InsertCredential_NotUnique(t) ==
    /\ pc[t] = "device"
    /\ device' = [device EXCEPT ![read[t].device] =
          [state |-> "open", by |-> t, code |-> read[t].code]]
    /\ pc' = [pc EXCEPT ![t] = "credential"]
    /\ UNCHANGED <<tableVars, content, draft, seq, number, history, commandVars, code, update, read>>

\* The INSERT waits while another transaction holds the device_id, and fails once that one
\* is committed.
InsertCredential(t) ==
    /\ pc[t] = "device"
    /\ device[read[t].device].state = "none"
    /\ device' = [device EXCEPT ![read[t].device] =
          [state |-> "open", by |-> t, code |-> read[t].code]]
    /\ pc' = [pc EXCEPT ![t] = "credential"]
    /\ UNCHANGED <<tableVars, content, draft, seq, number, history, commandVars, code, update, read>>

\* UPDATE join_code SET uses = what was read plus one; the row is locked to the commit.
\* Above MAX_RESPONDER_ID the event that author() would build does not validate.
UpdateUses(t) ==
    LET c == read[t].code IN
    /\ pc[t] = "credential"
    /\ update[c].by = NoTxn
    /\ read[t].device <= MaxResponder
    /\ update' = [update EXCEPT ![c] = [by |-> t, uses |-> read[t].uses + 1]]
    /\ pc' = [pc EXCEPT ![t] = "author"]
    /\ UNCHANGED <<tableVars, content, draft, seq, number, history, commandVars, code, device, read>>

\* The transaction's credential and its UPDATE are released.
Release(t) ==
    /\ update' = [c \in Codes |-> IF update[c].by = t THEN NoUpdate ELSE update[c]]
    /\ read' = [read EXCEPT ![t] = NothingRead]

CommitEnrolment(t) ==
    /\ Commit(t)
    /\ device' = [d \in DeviceIds |-> IF device[d].by = t
          THEN [device[d] EXCEPT !.state = "committed", !.by = NoTxn] ELSE device[d]]
    /\ code' = [c \in Codes |-> IF update[c].by = t
          THEN [code[c] EXCEPT !.uses = update[c].uses] ELSE code[c]]
    /\ Release(t)

\* Mutant: the uses of a failed enrolment stay.
FailEnrolment_KeepsUses(t) ==
    /\ Fail(t)
    /\ device' = [d \in DeviceIds |-> IF device[d].by = t THEN NoDevice ELSE device[d]]
    /\ code' = [c \in Codes |-> IF update[c].by = t
          THEN [code[c] EXCEPT !.uses = update[c].uses] ELSE code[c]]
    /\ Release(t)

\* A refusal, an error (a device_id that is taken) or the death of the server.
FailEnrolment(t) ==
    /\ Fail(t)
    /\ device' = [d \in DeviceIds |-> IF device[d].by = t THEN NoDevice ELSE device[d]]
    /\ UNCHANGED code
    /\ Release(t)

EnrolStep(t) ==
    \/ ReadJoinCode(t)
    \/ ReadNextDeviceId(t)
    \/ InsertCredential(t)
    \/ UpdateUses(t)

EnrolmentNext ==
    \/ SessionStep /\ UNCHANGED enrolVars
    \/ \E c \in Codes : MintJoinCode(c) \/ CodeExpires(c)
    \/ \E t \in Txns :
          \/ CommandStep(t) /\ UNCHANGED enrolVars
          \/ EnrolStep(t)
          \/ CommitEnrolment(t)
          \/ FailEnrolment(t)

EnrolmentSpec == EnrolmentInit /\ [][EnrolmentNext]_allVars

-----------------------------------------------------------------------------
\* _device_enrolment: the events that scope a device's token, of which the last counts.
EnrolmentsOf(d) == {k \in OfKind(Committed, "enrol") : content[k].subject = d}

Scope(k) == [team |-> content[k].team, incident |-> content[k].incident]
CodeScope(c) == [team |-> code[c].team, incident |-> code[c].incident]

EnrolmentTypeOK ==
    /\ CommandTypeOK
    /\ \A c \in Codes :
          /\ code[c].state \in {"none", "live", "expired"}
          /\ code[c].uses \in 0..MaxUses
          /\ update[c].by # NoTxn => read[update[c].by].code = c
    /\ \A d \in DeviceIds : device[d].state = "open" => read[device[d].by].device = d
    /\ \A t \in Txns : read[t] # NothingRead => pc[t] # "idle"

\* Whatever the requests do to each other, no two handsets come to share a device_id, and
\* a token is never scoped to what its join code does not name: at most one DEVICE_ENROLLED
\* event means the device, with the code's team and incident; just one where the requests
\* came one after the other (_device_enrolment, enrol).
TokenScopeIsItsCodes ==
    /\ \A d \in Enrolled :
          /\ Cardinality(EnrolmentsOf(d)) <= 1
          /\ \A k \in EnrolmentsOf(d) : Scope(k) = CodeScope(device[d].code)
    /\ alone =>
          /\ \A d \in Enrolled : EnrolmentsOf(d) # {}
          /\ \A k \in OfKind(Committed, "enrol") : content[k].subject \in Enrolled

\* A code never turns a device away while it has uses left, however the enrolments overlap;
\* and those that come one after the other never use it more often than it allows
\* (enrol; docs/08 section 11.1a: max_uses "drives the 409 exhaustion case").
UsesAreCounted ==
    \A c \in Codes :
        /\ code[c].uses <= Cardinality(EnrolledBy(c))
        /\ alone => Cardinality(EnrolledBy(c)) <= MaxUses

-----------------------------------------------------------------------------
(* What the documents say and the code does not do.                        *)

\* docs/08 section 11.1: `incident` is "also emitted as INCIDENT_DECLARED".  The server can
\* anchor the SMS batches of every device it enrolled (batch_mac.incident_started_at).
EveryDeviceHasAnEpoch ==
    \A d \in Enrolled : \E k \in OfKind(Committed, "declare") :
        content[k].subject = code[device[d].code].incident
=============================================================================
