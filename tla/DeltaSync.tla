------------------------------ MODULE DeltaSync ------------------------------
(***************************************************************************)
(* The downlink: a handset pulls the events it is owed, page by page, from *)
(* the table that Ingestion writes.                                        *)
(*                                                                         *)
(* GET /v1/events?since= returns the first rows above the cursor           *)
(* (services/queries.py); DeltaApplier applies a page and advances the     *)
(* watermark in one Room transaction.  Several pulls may be under way: the *)
(* code that will call them is not written, and nothing excludes a second. *)
(***************************************************************************)
EXTENDS Ingestion

CONSTANTS
    Self,       \* the device_id of the handset that pulls
    Pulls,      \* its concurrent pulls
    PageLimit,  \* the limit of a page
    TypeForm    \* how a page writes an event's type: "name" or "code"

ASSUME DeltaAssumption ==
    /\ Self \in Devices
    /\ PageLimit \in Nat \ {0}
    /\ TypeForm \in {"name", "code"}

VARIABLES
    copy,   \* the handset's log: "none", "own" (server-set fields null) or "full"
    mark,   \* sync_state.last_applied_server_seq
    stage,  \* each pull: "idle", "asked" or "page" (the response is there)
    since,  \* the cursor it asked with
    page    \* the rows it was answered with

pullVars == <<stage, since, page>>
deltaVars == <<copy, mark, pullVars>>
allVars == <<vars, deltaVars>>

\* The handset has written its own events already; nothing was pulled yet.  A pull does
\* not see whether the answer to an upload left before its commit: one order is enough.
DeltaInit ==
    /\ IngestionInit
    /\ ~answerFirst
    /\ copy = [k \in Keys |-> IF DeviceOf(k) = Self THEN "own" ELSE "none"]
    /\ mark = 0
    /\ stage = [p \in Pulls |-> "idle"]
    /\ since = [p \in Pulls |-> 0]
    /\ page = [p \in Pulls |-> {}]

-----------------------------------------------------------------------------
\* The watermark is read and the request leaves.
Ask(p) ==
    /\ stage[p] = "idle"
    /\ stage' = [stage EXCEPT ![p] = "asked"]
    /\ since' = [since EXCEPT ![p] = mark]
    /\ UNCHANGED <<vars, copy, mark, page>>

\* WHERE server_seq > since, in a statement of its own.
Above(n) == {k \in Committed : row[k] > n}

\* ORDER BY server_seq LIMIT: the first rows of S.
FirstRows(S) == {k \in S : Cardinality({l \in S : row[l] < row[k]}) < PageLimit}

\* delta: the page is read and the response leaves.
ReadPage(p) ==
    /\ stage[p] = "asked"
    /\ page' = [page EXCEPT ![p] = FirstRows(Above(since[p]))]
    /\ stage' = [stage EXCEPT ![p] = "page"]
    /\ UNCHANGED <<vars, copy, mark, since>>

\* Mutant: the row that only tells whether there is more is counted in.
NextSince_OneTooMany(p) ==
    Max({since[p]} \cup {row[k] : k \in page[p]}
        \cup {row[k] : k \in FirstRows(Above(Max({since[p]} \cup {row[k] : k \in page[p]})))})

\* Mutant: the cursor stays while there is more.
NextSince_WaitsForTheLast(p) ==
    IF Cardinality(page[p]) = PageLimit THEN since[p]
    ELSE Max({since[p]} \cup {row[k] : k \in page[p]})

\* next_since: the last row of the page, or the cursor itself.
NextSince(p) == Max({since[p]} \cup {row[k] : k \in page[p]})

\* Mutant: the pull is over but its page is kept.
EndPull_KeepsPage(p) ==
    /\ stage' = [stage EXCEPT ![p] = "idle"]
    /\ UNCHANGED <<since, page>>

EndPull(p) ==
    /\ stage' = [stage EXCEPT ![p] = "idle"]
    /\ since' = [since EXCEPT ![p] = 0]
    /\ page' = [page EXCEPT ![p] = {}]

\* SyncStateDao.advanceTo: a lower value changes nothing.
AdvanceTo(n) == mark' = IF n > mark THEN n ELSE mark

\* EventDto.type is a number; the server writes names.
Decodable(p) == TypeForm = "code" \/ page[p] = {}

\* applyPage: the events, INSERT ... IGNORE, and the watermark, in one transaction.
ApplyPage(p) ==
    /\ stage[p] = "page"
    /\ Decodable(p)
    /\ copy' = [k \in Keys |-> IF k \in page[p] /\ copy[k] = "none" THEN "full" ELSE copy[k]]
    /\ AdvanceTo(NextSince(p))
    /\ EndPull(p)
    /\ UNCHANGED vars

\* The request or its answer is lost, the page does not decode, or the process dies.
AbandonPull(p) ==
    /\ stage[p] # "idle"
    /\ EndPull(p)
    /\ UNCHANGED <<vars, copy, mark>>

PullStep(p) == Ask(p) \/ ReadPage(p) \/ ApplyPage(p) \/ AbandonPull(p)

DeltaNext ==
    \/ \E p \in Pulls : PullStep(p)
    \/ IngestionNext /\ UNCHANGED deltaVars

DeltaSpec == DeltaInit /\ [][DeltaNext]_allVars

\* The handset pulls again and again, and not every answer is lost.
FairDeltaSpec ==
    /\ DeltaSpec
    /\ \A p \in Pulls :
          /\ WF_allVars(Ask(p))
          /\ SF_allVars(ReadPage(p))
          /\ SF_allVars(ApplyPage(p))

-----------------------------------------------------------------------------
DeltaTypeOK ==
    /\ copy \in [Keys -> {"none", "own", "full"}]
    /\ mark \in 0..identity
    /\ stage \in [Pulls -> {"idle", "asked", "page"}]
    /\ since \in [Pulls -> 0..identity]
    /\ \A p \in Pulls :
          /\ page[p] \subseteq Keys /\ Cardinality(page[p]) <= PageLimit
          /\ page[p] # {} => stage[p] = "page"

\* The watermark tells the truth: the handset holds every committed event at or below
\* it (DM-55; SyncState: "everything after it is owed to the device").
NoEventIsSkipped ==
    \A k \in Committed : row[k] <= mark => copy[k] # "none"

\* Every committed event reaches the handset (AD-12).
EveryEventIsPulled == \A k \in Keys : k \in Committed ~> copy[k] # "none"
=============================================================================
