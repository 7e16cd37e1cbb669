# RescueNet-AI: formal model

TLA+ modules for the core of RescueNet-AI: how an event written by a responder in the field
becomes a row of the server's event log, how the log comes back to the handsets, how the
commander's own requests and the devices that enrol enter the same log, and what the server
computes from it. TLC checks the modules on small instances; TLAPS proves for every size every
safety property that the passing runs check. Liveness is model-checked only.

Every definition translates the source under `src/`; `PROJECT.json` names, for each one, the
file and the lines it stands for.

## 1. The system

| Part | Source (under `src/`) | State | Operations |
|---|---|---|---|
| Handset store and outbox | `mobile/.../field/store/` | `seq_counter`, `event`, `outbox` (Room) | `LocalEventStore.appendAuthored`, the queries and guarded updates of `OutboxDao` |
| Uplink drain | `mobile/.../field/sync/SyncEngine.kt`, `OutboxEngine.kt` | the batch and the answer in memory | `onStart`, `drainOnce`, `applyVerdict`, `applyRequestFailure` |
| Transports | `mobile/.../field/transport/` | none | `send`, selection of internet or SMS |
| SMS codec, batch MAC | `mobile/.../field/codec/`, `backend/.../codec/`, `services/batch_mac.py` | none | pack, authenticate, verify |
| Ingestion | `backend/.../services/ingestion.py`, `api/v1.py`, `api/deps.py` | one database transaction per request | `POST /v1/events`: `ingest_batch` |
| Event store | `backend/.../store/events.py`, `migrations/` | `event` with its identity column `server_seq` | `append`, `read_since`, `max_server_seq` |
| Delta sync | `backend/.../services/queries.py`, `mobile/.../sync/DeltaApplier.kt` | `sync_state.last_applied_server_seq` | `GET /v1/events?since=`, `applyPage` |
| Server authoring | `backend/.../services/server_events.py`, `incidents.py`, `assignments.py` | `incident`; everything else is in the log | `declare_incident`, `generate_grid`, `register_team`, `issue`, `revoke`, all through `author` |
| Enrolment and sessions | `backend/.../services/identity.py`, `credentials.py`, `bootstrap.py` | `device_credential`, `join_code`, tokens | `mint_join_code`, `enrol`, `open_session`, `resolve_token` |
| Projections | `backend/.../projections/`, `services/queries.py` | read models, rebuilt from the log | eight folds, snapshot, export, diagnostics, rebuild |
| Domain rules | `backend/.../domain/` | none | `parse_event`, the payload models, `Grid` |
| Dashboard, broker, wiring | `dashboard/`, `backend/.../mqtt`, `config/`, `app.py` | none | placeholders and set-up |

How they interact:

    responder --write--> outbox ==drainOnce==> POST /v1/events --> ingest_batch --append--> event table
                            ^                                            |                      ^  |
                            +----- verdict per event, or a failure ------+          author() ---+  |
                                                                                    ^              |
    handset log <--applyPage-- GET /v1/events?since=  <----- committed rows --------|------+-------+
                                                                                    |      |
              commander's requests (incidents, grids, teams, assignments), enrolment       |
                                                                                           v
                        snapshot, export, diagnostics, rebuild  <---- folds over all committed events

The parts share no memory. Handset and server exchange HTTP requests; the server's requests
meet only in PostgreSQL, at READ COMMITTED, one transaction per request (`api/deps.py`). Within
the handset, coroutines interleave at every suspension point: each DAO call is one transaction.

What is hard here, and what must hold all the same:

- **A drain is five steps** (select, send, mark, answer, apply), and writes, pruning, a second
  drain and a process death fit between any two of them. No settled row may move again, only an
  answer about that very row may settle it, and nothing may be left behind.
- **The network loses, delays and repeats.** A request the handset has given up is still
  evaluated. What the handset holds to be delivered must be on the server.
- **The server refuses events that come out of order, and the client sends them out of order**
  (CRITICAL first, backoff per row). What is refused then, and why?
- **Requests overlap in the database.** Numbers are drawn in one order and become visible in
  another; reads and the writes they justify are separate statements; inserts wait for each other.
- **A response and its commit** are two steps.
- **Watermarks and cursors** are promises about rows that may not be visible yet: that of the
  downlink, that of a snapshot, that of the read models.
- **The server's own events** and the **device ids** are numbered with `max + 1`, without a lock,
  and the **uses of a join code** are read, compared and written back.
- **One stored event is read by everyone**: what parsing lets through, every fold must be able
  to read, and the folds must agree with the rules whatever the order of acceptance.
- **Two codecs**, in Kotlin and in Python, must agree to the bit: a MAC is computed on both sides.

## 2. The modules

| Module | Models | Composes |
|---|---|---|
| `Outbox` | the handset, against any other end | |
| `FieldSync` | handset, network and server together | extends `Outbox` |
| `EventTable` | the event table under concurrent transactions | |
| `EventLog` | what the event store promises (abstract) | |
| `Ingestion` | `POST /v1/events`, statement by statement | extends `EventTable`, `Collections`, implements `EventLog` |
| `DeltaSync` | the downlink over the table that `Ingestion` writes | extends `Ingestion` |
| `ServerAuthoring` | `author()` and `next_server_seq` | extends `EventTable` |
| `CommandPost` | bootstrap, sessions, the commander's requests | extends `ServerAuthoring` |
| `Enrolment` | join codes and enrolment beside them | extends `CommandPost` |
| `EventRules` | what is an event: `parse_event`, payload models, codes (pure) | |
| `GridCells` | indices, corners and labels of cells (pure) | extends `EventRules` |
| `Collections` | sorted lists and dicts, as the loops of the code use them (pure) | |
| `Projection` | the eight folds (pure) | extends `Collections` |
| `SmsBatch` | packing an SMS batch, and verifying it (pure) | extends `Collections`, `EventRules` |
| `ReadModels` | uploads with contents, and the readers of the log | extends `EventTable` and the four above |
| `FieldSyncProofs` | theorems about `Outbox` and `FieldSync`, the handset and its uplink | extends `FieldSync`, `DataLemmas` |
| `DataLemmas` | lemmas: least and greatest numbers, sizes of finite sets, sorted lists, loops and sums over a list, recursion to smaller numbers | extends `Collections` |
| `EventTableProofs` | the table's invariant, what a step does to committed rows, the refinement mapping to `EventLog` | extends `EventTable`, `DataLemmas` |
| `DeltaSyncProofs` | theorems about `Ingestion` and `DeltaSync`, the two directions of the server's API | extends `DeltaSync`, `EventTableProofs` |
| `EnrolmentProofs` | theorems about `ServerAuthoring`, `CommandPost` and `Enrolment` | extends `EventTableProofs` |
| `ReadModelsProofs` | theorems about the read side | extends `EventTableProofs` |
| `FoldProofs` | theorems about what the folds compute, for every log | extends `ReadModelsProofs` |
| `CodecProofs` | theorems about `GridCells` and `SmsBatch`, for every grid and every batch | extends `FoldProofs` |
| `MC*` | instances for TLC | |

Definitions whose comment begins with *Mutant* belong to no specification. Each is a form that a
plausible mistake would give the definition after it; `PROJECT.json` pairs it with the property
that finds it.

### Outbox

`rowState`, `attempts`, `asleep` and `queuedAt` are the columns of the `outbox` table (a
`next_attempt_at` in the future puts a row to sleep), `tier` is the event's priority in the
`event` table, `nextSeq` the counter. They survive `Crash`; `pc`, `batch` and `outcome`, the
local variables of each running `drainOnce`, do not. `AppendAuthored` is one transaction.
`Select`, `Resolve`, `MarkBatchInFlight` and then one of `ApplyVerdict`, `ApplyRequestFailure`
and `ParseThrows` are one drain; the marking follows the send, as it does in `SyncEngine.drainOnce`. `OnStart`
reclaims, `PruneAckedRows` deletes. The other end (`Reply`) answers anything about the rows it
was sent, or about some of them, or nothing readable.

Abstracted: payloads, times (only whether a row sleeps), the length of a backoff, and the batch
limit in bytes (`BatchLimit` counts rows).

### FieldSync

The same handset, with `Reply` replaced by a request (`wire`, `answer`, `late`) and the server's
table (`stored`). `Accepted` is what `ingest_batch` keeps of a batch in the order it was sent,
`Response` names every event. A request is evaluated (`Ingest`), lost before or after that
(`LoseRequest`), or overtaken by the handset's time-out (`GiveUpWaiting`, `IngestLate`) or death
(`CrashField`). Evaluation is one step and precedes the answer; `Ingestion` opens it.
`WireForm = "name"` supposes that both sides write types alike; they do not (section 5),
and the rest of the uplink would otherwise be about a system that refuses everything.

### EventTable, EventLog, Ingestion

`row[k]` is the `server_seq` of the row with key `k`, `owner[k]` the open transaction that inserted
it. An insert is two steps, because the identity column gives out its number when the statement
starts (`DrawServerSeq`) and the conflict is decided when it can end (`InsertOrSkip`), which an
open transaction's row may delay. `Ingestion` runs `ingest_batch` over it: `ReadHighest` once per
device and batch, then `RejectEvent` or `StartInsert` and `FinishInsert` for each event, in
transactions that may `Fail` at any point. `answerFirst`, chosen in `IngestionInit`, says whether
the response leaves before the commit; FastAPI changed this between versions, and
`pyproject.toml` pins none.

`EventLog` is the promise: an append-only log, one number per identity. `LogSpec` says the
committed rows keep it.

### DeltaSync

`Ask`, `ReadPage` and `ApplyPage` are the three steps of a pull: the cursor is read, the page is
read from what is committed then, and events and watermark (`mark`) change together.
`TypeForm = "code"` supposes that the page is decodable, as `WireForm` does for the uplink.

### ServerAuthoring, CommandPost, Enrolment

`ReadNextSeq`, `StartAppend` and `FinishAppend` are `author()`; `content` says what each row of
device 0 is about. `CommandPost` puts the requests before them: what each one reads
(`GenerateGrid`, `FindHolders`, `ReadNextAssignmentId`, `RevokeAssignment`), the incident row that
shares its transaction (`declared`, `declarer`), and the 201 that says what was written and which
collision was seen (`answered`). `Holder` is `fold_assignment_state` for one cell. Requests need a
session, and a session an incident with a password: `Bootstrap` (`bootstrap.py`) makes the only
one, and the session is a member of that incident alone.

`Enrolment` adds `code`, `device`, the open UPDATE of a code's uses (`update`) and what an enrolment
has read (`read`). `ReadJoinCode`, `ReadNextDeviceId`, `InsertCredential`, `UpdateUses` and then
`author()` are the five statements of `enrol`; the UNIQUE constraint on `device_id` makes an
insert wait for the other transaction and fail after it, and the row lock makes the second UPDATE
wait, with the count it computed before.

`alone` remembers whether requests ever overlapped. A property that says `alone =>` is about
histories in which they came one after the other; what is not guarded holds of every interleaving.
Deadlocks between requests do not occur here: each one takes its locks in the same order.

### EventRules, GridCells, Projection, SmsBatch

Pure operators, evaluated over the states that `ReadModels` reaches. `EventRules` has the eleven
payload models (`Required`, `Optional`, `FieldIsValid`, the extra fields that are forbidden), the
validators of `CanonicalEvent` in their order and `Judge`, which is `ingest_batch` up to the order
rule. `GridCells` has the row-major indices, the corners under a bearing of quarter turns and the
bijective base 26 of the column letters. `Projection` has the folds: those whose loop depends on an
order are folds over the events sorted by `server_seq`; the others are sets.
`SmsBatch` keeps the fields of a blob as pairs of value and width: `Pack` is the handset's, with its
greedy choice against the budget, `VerifyGatewayBatch` the server's, which packs the events it was
sent again. A MAC is its secret and its input, so two MACs are equal only if these are.

### ReadModels

`traffic` is what is still to arrive, one of `Traffics`; `writer` is a transaction of
`ingest_batch` (or of `author`, for uploads of the server) over events with contents, `content`
the columns of the rows. A relayed upload that is not verified never `Arrive`s. A `reader` makes one
statement per step: `ReadLog`, `ReadMax` and then either the response of a snapshot (`EndRead`),
the commit of a rebuild (`CommitRebuild`) or the watermark that diagnostics reports
(`ReadWatermark`). `models` is the set of rows the read models were folded from, and their watermark.
`RebuildMeanwhile` is a whole rebuild between two statements of diagnostics. `calm` records
that no upload was open when the reader started and none arrived between its statements.

## 3. What is checked

Seven runs pass, five show a disagreement. All the passing ones are exhaustive.

| Run | Question | Bounds |
|---|---|---|
| `outbox` | does the outbox keep its discipline against any other end? | 2 drains, 2 events, batches of 1, 2 clock values, 4 answers |
| `field_safety` | is what the handset believes true of the server, and is the handset still an `Outbox`? | 2 drains, 3 events (one malformed), batches of 2 |
| `field_liveness` | is every event settled, and the last one stored? | 1 drain, 2 events (one malformed), 1 late request |
| `ingest` | do overlapping requests keep their answers true and the log a log, and do they end when they wait for each other? | 2 transactions, 2 devices and a gateway, batches in opposite orders, 1 malformed event |
| `delta_serial` | with one writer at a time, is the watermark truthful and everything pulled? | 1 transaction, 2 pulls, pages of 1 |
| `command` | what do commanders and enrolling devices get, one after the other and at once? | 2 transactions, 2 incidents, 2 teams, 1 code with 1 use, 3 device ids of which 2 may respond, 3 numbers |
| `readside` | are cursors, diagnostics, folds, exports and relayed batches right over every log that uploads leave? | 2 writers, 3 devices, 3 numbers, 7 kinds of traffic |
| `field_drops`, `field_wireform`, `delta_skipped`, `command_lost`, `command_unanchored` | see section 5 | |

Each passing run also has the type invariant of its module (`TypeOK`, `FieldTypeOK`,
`IngestionTypeOK`, `DeltaTypeOK`, `EnrolmentTypeOK`, `ReadModelsTypeOK`); beyond that:

`outbox`:

- `LogMatchesCounter`: counter, log and outbox move together, whatever dies when.
- `CriticalFirst`: no CRITICAL row waits while a ROUTINE one is taken.
- `LegalTransitions`: overlapping drains and late answers never move a settled row.
- `OnlyAVerdictSettles`: a row is settled only by an answer to it, read by a drain that sent it.

`field_safety`, `field_liveness`:

- `AckedIsStored`: an event acknowledged or pruned is on the server. The order rule is checked
  before the duplicate check, so a repeated batch may be refused, and this is the property that matters.
- `RejectedIsOvertaken`: a well-formed event is refused only if the server holds a later one.
- `StoredWasAuthored`, `InFlightIsOwned`: nothing foreign is stored; no row is IN_FLIGHT without
  a drain that is about to settle it, so that `onStart` is needed after a death only.
- `Spec`: the handset of this system implements `Outbox`.
- `EveryEventSettles`, `LastEventIsStored`: the liveness of the uplink.

`ingest`:

- `ToldIsStored`: what any response called accepted is committed under the number it named, where
  the commit comes first.
- `RefusedForCause`: what was refused is malformed, not the caller's, or overtaken, also when the
  `highest` of two overlapping requests is stale.
- `LogSpec`: the table implements `EventLog`.
- `EveryRequestEnds`.

`delta_serial`:

- `NoEventIsSkipped`, `EveryEventIsPulled`: the watermark passes nothing and reaches everything,
  though pages of overlapping pulls are applied late, repeated or lost.
- `SeqOrderIsServerOrder`: a device's events get server numbers in the order of their seqs.

`command`, under every interleaving:

- `ServerSeqsFollowTheLog`: the seqs of device 0 have no gap and the order of the server's numbers.
- `TokenScopeIsItsCodes`: no two handsets share a device_id, and at most one event scopes a
  device's token, to the team and incident of its join code.
- `UsesAreCounted`: a code never counts a use that enrolled nobody.

`command`, while requests come one after the other:

- `AnsweredAloneIsRecorded`, `DeclaredIncidentHasItsEvent`, `LogHasOneReading`,
  `CollisionIsSurfaced`: what the commander was told is in the log, every other holder of a cell
  was named, and the log has one reading: one grid per incident, one assignment per id.
- `TokenScopeIsItsCodes`, `UsesAreCounted`: every device has its event, and no code enrols more
  devices than it allows. Overlapping enrolments may: both read the same count.

`readside`:

- `CalmCursorsAreComplete`: the cursor of a snapshot and the watermark of a rebuild, if read while
  nobody wrote, never skip an event, whatever is written afterwards.
- `DiagnosticsAddUp`: the counts and numbers of diagnostics fit each other.
- `FoldsFollowTheRules`: what the folds compute one event after the other is what the rules of
  `docs/08` section 7.2 say of the set: the latest report, the latest issue or revocation about a
  cell, the latest state of a team. The rules are stated without an order of evaluation.
- `DuplicatesAreKept`: a detected duplicate search is never taken back by a later event.
- `CoverageAddsUp`: the counts add up to the grid unless somebody named a cell outside it.
- `CommittedEventsAreReadable`: no stored event lacks a field that a fold or a query reads.
- `ExportNamesItsCells`: labels and corners identify cells, past column Z and under a bearing, and
  an export fails only because of a cell outside the grid.
- `HonestRelayIsVerified`: a batch packed by a handset and relayed as it is passes verification.
- `PackedBatchesFit`: no packed batch exceeds 120 bytes, and its fields sum up to the sizes
  the packer budgeted with.

### Why the bounds are enough

Drains, transactions and pulls interfere in pairs: each property relates two of them, and a third
adds no new kind of step. Two events are the least that can be out of order, three the least that
can surround a malformed one; a batch limit below the number of events makes selection and paging
choose. `MaxAttempts` only saturates a count that nothing compares. `MaxServerSeq` leaves some
numbers for transactions that fail; when they run out, no insert starts (a request then fails).
`MaxLate` 1 lets one request arrive after any number of newer ones; two overlapping drains reorder
requests without it. In `command`, three rows suffice for an issue, a second issue that takes its
cells and a revocation, or two enrolments and what comes between them; `MaxDevice` above
`MaxResponder` reaches the enrolments that cannot succeed. In `readside` each traffic is made for one
question (cells that change hands, searches of one cell, cells around column Z and outside the
grid, teams, what is refused, relayed batches, a batch too large for one SMS), and three numbers
let every order of acceptance of three events happen.

Symmetry is declared for drains, transactions and teams, which are only compared for equality,
and only in runs without liveness. The `View` of `command` forgets what was answered once
requests overlapped: no property of that run reads it then. Deadlock is checked in every run.

### Fairness

- `FairFieldSpec`: the app calls `drainOnce` again and again, coroutines that can continue do,
  clocks advance, `onStart` follows a start. No caller of `drainOnce` or `onStart` is in the source
  yet, only their contracts (`onStart` is called "once at process start, before any drain"):
  the assumption is that whoever will call them does so for as long as the app lives. A request
  tried for ever is evaluated and answered at last (strong fairness of `Ingest` and `ReceiveReply`;
  losses may recur for ever in between). The process may die any number of times, but
  not for ever. Rows settle only if such a period of life exists.
- `FairIngestionSpec`: a thread goes on when it can, and PostgreSQL ends one of two transactions
  that wait for each other. Without the second half `EveryRequestEnds` fails, as it should.
- `FairDeltaSpec`: the handset pulls again and again and not every answer is lost. The caller of
  `applyPage` is not written either. Writers need no fairness: they may stop anywhere.

## 4. What is proved

Every theorem is about the specification itself, not an instance: for every number of events,
drains, transactions, devices, incidents, codes, teams and uploads, every batch, page and use
limit. `Drains`, `Txns` and `Devices` need not be finite. `MaxServerSeq` bounds the numbers of a
behaviour, by any natural. The assumptions on the constants are those the modules name:

- `OutboxAssumption`, `FieldSyncAssumption`: sizes are naturals, a batch holds one row at least,
  the answers `ingest_batch` gives are among those the handset knows.
- `EventTableAssumption`, `IngestionAssumption`, `DeltaAssumption`: the bounds are naturals, `NoTxn` is
  no transaction, a request is a caller and a sequence of identities.
- `AuthoringAssumption`, `CommandAssumption`, `EnrolmentAssumption`: device 0 exists, what is wished
  for is a typed event, `NoEvent`, `NoTeam` and `NoCode` are none.
- `ReadModelsAssumption`: an upload is a sequence of event objects, each of which has a type and a
  payload. What these hold is free: the judgement is what the theorem is about.
- `GridAssumption`: the abstraction of `GridCells`. Cells are whole metres wide and bearings are quarter
  turns, where the rotation of the code rounds nothing. Only `ExportIsExact` uses it.
- `RelayAssumption`: what a relay is. The candidates of a handset are finitely many events of one
  counter, which gives no seq twice; `Included` and `Pack`, the operators for the packer, made the
  batch of them, and the gateway passes on what was included. Nothing is assumed of what the events
  hold, of how many there are or of how many fit. Only `BatchesFit` and `HonestRelaysPass` use it.

### The handset and its uplink

| Theorem | Statement | Argument |
|---|---|---|
| `OutboxTypeCorrect` | `Spec => []TypeOK` | each step keeps the types |
| `CounterMatchesLog` | `Spec => []LogMatchesCounter` | inductive as it stands, given the types |
| `OnlyLegalTransitions` | `Spec => LegalTransitions` | every update out of IN_FLIGHT has its guard in the WHERE clause |
| `VerdictsSettle` | `Spec => OnlyAVerdictSettles` | from `AnswersAreOwn`: a drain's verdict speaks of its own batch only. Without it `applyVerdict` could settle rows another drain has in flight |
| `DrainsTakeCriticalFirst` | `Spec => CriticalFirst` | a batch is a prefix of the order by tier |
| `FieldTypeCorrect` | `FieldSpec => []FieldTypeOK` | as above; a request is open only while its drain waits |
| `FieldImplementsOutbox` | `FieldSpec => Spec` | from `AnswersAreAsked`: a reply speaks of the batch of the request only, so that receiving it is a `Reply` of `Outbox`; what the server and the network do is a stutter. The theorems about `Outbox` thus hold of the whole |
| `DeliveredIsStored` | `FieldSpec => []AckedIsStored` | from `BackedInv` |
| `RefusedIsOvertaken` | `FieldSpec => []RejectedIsOvertaken` | from `BackedInv` |
| `OnlyAuthoredIsStored` | `FieldSpec => []StoredWasAuthored` | from `SentWasAuthored`: batches, also late ones, hold authored events only |
| `InFlightHasADrain` | `FieldSpec => []InFlightIsOwned` | from `OwnedInv`: an answer names every event of its batch (`AnswersAreComplete`), so that applying it leaves no row behind |

`BackedInv` strengthens the two properties it proves. They speak of rows, but a row is settled
long after the server decided, by an answer that was under way in between. So the invariant says
of every answer on the wire and in a drain's memory that the table bears it out: an accepted event
is stored, a refused well-formed one has a later one in the table. The table only grows, so
answers stay true while they travel. That an answer is true when it is given (`ResponseIsBacked`)
needs the greatest recognised seq of a batch: if an event is refused because of an earlier one of
its own batch, the greatest one of the batch is accepted, and is later than it (`GreatestSeq`, by
well-foundedness of `<`).

### The event table, ingestion and the downlink

`TableInv` is the invariant of `EventTable`: the numbers of rows and of open inserts are all
different, the identity column is ahead of them, only rows that exist have an open transaction.
Every module on top of the table makes nothing but its steps (`TableStep`), so that this is proved
once, together with what all of them need: a committed row stays under its number
(`CommittedStays`), a row comes to be committed as it was inserted (`NewlyCommitted`), and every
step appends a batch to the abstract log or nothing (`TableStepAppends`).

| Theorem | Statement | Argument |
|---|---|---|
| `LogKeepsItsPromise` | `TableLog!Spec` implies one number per event and one event per number, for ever | of the abstract specification alone; holds of whatever implements it |
| `IngestionTypeCorrect` | `IngestionSpec => []IngestionTypeOK` | `TypeInv`: `TableInv`, and where a transaction stands says what it has |
| `IngestionImplementsLog` | `IngestionSpec => LogSpec` | `TableStepAppends` |
| `AcceptedMeansStored` | `IngestionSpec => []ToldIsStored` | `AnswerInv`: what a transaction will call accepted is a row it sees, under the number it will name. What it sees stays visible to it (`VisibleStays`) although others commit and fail, and is committed with it |
| `RejectedMeansOvertaken` | `IngestionSpec => []RefusedForCause` | `AnswerInv`: a mark in `highest` may be stale, but is the seq of a row that is seen, so what lies below it is overtaken; and of a row in the same transaction, which fails with it |
| `OneAtATimeKeepsOrder` | `IngestionSpec /\ []OneAtATime => []SeqOrderIsServerOrder` | `OrderInv`: the marks are above all rows of the device, and a drawn number above all rows |
| `DeltaTypeCorrect` | `DeltaSpec => []DeltaTypeOK` | `PullInv`: pages and cursors are committed rows |
| `DeltaRunsIngestion` | `DeltaSpec => IngestionSpec` | pulls leave the table alone; the theorems about `Ingestion` thus hold next to them |
| `CommitsInOrderSkipNothing` | `DeltaSpec /\ []CommitsFollowNumbers => []NoEventIsSkipped` | `WatermarkInv`: a row that comes to be committed is above every number a handset has seen (`NewRowsAreAbove`), and a page on its way has no hole although other pulls move the watermark |
| `OneAtATimeSkipsNothing` | `DeltaSpec /\ []OneAtATime => []NoEventIsSkipped` | a corollary: requests one after the other commit in the order of their numbers (`NumbersFollowCommits`) |

`OneAtATime` says that no two transactions are open at once, `CommitsFollowNumbers` that every row
that is yet to be committed has a number above those of all committed rows. They are hypotheses on
the behaviour, not on the constants: `[]OneAtATime` holds of every behaviour of the instance
`delta_serial`, and of those of larger ones in which requests happen not to overlap. The second is
the weaker: requests may overlap, and pulls may read between their commits, if only the commits
keep the order of the numbers. Without either, `delta_skipped` is the counterexample.

### The command side and enrolment

`EnrolmentInv` has eight parts; all theorems below are consequences of it.

| Theorem | Statement | Part of the invariant it needs |
|---|---|---|
| `EnrolmentTypeCorrect` | `EnrolmentSpec => []EnrolmentTypeOK` | `BaseInv`, `EnrolFlow` |
| `ServerSeqsAreDense` | `... => []ServerSeqsFollowTheLog` | `BaseInv` (its `AuthorInv`): below a row of device 0 every seq is taken, committed, and has a lower number (`ServerRowsAreDense`); a transaction that has computed a seq may rely on it although others overtake it (`SeqsFit`) |
| `AnsweredMeansRecorded` | `... => []AnsweredAloneIsRecorded` | `AuthorInv`: a transaction that is alone has its seq for itself |
| `TokensKeepScope` | `... => []TokenScopeIsItsCodes` | `ScopeInv`, `EnrolFlow`: the UNIQUE constraint gives each device one credential, which belongs to one transaction until the commit; its row names what the code says |
| `UsesCounted` | `... => []UsesAreCounted` | `UsesInv`: a code counts at most the devices committed for it, and what an open enrolment has read of it is never more; as long as no two requests were under way at once, both are equal |
| `LogNamesIncidents` | `... => []DeclaredIncidentHasItsEvent` | `DeclarersDeclare`, `DeclaredInv`: incident row and event share a transaction |
| `LogReadsOneWay` | `... => []LogHasOneReading` | `ReadingInv`: what a request that is alone found missing is still missing when it commits |
| `CollisionsAreNamed` | `... => []CollisionIsSurfaced` | `CollisionInv`: what a request found is what the log says below its own row. It needs that every revocation has its issue in the log, before it: the holder of a cell would otherwise depend on an assignment that nothing names |
| `EnrolmentImplementsLog` | `EnrolmentSpec => TableLog!Spec` | `BaseInv` |

### The read side

| Theorem | Statement | Argument |
|---|---|---|
| `ReadModelsTypeCorrect` | `ReadModelsSpec => []ReadModelsTypeOK` | `WritersInv`, `ReaderInv` |
| `CalmCursorsSkipNothing` | `... => []CalmCursorsAreComplete` | `CursorInv`: a set of rows is `Complete` up to a number if no row and no open insert is at or below it without being in the set. That is so of the committed rows while nobody writes (`CalmIsComplete`), and stays so whatever is written (`CompleteStays`), because the identity column only goes up. The property speaks of committed rows; without the open ones the invariant would not be inductive |
| `DiagnosticsFit` | `... => []DiagnosticsAddUp` | `ReaderInv`: counted rows have different numbers up to the one that was read; a watermark is the number of a committed row, and those stay |
| `LogIsReadable` | `... => []CommittedEventsAreReadable` | `ContentInv`: whatever is stored was judged acceptable (`JudgedIsReadable`) |
| `DuplicatesStay` | `... => DuplicatesAreKept` | the log grows (`LogGrows`), and more events have more searchers (`DuplicatesGrow`) |
| `ReadModelsImplementLog` | `... => TableLog!Spec` | `TableStepAppends` |
| `FoldsAreTheRules` | `... => []FoldsFollowTheRules` | for each fold a statement of what its dict holds after the events up to any number (`HoldsReports`, `HoldsState`, `HoldsTeams`), kept by one more event (`ReportStep`, `AssignStep`, `TellStep`) |
| `CoverageIsWhole` | `... => []CoverageAddsUp` | the classes of the cells are apart and add up (`ClassesAddUp`); every cell that is named can be represented, because it was judged when it was stored (`CellsAreRepresentable`) |
| `ExportIsExact` | `... => []ExportNamesItsCells` | `column_index` undoes `column_letters` (`LettersLeadBack`), row and column determine the cell (`RowColIs`), a rotation by quarter turns keeps points apart (`RotationIsInjective`) |
| `BatchesFit` | `... => []PackedBatchesFit` | for every choice of optional fields an event is written in the bits that were counted (`EventBitsAreExact`), hence a batch in header and budget (`PayloadBitsAreExact`), and the greedy loop never passes the budget (`IncludedIsPackable`) |
| `HonestRelaysPass` | `... => []HonestRelayIsVerified` | the first candidate is packed and has a wire form, so that its time is not before the epoch; both sides then take the same base, write the same fields and compute the same MAC |

The last five are about loops: over the events of a log, the candidates of a batch, the letters of
a column. The library's induction theorems cannot be instantiated, but induction on numbers can be
had from the well-foundedness of `<` (`NatSet`: a set of naturals that has 0, and with each number the
next, has all). The recursive functions of the model and of the community modules are a `CHOOSE` of a
function that satisfies the equation of the recursion. `LoopExists` and `DescentExists` show that there
is one, `LoopValue` and `DescentIsUnique` what every one yields; `FoldExists` and `TallyIsUnique` do it for
sums. After that a proof is the usual one of a loop: an invariant, and one step that keeps it
(`OrderedLoop`, for the loops over the log in the order of `server_seq`, whose numbers are distinct by
`LogIsNumbered`). So the operators are proved about as they stand in the modules that TLC runs.

### Model-checked only

Liveness: `EveryEventSettles`, `LastEventIsStored`, `EveryRequestEnds`, `EveryEventIsPulled`. Fairness and
ENABLED are beyond the prover.

## 5. Where code and documents disagree

Each of these is a run that TLC ends with a counterexample:

- `field_drops` (`NeverDropsAnEvent`). `ingest_batch` refuses for good every event below the highest seq it has
  (`ingestion.py:94`), `OutboxDao.nextSendable` sends CRITICAL rows first and retries late: a
  ROUTINE event written before a CRITICAL one is refused and never sent again. The outbox "never
  drops an event" (`docs/06-system-architecture.md:239`). `RejectedIsOvertaken` says precisely which
  events are lost, `LastEventIsStored` which one never is.
- `field_wireform` (`WireFormIsUnderstood`). The JSON batch carries an event's type as a number, `parse_event` knows names:
  every event is refused.
- `delta_skipped` (`NoEventIsSkipped`). A page read between two commits that come in the other order than their
  numbers moves the watermark past an event that is never sent.
- `command_lost` (`AnsweredIsRecorded`). Two requests at once compute the same seq for device 0; the second inserts
  nothing and answers 201 with the number of the first.
- `command_unanchored` (`EveryDeviceHasAnEpoch`). `bootstrap.py:58` inserts the first incident without an INCIDENT_DECLARED
  event, which `docs/08-data-and-event-model.md` says an incident "also" is. Only that incident
  has a password, so every join code and every device belongs to it, and the server finds no
  `started_at` to verify an SMS batch with.

Others were met while modelling and have no run of their own:

- The base of an SMS batch is that of the handset's first candidate, packed or not
  (`SmsBatchEncoder.kt:86`), and on the server that of the first event it was sent
  (`batch_mac.py:125`): where the first candidate is not eligible for SMS, an honest batch is refused.
  `HonestRelayIsVerified` says where it is not.
- The branch of AP-20 that accepts a CRITICAL event with an unknown cell (`ingestion.py:68`) is out
  of reach: the payload model has refused the same cells before. A cell outside the
  incident's grid, but below 8191, is never compared with the grid; it makes every export fail
  with an unhandled `GridError` (`queries.py:200`).
- The queries take the first grid of an incident (`queries.py:87`), the coverage the last
  (`folds.py:253`), which shows when a race has published two.
- Overlapping enrolments may use a code more often than it allows (`identity.py:140`).
- `responder_id` is the `device_id` (`identity.py:158`) and ends at 1023, four times earlier: from
  device 1024 on no enrolment succeeds.
- A rebuild that ends between the statements of diagnostics makes the projection lag negative
  (`queries.py:244`).
- The payload models coerce: a quantity sent as `"3"` passes the checks and is stored as a text
  (`payloads.py:35`), which the fold that adds it up cannot read.
- A row that a verdict does not mention stays IN_FLIGHT until the next start
  (`OutboxEngine.kt:124`); so do the rows of a 200 that does not decode (`SyncEngine.kt:77`).
  `ingest_batch` mentions every event, so `InFlightIsOwned` holds with this server.
- A rejection without `retryable` is taken as permanent (`JsonBatchCodec.kt:167`).
- A stored event that is sent again after a newer one was accepted is refused with
  SEQ_NOT_MONOTONIC (`ingestion.py:94`), so its row ends REJECTED though the server holds it;
  `OutboxEngine.kt:37` expects duplicates to be accepted.
- Overlapping requests of one device may give it numbers out of the order of its seqs
  (`ingestion.py:92`); hence `SeqOrderIsServerOrder` is checked for one transaction only.
- Where the response leaves before the commit, a failing commit loses what was answered
  (`deps.py:23`); `ToldIsStored` supposes it does not.
- A handset's own events never get their `server_seq`: `INSERT ... IGNORE` keeps the row it wrote
  (`Daos.kt:36`, `LocalEvent.kt:16`).
- The page of a delta names types, the handset decodes numbers (`JsonBatchCodec.kt:127`).
- Under races an incident may get two grids (`incidents.py:66`), two assignments one id
  (`assignments.py:16`), a collision may go unnamed, and an incident may have no
  INCIDENT_DECLARED event.

## 6. What is not modelled, and the plan

All safety properties of the passing runs are proved. Next, in this order:

1. Proofs: that the command side refines what a commander is promised, as a specification of its
   own rather than property by property; action properties of the read models (a watermark of a
   rebuild under `[]OneAtATime`), and what remains of `delta_skipped` without that hypothesis.
2. The acknowledgement SMS and the decoding of a batch, when the gateway that would call them
   exists; the selection between transports.

Not modelled, or not fully:

- The backoff policy. It is pure, and its overflow lies above the 32-bit integers of TLC; the outbox
  takes any backoff as "now or later".
- Decoding, acknowledgements and framing of SMS batches, `TransportSelector` and `SmsTransport`:
  no code of the repository calls them in a system that could be composed.
- Rotations that need rounding, fractional cell sizes, cell centres, the parsing of malformed
  labels.
- What pydantic coerces: payloads have values of their declared types.
- The entity history and the other filters of the audit query, which change nothing and are
  reads of the same table. `FoldTeamPosition`, `FoldResourceStock`, `FoldSurvivorReports` are
  modelled as sets and sequences, of which no property says more than their definition.
- `server_seq_high` in a response and `shouldSnapshot`, which nothing uses; hashing and token
  generation (library calls); wiring, schemas and health checks; the dashboard and the broker, which
  have no implementation.
- In `Ingestion` and `FieldSync` domain validation is one verdict (`Malformed`); `ReadModels` has it
  in full.
