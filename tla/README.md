# icos-v3: TLA+ specifications

Formal models of the core of icos-v3 (`src/core/src`) and of the parts of its
web client that keep up with it, the TLC instances that check them, and TLAPS
proofs about all of them: the tool-request ledger, agent runs and their model
requests, the MCP connections, the promotion and maintenance of memories, the
persona, the chat page, the realtime page and the storage migrations.

## The system

The core is a NestJS process over SQLite (better-sqlite3, synchronous) and a few
JSON files.  A user message becomes an agent run: the language model is asked, it
answers or proposes a tool call, the call is registered in a durable ledger, runs
at once or parks until somebody approves it, and its outcome is fed back to the
model.  Tools are native (search, rename) or come from MCP servers through a
bridge.  After the turn, memory candidates are extracted from it and promoted to
claims, mostly after a human approved, and a scheduled pass maintains the claims.
The browser shows sessions, cards and turns; it is told by a websocket that
something changed and reads it again over HTTP.

### Inventory

| Component | State it keeps | Operations | Talks to |
| --- | --- | --- | --- |
| Tool execution ledger (`tools/tool-execution.*`, `tool-registry.ts`) | table `tool_requests`: state, input, approval, owner token, outcome, closing answer, transcript marker | consume, resume, respond, releaseOwner, and the claim/finish transactions under them | approvals, MCP bridge, model, transcript |
| Approvals (`approvals/`) | table `approvals`: status, expiry | create, get, list, approve, reject, cancel, lazy expiry | ledger, promotion |
| Agent runs and the conversation loop (`conversation/conversation.service.ts`, `agent/`) | table `agent_runs`: state, request ids, counters; locals of the loop | converse, converseStream, resumeTurn, resumeStream, cancel | model, ledger, sessions, memory |
| MCP connections and bridge (`mcp/`) | catalog file; map of managed servers; retry timer; snapshot of offered tools | initialize, reload, watch, retry, reconnect, destroy, enable/disable/remove | MCP servers, registry, secrets |
| Memory promotion (`memory/promotion.service.ts`) | tables `promotion_journal`, `claims`, `prospective_items` | propose, execute, sweep, recover at boot, park and resolve questions | approvals, claim index, realtime |
| Memory maintenance (`memory/maintenance.*`) | `claims`, `claim_history` | compound, decay, link, gist, revise, lock, activate, stamp; retire | claims |
| Candidates and extraction (`memory/llm-memory-candidate-extractor.ts`, ...) | table `memory_candidates` | extract, validate, save | model, promotion, persona |
| Recall and ranking (`memory/recall.service.ts`, indexes) | vector and lexical indexes | index, query, score | claims |
| Persona (`persona/`) | core file, records and their versions, candidates, drift log and findings | check the core, import seeds, stage, review, audit | memory, embedder |
| Clarifications (`clarifications/`) | tables `clarifications`, `clarification_events` | create, answer, cancel, lazy expiry | conversation, realtime |
| Hallucination guard (`hallucination/`) | none durable but reports | verify, decide mitigation | model, claims |
| Sessions and migrations (`session/`) | three database files; `sessions`, `messages` | open and migrate, create, append, rename, fork, exclude, delete | everything |
| Realtime gateway and web client (`realtime/`, `web-client/`) | rooms and sockets; stores in the browser | publish, join, resync | every service that publishes |
| Providers and LLM client (`providers/`, `llm/`) | provider catalog, active selection; the request under way | list, select, chat, stream, parse | model servers |
| Secrets vault (`secrets/`) | encrypted file, key | get, set, delete, notify | MCP, providers |
| Auth, skills, commands, health, security reports | little or none | request handling | - |

What is hard to get right, and hard to test:

* **Replay and races over durable rows.**  A client may repeat a request, resume
  it twice, approve it while it is resumed, and the process may die anywhere.  The
  tool behind the row has effects that cannot be undone.
* **Parked runs.**  A run outlives its process: a resume reconstructs the loop
  from the run row while cancels and other resumes write the same row.
* **Overlapping tasks over one map.**  The connection manager awaits network I/O
  in the middle of loops over a map that other tasks change.
* **Several writes, no transaction.**  Promotion writes rival, claim, status,
  question and journal one by one, and repeats itself after a crash.
* **Reading before an await, acting after it.**  Approvals, policies, catalogs and
  persona candidates are all read before something else gets to run.
* **A page that hears some of it.**  Streams, clicks, timers, sockets and frames
  interleave; any of them may be cut, and what the page knows is what it heard.
* **Files of any age.**  A boot must finish what releases and crashed boots left.
* **An endpoint that may say anything.**  Interleaved, truncated or stalled answers
  must not become calls or text nobody meant.

`PROJECT.json` lists these, line by line, under `hazards`, with the properties
that would notice if they went wrong.

## Modules

    the browser          Chat            Realtime
                           |                |
    the loop             AgentRun  ---  ToolLedger --refines--> OneShot
                           |                |
    its neighbours       Completion      McpConnections

    memory               Promotion  ---  Maintenance          Persona
    files                Storage  (opens the tables all of them use)

    theorems: ToolLedgerProofs, AgentRunProofs (with those of Completion),
              McpConnectionsProofs, PromotionProofs (with those of Maintenance),
              PersonaProofs, ChatProofs, RealtimeProofs, StorageProofs
    MC<module>: the instances for TLC

A line between modules says that one relies on what another shows; each keeps a
small abstract version of its neighbour, named below.

**ToolLedger** models `ToolExecutionService`, its repository and the approvals.
Variables are the columns of `tool_requests` and `approvals`, one slot per
concurrent activation of consume or resume (`pc`, `req`, `skip`, `mint`, `seen`),
the approval policy the bridge currently gives the foreign tool, and history
variables for what happened outside the database (`calls`, `reply`, `answers`,
`turns`).  Every label of an activation is a point between two transactions or an
await, so other activations and crashes happen there.  `RebuildBridge` is what
`McpConnections` does to the registry.  Argument validation and the text of
results are reduced to their verdicts: valid or not, fits the column or not.

**OneShot** is what the ledger promises of one call: it is refused or denied, or it
runs at most once and ends in one outcome that never changes; a gated call runs
only with consent, consent is not withdrawn, and a call that has it is not denied.
`ToolLedger!ImplementsOneShot` instantiates it with what a row shows.

**AgentRun** models one message: the driver loop (JSON and streaming), two
concurrent resumes, cancellation and the row of `agent_runs`.  The event loop runs
an activation to completion between a model call and a tool call, so those are
its steps.  The ledger appears as what `ToolLedger` guarantees about it: a row
that executes, is answered and is transcribed at most once, and a decision that
never changes.  A model call appears as what `Completion` shows of it: it ends,
and a final attempt, which offers no tool, brings no call.

**Completion** models one model request after another of a turn: what `ToolOffer`
accepts as context, the exchange in `complete()` with its timer and its two
reasons to abort, and `CompletionParser` line by line.  Variables are the parser's
fields, the pending result and the endpoint's side: the message it means, what of
it was sent, the last line (which a faulty gateway loses, repeats or follows
by an invented one), and the indices of the calls such a line was about (`spoiled`).  The endpoint and the gateway are external.  A text is a
sequence of pieces, an argument a text that is an object or not.

**McpConnections** models `McpConnectionService`, `SdkMcpClient` and the bridge:
the catalog file, the server map, every managed object ever created with the
connection behind it, the retry timer, the debounced watcher, and tasks that are
suspended where the code awaits connect, tools/list or disconnect.  The order in
which a loop visits servers is left open.  Two history variables name the cases the
code gets wrong (see the deviations): `overlapped`, another operation ran beside the
last walk over the catalog, and `unheard`, the objects whose transport reported an
error before their client was in place.

**Promotion** models `PromotionService` and the three tables it writes, for one
subject and predicate.  A claim's identity is its object and negation marker.
Proposing and executing an entry await only the (synchronous) database, so an
entry is not interleaved with another one; but every write is a step of its own,
it may fail (`ProposalFails`, `ApplyFails`, the warning branch of `Park`), so may the
write that marks the row failed (`MarkFails`), and the process may die after it.  In
the last two cases the row is left promoting, and is applied again by the next sweep
or by the boot; `stranded` counts them.  Confidence appears only as the choice `weak`: whether
the losing claim is below the threshold that raises a question.  `Retire` is the
forced path of `MaintenanceService.retireClaim`, whose unforced one reaches the
same states.

**Maintenance** models a pass of `MaintenanceService` over the claims of a topic.
`rows` and `history` are what it reads and writes, `contra` what promotion
left of its contests, `traced` what recall remembers of claims it ranked
familiar, `pass` the pass in progress with the snapshot it took: the claims left
to visit and the write each rung is about to make.  A claim takes the first rung
that fires (compound, decay, link, gist, revise), then the salience and metadata
writes follow.  Each write may throw, which ends that claim's turn, or be the last
before a crash.  Confidence, elapsed time and thresholds are a few ordered levels.

**Persona** models the review of persona candidates: the core file and what a boot
compares it with, seeds and the decision whether one may replace a record,
candidates staged by extraction, two reviews in flight that await the embedder
after writing the record, the drift evaluation after it, and audits that reconcile
findings.  `applied` and `streak` restate from outside what the log and
the versions say.  Embeddings and token overlap are relations between statements.

**Chat** models `conversation-store.ts` against the core it talks to: event
streams with their undelivered events, `resolveApproval` with its awaits (several
clicks at a time), the parked turns and the polls of running ones, session
changes and the commands /new, /fork and /undo; on the core's side sessions,
messages, the durable record of each turn and its approval.  The turn's record is
what `AgentRun` and `ToolLedger` keep: it is claimed, executed and transcribed once.
The row of the run is not kept, so whether a resume plans on (each step is stored as
a record of its own in the same message), answers the step by itself, or turns to a
later record of the message is open wherever `AgentRun` has a run for each.

**Realtime** models the websocket gateway (rooms, dropped frames, closed sockets),
`realtime.service.ts` (connect, retry, replace, resubscribe) and the REST reads a
frame starts, with the clarifications as the lists the page reads: two callers and
the deadline race to close one question.  One stream of a message runs at a time, as
`busy` demands, while refreshes that an earlier one started still go on; the session
of a first message is set at once rather than by its meta event.  A frame carries no data, so a list is
either behind or not (`behind`).

**Storage** models `openDatabase` for the three files: schema, migrations, table
rebuilds, and the copy of the single file that preceded them, as the list of
statements a boot still has to run.  The form of each table is one of the forms
releases gave it, a row is where it comes from and what a migration reads of it.
Rebuilding the runs table drops the old one with its index, which nothing creates
again before the next boot (`rebuilt`); the last statement looks at tables and
triggers only, as `verifySchema` does.

## Runs

Bounds are constants of the modules, given their values in the `.cfg` files.

| Run | Instance | Distinct states |
| --- | --- | --- |
| `ledger_one` | one request of any kind, one approval, two activations, a release, one crash | 930 thousand |
| `ledger_two` | two requests, two approvals (one legacy rename with an expiry), one activation, one crash, fair | 474 thousand |
| `agent_run` | driver and two resumes, 3 iterations, 2 tool steps, 6 request ids, one crash | 87 thousand |
| `mcp_overlap` | one server, two tasks, errors and refused lists, 3 connections | 8.6 million |
| `mcp_serial` | two servers, two entry versions, one task at a time, 3 connections | 0.9 million |
| `promotion` | three candidates, two objects with their negations, any failed write, and one execution that ends with its row promoting: a crash, or a write that fails and whose marking fails too | 6.0 million |
| `maintenance` | two claims, one of them approved by an operator, 2 events, one failed write or crash | 240 thousand |
| `persona` | three statements, one seed slot, two reviewers, 4 events, one failed write or crash | 555 thousand |
| `chat` | two request ids, two sessions, two clicks, three streams, one poll, 4 events, one fault | 1.28 million |
| `realtime` | two sockets, two sessions, one question, two callers, 2 events, one fault | 740 thousand |
| `storage` | releases {none, M3, M8c, M9a, M10b, M10c, M12a, later}, two crashes, one failing statement, one written row | 894 thousand |
| `completion` | seven messages (one with more calls than the limit), seven stray lines, limits of 2 calls, 3 pieces each and 4 in all, 3 requests, one faulty line | 604 thousand |

Why the bounds are enough to be interesting:

* Two activations, tasks, reviewers, clicks or callers are needed for every race
  over a row, and the code has no step that involves three; two requests are
  needed to confuse approvals.
* One crash, or one failure that cannot be recorded, splits every sequence of writes once, and the recovery it leads to is
  complete before another crash could matter.  `storage` takes two: a boot that
  finishes what a crashed boot left may crash itself.
* Six request ids let a run park twice, repeat a call and be corrected within
  three iterations.  Three connections let a server fail, be retried and be
  replaced.  Three candidates give a topic a first claim, a contest and a repeated
  contest.  Two claims are a topic with rivals; the family bar of two makes them a
  gist family too, so every rung of the ladder fires.
* Three statements, two of which deny each other, give a review something to
  contradict, repeat and replace; four events are a seed, a staged candidate, a
  restart and an edit.
* Three streams let a turn park in one, be resumed in a second and be polled in a
  third.  Two sockets are a socket and its replacement.
* The eras chosen have every table missing, in its old form and in its present one;
  the releases between them (M6, M8d, M8e, M9b, M10e, M11a, M12c) left some of the
  same tables already converted, which boots that crash between two conversions
  leave too.
* Two calls in two pieces each interleave; three requests let a turn take a call,
  a correction and a final attempt.  The texts include one whose pieces make another
  object when one of them is lost.

Symmetry is declared for interchangeable names only, and never in a run that
checks liveness.  Deadlock is checked in the runs where something can always
happen (ledger, maintenance, persona).  It is not checked in the others: a finished
run or turn, a manager that was shut down, a database with all candidates promoted,
a page whose user did all the bound allows, and an upgraded core rightly stop.

The type invariants (`TypeOK` in each module, `MaintenanceTypeOK`, `RequestTypeOK`)
are part of no run; add one to a configuration as INVARIANT to check it.  All but
those of `Storage` and `Completion` are proved.

### What the runs show

*Ledger.*  `AtMostOnce` (one execution, one closing answer, one transcript turn
per request), `RanUnderOwnGrant` (parked calls run under their own granted
approval), `OutcomeIsTrue`, `ExecutingIsOwned` and the refinement
`ImplementsOneShot`, for all interleavings with decisions, expiry, policy changes,
timeouts, releases and a crash.  `EveryCallReturns`: no consume or resume waits
forever.

*Agent run.*  `OnePlanner` (never two activations planning, none while parked),
`WithinBudget` (across parks and resumes), `StepsHaveOwnIds` (JSON path),
`OverPlansNoMore` (a run that is over neither plans nor parks again).

*Completion.*  `CallsAreMeant`: however the calls are interleaved, and whatever is
lost, repeated or invented of some of them, the calls whose lines arrived as they
were sent are all returned, exactly as the endpoint meant them; every call was offered
and has an object for arguments; and no call mixes two heads.  The arguments of a
spoiled call may be another object than was meant (see the deviations).  `TextIsWhole`: a text that is returned, and that was streamed to the page,
ends where the endpoint ended it.  `AbortedHasNoAnswer`: after the timer or the
client aborted, no answer is returned.  `RequestEnds`: every request ends, although
an endpoint may stall at any line.

*MCP.*  `BridgeIsCurrent`, `FailedIsRetried` and `ConnectedIsUsable` (a server shown
connected has a client over an open connection) hold under overlap and all faults;
`ConnectedIsUsable` makes an exception only of connections whose error came before
their client.  `CatalogIsApplied` holds for every walk over the catalog that nothing
ran beside, whatever drops, is refused or was retried before; the
proof has it for several servers and entries.  `OneClientPerServer` is checked by
`mcp_serial`: it holds while tasks do not overlap and transports only close.

*Promotion.*  `OneHead` (one candidate or active claim per topic, whatever a crash
left behind), `BeliefsAreAuthorised`, `CommittedIsBelieved`,
`CountedOncePerStranding` (at most one recount per execution that ended with its row
promoting, so no other crash, failure, sweep or restart recounts),
`LosersAreExplained` (a contradicted claim is named in the note of the promotion that
beat it, which maintenance links counterparts from, but for one per such execution or
recorded failure), `RepeatedContestIsAsked`.

*Maintenance.*  `ReplaysNeedFaults` (an observation raises the confidence once, and
a lost revision is charged once, but for one more per fault), `PassKeepsAHead` (a
pass never takes a topic's last active claim), `RivalsAreResolved` (rivals are
revised to one head in the end, although revision is the last rung).

*Persona.*  `AppliedIsRecorded` (an approval that changed a store is the outcome of
its candidate and is in the drift log, although two reviewers pass the same status
check), `CumulativeMatchesStreak` (a record is reported as drifting exactly while
its last changes drifted), `ReviewedIsNotReseeded`.  The run needs one drifting change
for a streak (`MinCycles`); the proof covers longer ones.

*Chat.*  `TranscriptIsWhole` (a transcript, and its forks, hold a turn once, and an
answer follows its question, through undo, forks and a failed append),
`ResumedOncePerParking`, `PageComesToRest` (the composer is freed and polling ends).

*Realtime.*  `RoomIsTracked`, `ClosedOnce` (and the event trail says how),
`PageCatchesUp` (what changed while there was no connection, or what a frame told
of, is read again).

*Storage.*  `OpenIsCurrent` (a core that listens has the present form of every
table, index and trigger, but for the index of the runs in the boot that rebuilt
their table), `RowsSurvive` (no statement of a boot loses a row),
`ComesUp` (files of every release but M10b open, however often a boot stopped).

### Fairness

* `FairSpec` of `ToolLedger` assumes weak fairness of each activation's own steps:
  the event loop runs a ready continuation, and a model or MCP call ends by an
  answer, an error or the client's timeout.  Nothing is assumed of users (no
  decision ever has to come), of operators, or of other activations.  `FairSpec` of
  `AgentRun` and `McpConnections` has the same shape, for the liveness deviations
  below.
* `Completion`: the timer fires if nothing stops it, and a settled `complete()`
  continues.  Nothing is assumed of the endpoint.
* `Maintenance`: a pass that can go on goes on; the pass is scheduled by a timer.
  `Persona`: likewise for boots, audits and the steps of a review.
* `Chat`: for each stream, delivered events are processed and the core serves its
  request or the browser reports its failure, unless the request runs a tool, which
  may run for good; for each click, it goes on; timers fire.  Users do nothing by duty.
* `Realtime`: the steps of browser, network and core go on (`System`); users, other
  clients, clocks and faults are left out of it.
* `Storage`: a started boot proceeds, and whoever runs the core starts it again
  after it stopped.

Faults, crashes and events are bounded, so fairness is about what happens after
the last of them.

## Proofs

`tlapm` checks all of it; the constants are arbitrary sets subject to the named
assumptions (sentinels are not members, legacy approvals are not shared, bounds
are naturals, objects are finitely many).

**ToolLedgerProofs.**  `TypeCorrect` (which includes the CHECK constraints: no
update of the ledger can be rejected, but for the outcome that does not fit),
`RunsAtMostOnce`, `RunsUnderOwnGrant`, `DenialsMirror`, `OutcomesAreTrue`,
`ExecutingRowsAreOwned`, `PolicyIsHonoured`, `SettledStays`.  None of the safety
properties is inductive.  The invariant `Inv` adds

* `Owned`: a row that ran has a token, and only the activation with that token is
  between claim and outcome (so that a second claim finds the row taken);
* `Answered`, `Transcribed`: the same for the closing answer and the transcript;
* `Placed`: a dispatched activation serves a row that exists;
* `Bound`: approvals are not shared, between rows, between activations that minted
  one, or between a row and a mint that is not registered yet;
* `Decided`: what an activation saw before its await is still true, since
  decisions are final, and a denied row carries its approval's denial;
* `Told`: what the executor answered, against what the row stores.

Each part has its own step lemma, one case per action.

`Refines` (same module): every behaviour of the ledger is one of
`OneShot`.  The argument is `OneMoves`: a step that moves one request as `OneShot`
allows and leaves the others is a step of `OneShot`; then each action is shown to
move one request so.

**PromotionProofs.**  `TablesAreTyped`, `TopicHasOneHead`, `EvidenceIsAuthorised`,
`CommitsAreBelieved`, `StrandingsPayForRecounts`, `LosersAreNoted` and
`RepeatedContestsAreAsked`, for any candidates, any finite set of objects and any
number of crashes, failed writes and failed markings.  The inductive invariant adds

* `Grounded`: a claim that does not exist has no evidence, and evidence comes from
  journal rows;
* `Proposed`: how a row's binding to an approval, its candidate's class and the
  queue agree (an unbound row is of an automatic candidate);
* `Executing`: what each label has done: an entry being applied is promoting and
  approved, the topic has no head between the demotion of the rival and the
  creation of the winner, and from there on the candidate is evidence.

`OneHead` is what makes the choice of the rival harmless: `RivalIsHead` shows that
under it the newest contestable claim is the only one.

The three accounts need a second invariant each, since what they compare is not
settled in one step:

* `Counts`: an execution that ends with its row promoting (a crash, or a failure that
  could not be recorded) has paid for counting its candidate again, so what a claim's
  times exceed its evidence by, and what is still to be counted again, are together
  at most such executions;
* `Explained`, with `Notes`: the claim just demoted is in no note yet, and the step
  that loses it from memory is a crash or the failure of its promotion, recorded or not; a claim
  that lost never wins again (`ScarsStay`), so no note is written twice;
* `Asked`: two notes, or one and a promotion about to write another, and the user
  was asked.

*Maintenance* (same module; the two specifications share no variable).
`MaintenanceIsTyped`, `HeadsSurvivePasses` and `RecountsNeedFaults`, for any number of
claims, any thresholds and any number of events, faults and crashes.

* `HeadInv`: while a revision is under way its winner is active, the claims it has
  ahead are active but for the one just demoted, whose links are yet to be written,
  and that one is not the winner.  So the step that demotes a claim leaves another
  active one.
* `CountInv`: the compounding writes of a claim are at most the observations its
  history has answered, the one whose record is about to be written, and the faults;
  likewise the lost revisions charged to its source.  Writing the record moves one
  unit from the second to the first, and a write that throws or a crash in between
  moves it to the third.  It also carries that the snapshot of a pass is never ahead
  of the rows, from which the record is written.

**AgentRunProofs.**  `OnlyOnePlans` and `OverStaysOver`, for any number of resumes,
requests and crashes.  To `OnePlanner` the invariant `PlannerInv` adds `Untouched`: a
run that was not started has only absent rows and idle activations.  The argument
is that a resume plans only if the run row it read at entry was parked; at that
moment nobody else plans (`OnePlanner`), and in the same segment the row stops
being parked.  `OneMoves` and `NobodyMoves` reduce every action to that.

`TypeCorrect`, `BudgetHolds` and `StepsDrawTheirIds` (same module).  That
no run executes more than `maxToolSteps` tools cannot be seen from the counters
alone, since what runs, what is parked and what the planner has counted are three
places.  The invariant `BudgetInv` counts them together:

* `Spent` is the tools that ran plus the rows that still may run (parked, executing
  or in the background), so no approval, late call or crash raises it;
* `OwnCalls`: a call under way holds an executing row that is no other's, so what it
  counts when it returns was counted as open before;
* `ToolUse`: a parked run has counted what it spent, and so has the planner, except
  for the call it has in flight; `Rounds` says the same of the loop counter.

`OwnIds` adds that on the JSON path every recorded id is below the last one drawn
and that a call in flight has an id no step has.

*Completion* (same module; the two specifications share no variable).
`AnswersAreWhole`, `AbortsAreKept` and `CallsArriveWhole`, for any messages, limits,
stray lines and numbers of requests and faults.

* `TextInv`: what was shown is what was parsed, the parser has not thrown, and as
  long as there was no fault it has parsed exactly the text that was sent, and was
  ended with "stop" only where the message ends.  It is needed because the result
  is built from the parser, not from the message.
* `CallsInv` adds that each slot whose lines the gateway left alone (it is not
  `spoiled`) holds its call up to the piece that was sent (`SaidSlots`), and that the
  others are still tame (`TameParser`): the id and the name of a slot are the meant
  ones, or both are made up, since each field is settable once.  A result then hands
  over slot i as the i-th call, and no call mixes two heads.

The deltas of a line are read one after the other by a recursive function;
`ReadInOrder` unfolds it (by the smallest index at which unfolding would fail,
`Earliest`), so that a statement about one delta (`AddCallKeeps`, `TameStep`) lifts to
the line.  Of the endpoint it is assumed that a call it means has an id and a name;
nothing is assumed of the gateway.

**McpConnectionsProofs.**  For any number of servers, overlapping tasks, connection
attempts and faults: `ConnectionsAreTyped`, `FailuresAreRetried`, `BridgeCatchesUp`,
`ConnectedStaysUsable` and `WalksApplyTheCatalog`.  `Inv` adds `Sound`: where each task
stands, the object it holds carries the name it looked it up by, and every name a
reload has ahead is in the catalog it read.  `Remembered` says of a failed server that
the timer is armed or that a retry has its object on the list, and `Announced` that
whoever left the bridge behind ends with a notice.  `Grows` (objects are never dropped
or renamed) is the lemma under all of it, since tasks keep references across awaits.

* `UseInv`, for `ConnectedStaysUsable`: each attempt to connect, of whatever task, has an
  object of its own that has no client yet (`Attempts`), so no attempt can take the
  client of an object another one made connected; and what is shown connected is live.
* `AppliedInv`, for `WalksApplyTheCatalog`: what the map and the catalog differ by is
  ahead of the walk that is alone (`WalkInv`), and outside of a walk a retry or a
  reconnect connects only what the catalog says (`RestInv`).  Retries and reconnects may
  overlap each other, and links drop, at every await of it.

**PersonaProofs.**  `ReviewsOutlastSeeds`, `ApprovalsAreRecorded`, `DriftMatchesStreak`
and `TypeCorrect`, for any statements, seed files, core files and any number of
concurrent reviewers.  `Inv` adds `Alone` (between two awaits a
review has the process to itself), `Sound` (what a review at each label works on) and
`Filled` (a record a review wrote has content, so that a seed finds it taken).  `Accounted`: a candidate that changed a store is under way or
was approved last, and a review that changes none found it pending, which is why a
rejection that waits cannot overwrite an approval.  `AllReported`: the finding
agrees with the streak unless the review that measured has yet to evaluate it.
The last two hold until the first crash or failed write, as the properties say.

**ChatProofs.**  `ParkedTurnsResumeOnce`, `ChatIsTyped` and `TranscriptsAreWhole`, for
any number of turns, sessions, streams and clicks.  `ParkingInv` adds `ParkingLeft`: a
turn in `pendingResumes` has a parking no click has used.  `Typed` adds to the type
invariant that a parking event names a turn.  `Transcripts` is inductive
with the types: a turn is claimed before its question is written (`Unclaimed`).  A
transcript changes by a new question, by its answer after it (in the same step, or
right after it), by /undo, which takes a question and its answer out of the context
together, or is copied by a fork; each is a lemma about one sequence.  Where an undo
takes the last question, its place is the largest index of a finite set.

**RealtimeProofs.**  `QuestionsCloseOnce`, `RoomFollowsSession` and `TypeCorrect`, for any number of
questions, callers, sessions and sockets.  `ClosingInv` adds that a call past its
first look names a question that was asked; a deadline that a read discovers
(`ObservedInStep`) and a decision each lengthen the trail by one event in the step
that changes the status.  `RoomInv`: the socket's room and the subscriptions on
their way, taken in order, end at the session the page tracks; a step moves a tag
from the wire to the room, appends one, or replaces the socket, and leaves that
end as it is.  `PageInv` adds to `RoomInv` what the types rest on: what is left of a
refresh begins with a job that reads something and tracks the session, if at all, last;
one that reads a session's list names that session; a cut link or a closed end keeps
neither tags nor frames.

**StorageProofs.**  `NoRowIsLost` and `ListenersAreCurrent`, for files of any release
and any number of stopped boots.  For the first, the invariant `HoldRows` is only that
files hold rows; the weight is in `RowsStep`, which goes through every statement a
boot may run.  For the second, what is wrong with a file and what the boot has yet to
do must be compared, statement by statement (`OpenInv`):

* `ProgramLeft`: what is left of a boot is a suffix of its program: whoever has to
  make a file has the whole of that file's program ahead, in order;
* `FormsLeft`: a part of an old form has the statement that mends it ahead; a part
  without a form has what creates it ahead, or the verification that misses it, or it
  is the index of the runs in a boot that rebuilt their table;
* `RowsLeft`: claims without norms or index entries have the backfill and the reindex
  ahead, and a run left running means the runs table is still old.

A core listens when nothing is left to do, so that nothing is left wrong.

**Only model-checked.**  Liveness under fairness (`EveryCallReturns`,
`RivalsAreResolved`, `PageComesToRest`, `PageCatchesUp`, `ComesUp`, `RequestEnds`) is
out of the prover's reach.  Every safety property of the passing runs is a theorem
but `OneClientPerServer`, which the code keeps only under the conditions of its run.
The type invariants of `Storage` and `Completion` are not proved; the latter bounds a
sum over the calls, a fold that takes an operator as a parameter.

## Where the code departs from what is written about it

TLC refutes the following properties.  They are in the modules; to see the trace,
add the property to the configuration named, as INVARIANT or, where it is temporal,
as PROPERTY (without SYMMETRY when it is a liveness property).

In the ledger and the loop:

* `AnsweredCallsSettle` (`ToolLedger_one.cfg` with `Offered = {"foreign"}`): the MCP
  result is measured as text and stored as JSON; one just below 64 KiB is rejected
  by the column (`session/database.ts:144`) and its row stays executing for good.
* `CancelledIsTerminal` (`AgentRun.cfg`): `transitionRun` and `markTerminal` have no
  state guard, so resuming a request of a cancelled run makes it executing and then
  completed, while `agent-run.repository.ts:225` says "Terminal by design".
* `OneTurnPerMessage` (same): a resume that arrives while another is continuing
  answers the parked step itself, and the message gets two turns.  `Chat` has that
  resume too; its `TranscriptIsWhole` is about one record at a time.
* `ForcedIsExhausted` (same): a forced final answer may leave the run completed
  instead of budget_exhausted.
* `CompletedIsDecided` (same): a resume that only polls completes a run whose
  approval is pending.
* `ContinuedOnce` (same): a request can be planned from twice.
* `StepsHaveOwnIds` without `~stream`: the stream path goes on with the id of a
  rejected proposal or a skipped repeat (`conversation.service.ts:822`, `:859`).
* `CorrectionsAreOffered` (`Completion.cfg`): a rejected or skipped call stays in the
  context under the endpoint's id; when the endpoint uses that id again, as some
  number their calls per message, `ToolOffer` refuses the context
  (`llm.protocol.ts:160`) and the turn fails instead of being corrected.
* `ArgumentsAreMeant` (same): when a piece of a call's arguments is lost or repeated and
  what is left parses as another object, the loop is handed a call that nobody meant
  (`llm.protocol.ts:279`, `:380`: pieces are concatenated unchecked).
* `PlainTextIsWhole` (same): without an offer a text that was cut by the token limit
  (finish reason "length") is an answer.

In the connections:

* `OverlapIsApplied` (`McpConnections_overlap.cfg`): tasks apply the catalog they read
  before their awaits; an older one puts back what a newer one removed, changed or
  disabled.
* `OneClientPerServer` with `Faults = {"list"}` (`McpConnections_serial.cfg`): a
  connection whose tools/list fails is not closed before the retry opens another;
  with two tasks and no faults it is connected twice.
* `ErrorsAreHeard` (`McpConnections_overlap.cfg`): a transport error during tools/list
  drops the client's reference while the server becomes connected.
* `NeverReconnectsBlindly` (two servers, two tasks, 5 connections): `retryFailed`
  walks a copy of the map.

In memory and persona:

* `CrashAppliesOnce` (`Promotion.cfg`): a crash between the evidence and the commit
  counts the candidate twice (`ARCHITECTURE.md:156`: "so a crash can't double-apply").
* By inspection of `Promotion`: evidence for a contradicted or retired claim never
  makes it active again, while `emitCommitted` announces it as active; and a crash
  or failed write after the demotion loses the note and the question.
* `LosersUnlock` (`Maintenance.cfg`): the lock rung (`maintenance.service.ts:706`)
  does not look at the status, so a contradicted claim that revision unlocked is
  locked again in the next pass.
* `FindingsAreReconciled` (`Persona.cfg`): a contradiction whose candidate was
  decided is not resolved by the audit, although `persona-drift.service.ts:31` says
  "reconcile, don't accumulate".
* By inspection of `Persona`: a core that was A, then missing, then B is not logged
  as changed.

In the browser:

* `ParkedUnderOwnSession` (`Chat.cfg`): a turn that parks after the user opened
  another session is parked under that one, and approving its card resumes it there.
* By inspection of `Chat`: a `done` with status processing that is heard after /new
  leaves the bubble up; a card that is clicked before its `done` is heard leaves the
  turn parked.
* `ConnectedIsLive` (`Realtime.cfg`): a socket that `reconnect()` replaced while it
  was connecting can still say hello, and nobody looks when it closes.
* By inspection of `Realtime`: a frame dropped for a saturated socket that stays open
  is not covered by any resync, although `realtime.gateway.ts:297` says so (the lists
  concerned are `excused`); a refresh that ends after the session changed shows the
  old session's cards, and an older answer overwrites a newer; a question that lapses
  on a read publishes nothing; the page does not check heartbeats.

In the files:

* `EveryReleaseOpens` (`Storage.cfg`): a claims table of M10b lacks a column the
  schema's index names, and the schema runs before the migration that adds it.
* `OpenHasEveryIndex` (same): the boot that upgrades an M9a file drops the old runs
  table with its index after the schema ran, and listens without the index
  (`database.ts:906`); the next boot creates it.
* `RetryIsSafe` (same): a copy of the single file that failed after the new file was
  made is not tried again, since the file exists.

## Not modelled

* Text: prompts, extraction, rendering, skills, display commands, schema translation.
* Scoring: recall, ranking, confidence and activation are real-valued and
  sequential; the hallucination guard scores one answer.
* Auth, health and security reports: stateless or read-only.
* The vault's encryption and key rotation, an offline command that rewrites its file
  once per secret and has no recovery; the provider registry, which reads and
  rewrites its file synchronously.
* Storage errors in the ledger and in the run row: better-sqlite3 throws out of the
  handler, which is a crash of that activation only; the process crash covers the
  states this leaves in the tables.
* An approval for a promotion that cannot be found, and a candidate that is
  deleted: nothing in the code removes either.
* Claims of several topics in one pass: rungs read and write claims of one topic,
  but for links, which name counterparts of the same topic.
* In `Storage`, a release that is downgraded, and boots of different releases over
  the same files.

## Plan

What is worth adding next, in the order of what it protects:

1. An abstract run that `AgentRun` refines: one planner, one budget, one end.
2. An abstract belief base that `Promotion` and `Maintenance` refine together.
3. The hallucination mitigation as an operator, and the provider registry with a
   catalog edited by hand.
