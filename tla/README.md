# Cite — a TLA+ verification project

This directory keeps TLA+ models of *Cite* (`aidd-chat`), a wiki-grounded chat
service: a FastAPI process (`src/aidd_chat/`) that keeps every Conversation in
memory, a Node child process (`agent/`) that runs the research agent, and a
browser client (`src/aidd_chat/web/app.js`).  Paths below are relative to the
repository root.  `PROJECT.json` maps every definition of the models to the
lines it stands for, and lists the runs, the hazards and the theorems.

## 1. The system

A user's question becomes a **Run** of a **Conversation**.  A request thread
reserves capacity, the Conversation accepts the Run, a task on the one agent
loop calls the agent runtime and commits what it reports to the Run's event log,
and the browser follows that log over SSE or by polling.  Everything is in
memory: a Conversation ends with a Purge at its Absolute Expiry.

| Part | State it keeps | Operations | Interacts with |
|---|---|---|---|
| Capacity ledger (`adapters/memory.py`) | counters per session and per process, leases, spend window | `reserve_run`, `start_run`, `release_run` | the application, around every Run, under the store's index lock |
| Conversation aggregate (`domain/__init__.py`) | messages, Runs and their event logs, idempotency receipts, the active Run | accept a question or a Retry, select and record the request, mark running, steps, deltas, complete, fail, cancel, timeout, expire | the store, which holds one lock per Conversation around each call |
| Conversation registry (`adapters/memory.py`) | resident Conversations, reverse index Run → Conversation, tombstones, rate table, the Sweeper thread | create, get, every locked access, expire, sweep, close, `check_rate` | request threads, the Sweeper, the application's Purge callback |
| Run generation (`application/__init__.py`) | table of generations with their flags, tasks, Deadline alarms, stops | submit, Retry, poll, Cancel, `_generate`, Deadline, stop and Close Grace, Purge | ledger, aggregate, agent runtime; request threads and one event loop share `_generation_lock` |
| SSE stream and poll (`main.py`) | cursor of each open stream, SSE slot counter | `stream_run`, `event_source`, `poll_run` | reads the aggregate one lock at a time; writes to the browser |
| Web client (`web/app.js`) | the Run on screen, an EventSource, poll timers, page visibility | start, each frame type, poll, reconcile, Cancel fallback, hide and show | the two HTTP reads above |
| Agent runtime (`adapters/pi_sidecar.py`, `agent/sidecar.mjs`) | the child, its pipes, channels by Run, the child's own Map of Runs | `run`, `probe`, `abort`, respawn, read loop, `aclose` | the generation's task; JSON lines over two pipes |
| Readiness Gate (`application/__init__.py`) | the shared probe, a success cached for thirty seconds | `is_ready`, `get_policy_if_ready`, `policy_readiness` | request threads and the agent runtime's probe |
| Web client, submission (`web/app.js`) | the conversation on screen, the pending question or Retry, the creation under way, whether the page is shown | submit, its repeated attempt, Retry, New Conversation, refusals, hide and show | POSTs to the endpoints below; the browser's one capability cookie |
| HTTP boundary, other endpoints (`main.py`) | none of its own | the command endpoint, creation and its cookie | the aggregate and the application, one call each |
| Wiki research loop (`agent/run.mjs`, `wiki-tools.mjs`) | one Run's steps, budgets, documents read, decision | four tools, the guarded model calls, decide, compose, abort | the model through an agent library; a Wiki others edit; frames to the adapter |
| Fake agent (`adapters/fake_agent.py`) | abort flags by Run | `run`, `abort` | the same port as the sidecar |
| Contracts (`contracts/__init__.py`) | none: shapes and their cross-field rules | validators | every event, result and projection is built through them |
| Bootstrap (`bootstrap/__init__.py`) | none: settings read once | accept the deployment settings, bind an agent | gives every other part its limits |
| Rendering, telemetry, tokenizer | markdown; counters nobody decides by; token counts | — | — not modelled (section 9) |

### What is hard here

* **Many writers of one Run.** Its end may be committed by the task on the loop,
  by a Cancel or a poll on a request thread, by the Deadline alarm, or wiped by
  a Purge, each between any two lock sections of the others.
* **State read before a lock and used in it.** A request authorizes before it
  waits for the Conversation's lock; History is selected in one call and recorded
  in another; a stream decides to close on a state read before it awaited writes.
* **Resources given back from several places.** A lease by the request or by the
  task; an SSE slot by a generator's `finally` or by a background task; a child
  process by whoever finds it dead.
* **Order as a contract.** Terminal commit before abort; four final events in a
  log with a hard ceiling; an expiry tail numbered from a log that is then cleared.
* **Two ends in two languages.** The server's event orders, and the tab's strict
  frame grammar and poll reconciliation.
* **Failure.** A child that dies at any moment, a Provider that hangs or ignores
  its abort, streams that break, polls that fail, a page that is hidden.
* **A command sent twice.** A POST or its answer is lost or late, the tab repeats
  it, and both may arrive after the user has moved on to something else.
* **A Wiki that changes.** Documents come and go between the reading, the decision
  and the composing of one answer, and not all of them fit.

`PROJECT.json` lists forty hazards at their lines with the properties that would
catch them, or a note where none does.

## 2. Modules

| Module | Models | State and actions, against the code |
|---|---|---|
| `CapacityLedger` | the lease counters and the Spend Circuit Breaker | the counters are the store's fields; `issued`, `started`, `released` are the leases' own flags. One action per method, each one index-lock section |
| `RunSlots` | abstract: admission by counting Runs | — |
| `Conversation` | `ConversationAggregate` and `Run` behind the store's lock | `runs[r]` has the fields of `Run` (its log as a sequence of typed events, its sizes in bytes), with `messages`, `receipts`, `activeRun`, `resident`, `tombstone`. One action per operation, log appends and sizes included; a refusal is a stutter |
| `RunLifecycle` | abstract: started once, ended once, gone only by a Purge | — |
| `ConversationStore` | the registry, the Sweeper, the rate table | an access is two steps, before and under the lock, so that what was read may be stale; `agent[a]` is where each thread stands; a Sweeper notes what is due in one section and expires it in others |
| `Generation` | `ChatApplication` around one Conversation | a step is one store call or one `_generation_lock` section. `request`, `task`, `thread`, `stop` are program positions; `entry` is the `_Generation` object. The store is used by its abstractions: `state` as `RunLifecycle` has it, `waiting` and `slotted` as `RunSlots` has them |
| `EventStream` | `poll_run`, `stream_run`, `event_source`, the SSE slots | EXTENDS `Conversation`: each locked read is an action, between which the real aggregate moves. `sent` is what went out, `up` that the client listens |
| `WebClient` | the tab's following of one Run | EXTENDS `EventStream`: the browser and the whole server side of its Run together. `tab` has the fields of app.js's `run` and the page flags |
| `AgentRuntime` | the adapter and its Node child, with two pipes | a step runs from one `await` to the next. `call[c]` is a coroutine, `child[k]` a process with what is in its pipes; a dead child's unread input is lost, its unread output is not |
| `Readiness` | the Readiness Gate and its probe | a step is a `_readiness_lock` section or the end of a wait |
| `Submission` | the commands of one tab, the endpoints that take them and the network between | `tab` has the module variables of app.js (`pendingSubmit`, `pendingRetry`, `conversationFailedClosed`, `run`), `creation` is how far a POST of a conversation has come, `wire` and `answers` what is under way. One action per handler; a request is answered in one step, by the refusals of main.py in their order. Two ghosts name what the code gives up on: `doubtful` commands and a `stranded` creation |
| `WikiResearch` | `runAgent` and its tools for one Run | `state` is `newRunState` with the steps emitted for their number; `phase` is where `runAgent` stands; a step is a tool call, a model call or a stretch between two awaits. A text is its tokens; `fitTokens` may cut to any size within its bound |
| `FakeAgent` | the deterministic agent | one action per callback, the abort looked at between two |
| `AgentPort` | abstract: what the application takes for granted of any agent | — |
| `Bootstrap` | the accepted settings and the choice of the agent | operators without state |
| `BoundAgent` | the agent bootstrap binds, whichever it is | composes `Bootstrap`, `FakeAgent` and `WikiResearch` |
| `Contracts` | the cross-field rules of the wire contracts | operators, used by `Conversation`, `AgentPort` and both agents |
| `Admission_proofs`, `Conversation_proofs`, `ConversationStore_proofs`, `Generation_proofs`, `EventStream_proofs`, `AgentRuntime_proofs`, `Submission_proofs`, `WikiResearch_proofs` | the theorems (section 6) | — |
| `MC…` | one per module: the small sets TLC uses | — |

Composition: `WebClient` EXTENDS `EventStream` EXTENDS `Conversation`, so its
runs check browser, HTTP reads and aggregate as one system.  `Generation` stands
on the two abstract modules instead, and `ImplementsRunLifecycle` and
`ImplementsRunSlots` are what makes that sound: both are checked and proved.
`BoundAgent` shows that the two agents implement one `AgentPort`, for whichever
settings bind them.  `Submission` stops where `WebClient` and `Generation` begin:
that a Run ends is `EveryRunEnds`, that the tab hears of it `TabSettles`; in
`Submission` they are the fairness of `EndRun` and `LearnEnd`.

Operators whose name contains `Fault` are faulty variants of the definition that
follows them (a dropped guard, a missed reset, a swapped order).  No action uses
them.  Each is there to show that a property can fail: with the variant put in
the definition's place, the run finds the property violated.

Data is abstracted to what the properties tell apart.  A text is a size in bytes
and a size once escaped (in the tab: its number of deltas); a question's message
is named by the Run that first asked it; a conversation id, a key, a content
digest and a profile are model values; time is a set of "has passed" facts that a
step of the clock makes true.

## 3. What the runs check

| Run | Question | Properties |
|---|---|---|
| `ledger` | Do the counters stay the populations they stand for, and decide admission as counting the Runs would? | `LedgerMatchesLeases`, `SpendWithinLimit`, `ImplementsRunSlots` |
| `conversation` | Three Runs with Retries, commits from anyone in any order, Deadlines, Purge, and logs at their ceilings | `TranscriptMatchesRuns`, `RetryContinuesLineage`, `RunEndsInsideCeilings`, `WireFormHolds`, `PreparedIsCurrentHistory`, `CommittedIsStable`, `ExpiryTailContinuesLog`, `ImplementsRunLifecycle` |
| `conversation_store` | Two Conversations and one resident place: requests, Sweeper, clock and shutdown race for the Purge | `FirstDetectorIsUnique`, `StoreIsConsistent`, `ExpiredIsReclaimed` |
| `generation` | Two questions, with one key or two, and a thread that polls and cancels | `AbortOnlyAfterFence`, `SlotHeldWhileOwned`, `OneRunPerKey` |
| `generation_live` | Two threads poll and cancel one Run; does it end and its slot come back? | `ReplyIsSettled`, `EveryRunEnds`, `EverySlotComesBack` |
| `generation_flag` | violation: does the flag tell a timeout from a Cancel? | `FlagTellsTimeoutFromCancel` |
| `event_stream` | Two requests share one slot while the Run moves between their reads | `SlotsAreHeld`, `FramesFollowTheLog`, `ServerCloseIsComplete`, `ExpiryEndsStream`, `EverySlotComesBack` |
| `web_client` | Does the tab, whatever breaks, show the committed outcome and settle? | `ShowsCommittedOutcome`, `NoFrameRefused`, `PollContradictsOnlyCutAnswers`, `TabSettles` |
| `agent_runtime` | One Run and two probes share a child that dies, is respawned, aborted, closed | `EveryChildIsOwned`, `WorkIsWanted`, `CrashEndsItsCalls` |
| `readiness` | Two threads, probes that are late or never answer, a profile that changes and comes back | `ReadyIsEarned`, `HealthyProbeAdmits`, `FlightsLand` |
| `submission` | One tab asks, retries, stops and starts over while the network loses, delays and cuts off anything: one Run per command, a screen that agrees with the server, a composer that comes back? | `OneRunPerCommand`, `TabMatchesServer`, `TabComesBack` |
| `agents` | Is whichever agent the settings bind one runtime to the application, and does its answer cite what it saw? | `AnswerCitesWhatItSaw`, `ImplementsAgentPort` |

Each property's comment in its module says what it promises and why it could fail.
The project keeps to twelve runs and forty checked properties, so that all of them
together stay something one runs before a commit.

Run one with `tlc -config Generation.cfg MCGeneration`; the run names of
`PROJECT.json` give the module and the cfg.

## 4. What the runs found

* **`generation_flag`.** Two callers of `_commit_timeout` save `timed_out` as False
  and as True; the loser of the commit restores its False over the winner's True.
  The next question then waits for a Deadline expiry, which the comment at
  `application/__init__.py:1637` says is deliberately not waited on.

Seen while modelling and recorded as hazards rather than runs:

* `reserve_run` compares `_provider_calls` with the ceiling but only `start_run`
  increments it (`memory.py:157`): several reservations pass one comparison and then
  all start, where `.env.example:91` promises calls "actually in flight at once".
  `ProviderOvershoot` proves the overshoot is bounded by the queue.
* A tab whose stream broke inside an answer that the Run then completes holds a
  proper prefix; `reconcileProjection` calls the completed projection a
  contradiction and closes the conversation on screen (`app.js:1614`).
  `PollContradictsOnlyCutAnswers` shows this is the only way it happens.
* A poll that fails, or is shed, while the page is hidden ends without a timer and
  leaves `run.polling` true (`app.js:1584`); the `startPolling` of the page's return
  does nothing then (`app.js:1540`, `app.js:1695`), and the tab never settles.  It
  needs a hidden page to run its callbacks: one with a stream that has just ended
  starts a poll after pagehide.  Browsers put a hidden page away whole, so `WebClient`
  has it as the assumption `HiddenPageRuns`, FALSE in `WebClient.cfg`; with TRUE, TLC
  finds `TabSettles` violated by this path.
* A question refused with `run_already_active` closes the conversation
  (`app.js:886`), although its envelope says `retryable: true` and `app.js:76` says
  the list of codes decides only whether the sentence is shown.  It takes a stop and
  a question within the time the stopped generation drains.
* A load-shed refusal reopens the composer because it "created nothing"
  (`app.js:57`, `app.js:881`), also when it answers the second attempt of a question
  whose first attempt did arrive or still may.  The next question then meets a Run
  the tab does not know of.  The ghost `doubtful` marks exactly these commands, and
  `OpenComposerIsIdle` shows there are no others.
* A creation whose headers arrive and whose body breaks off leaves the browser with
  the new cookie and the tab with the old conversation, "kept" (`app.js:587`): every
  later command of it is a 404.  The ghost `stranded` marks it.
* A Run ended while still queued has no `run.status(running)`, which
  `docs/sse-contract.md:71` calls always Sequence 1.  `WireFormHolds` allows
  it and `NoFrameRefused` shows the tab takes it.
* A Cancel between `_await_previous_generation` and the accept goes unseen, and the
  new Provider call starts while the old one drains (`application/__init__.py:1018`).
* An abort before the Run has a channel sends nothing; if the Close Grace then
  cancels the task, the child works on alone (`pi_sidecar.py:396`; the exception in
  `WorkIsWanted`).
* The clock may pass the Absolute Expiry between the check before the lock and
  `ensure_current` in it: a 410 without a Purge (`domain/__init__.py:413`), where
  `memory.py:343` speaks of one first detector.  The Purge itself is unique.
* Events committed between a stream's last read and the Purge are in no tail, so
  the tail's Sequence may skip them (`memory.py:701`).

## 5. Bounds, and why they are enough

* **CapacityLedger**: five leases, three of one session, with ceilings 3/2/2: each
  ceiling is reached with the others open.  The theorems lift the bounds.
* **Conversation**: three Runs give a question, its Retry and the Retry's Retry, or
  a second Turn beside a lineage; `MaxTurns` 2 refuses a third.  Logs of 6 events
  or 11 bytes leave room for the end and one event more, so each ceiling binds; one
  text fits and one does not.  `EveryRunFits` holds for every ceiling.
* **ConversationStore**: two Conversations for one place, so that the second waits
  for the first's Purge; two request threads and a Sweeper race for it; a second
  possible Sweeper that must not begin; a rate table of one entry, so that every
  newcomer evicts.  Each thread is a client IP of its own.
* **Generation**: two POSTs with one or two keys are the least that share a replay
  check, a slot or an active Run; two observers of one Run are the least that race
  on a flag.  Two Runs and two observers with liveness at once are beyond the time
  a run may take, hence two runs.  Ceilings of 2 never refuse two Runs; the
  refusals are CapacityLedger's.
* **EventStream**: one Run, one slot, two requests, one from the start and one
  whose cursor is 4, where the shortest logs have ended: the cursor may lie before,
  at or past the end.  A log has room for a body of up to two events.
* **WebClient**: `MaxPollRetries` 1 (3 in the code) has the last retry and the
  giving up; `MaxUpsets` 1 page hidden or stop unanswered; `MaxInFlight` 2 frames
  written and undelivered.  Closing the EventSource drops the stream at the server
  at once.  A step of 8 bytes makes the byte ceiling bind within an answer.
  `HiddenPageRuns` is no bound but an assumption about the browser (section 7).
* **AgentRuntime**: a Run and two probes all find one child dead; `MaxSpawns` 2
  children and `MaxFrames` 1 report a Run makes before its end.
* **Readiness**: three flights and two profile changes are the least for a profile
  that changes and comes back around a probe in flight.

* **Submission**: two conversations, two questions and three Runs give a question,
  its Retry and a second question, each repeatable, before and after a New
  Conversation.  `MaxWire` 2 requests are under way at once: a repeated attempt
  beside its first, or beside a newer command; of a third one is lost.  The tab
  repeats once (`attempts < 2`), which is the code's own number.
* **BoundAgent**: two tool calls and two tokens of budget make every limit bind at
  the first or the second call; a batch of two has a call beside a decision and one
  past the limit; two documents, one of which fits only without the other, make
  `documentsBlock` skip.  The theorems lift these bounds.

A cfg says `CHECK_DEADLOCK FALSE` where the system really stops: a purged
Conversation, ended Runs, a settled tab, a closed adapter or Store, an answered Run
of an agent, or (Readiness)
every bounded probe used up.  CapacityLedger and Submission never stop, and deadlock
is checked.

Symmetry is used only in runs without liveness (`Conversation`, `Generation`), over
Runs and keys, which the specifications treat alike.

## 6. Proofs

`tlapm X_proofs.tla` checks all of them.

**Admission_proofs** has what stands between a request and a Run: the ledger, the Gate
and the settings.  For `CapacityLedger`, from `LimitsAssumption` (the limits are naturals
and every lease belongs to a Conversation): `LedgerInv` adds to `TypeOK` and
`LedgerMatchesLeases` that the set of leases in the process is finite, without
which cardinalities say nothing when a lease is added or removed; lemmas
`ReservePopulations` … `DropPopulations` say how each step moves the populations.
`CeilingInv` states the ceilings on the counters themselves and is inductive
beside `LedgerInv`.
* `LedgerConsistent`, `RunCeilings`, `SpendBreaker`, `ProviderOvershoot`;
* `LedgerImplementsSlots`, the refinement of `RunSlots`.

For `Readiness`, from `ReadinessAssumption` (there is a profile): `GateInv` says of every
flight what it still proves (`FlightInv`: one that answered well filled the cache, and
the cache has it until the profile, a Gate or the clock moved) and that the cache is
empty while a probe is in the air.  Both properties speak of a step, and follow from it.
* `ReadinessIsEarned`, `HealthyProbesAdmit`.

For `Bootstrap`:
* `AcceptedSettingsSuffice`: settings the bootstrap accepts meet what `CapacityLedger`,
  `ConversationStore` and `Conversation` assume of their limits, provided the four
  terminal events fit in `TERMINAL_EVENT_BYTE_HEADROOM`.

**Conversation_proofs**, from `LimitsAssumption` (a log can hold a start and an
end) and `InputsAssumption` (sizes of texts, steps and sources).  `StepShape`
reduces Next once and for all to seven shapes (a new queued Run, a start, one
more event, an answer with its end, an end, a step that keeps the Runs, a Purge), so that every later proof has one
case per shape.  On it rest
* `TypeCorrect`, and `OneLiveRun`: the active Run is exactly the live one;
* `PurgeIsFinal`: a Purged aggregate stays empty;
* `EveryRunFits`: no log passes its ceilings.  The property is not inductive: it
  says nothing of a live Run's room.  `Ceiling` strengthens it with the headroom a
  live Run still keeps, and `LogStart` with what a log holds before its first event;
* `AggregateImplementsLifecycle`: the refinement of `RunLifecycle`;
* `CommittedStays` and `ExpiryContinuesLog`, the action properties of the log, from
  `StepCommits`: a step appends to a log, cuts nothing and changes no Run that ended;
* `TranscriptIsTheRuns`, `RetryFollowsTarget`, `RequestIsCurrent`.  None of them is
  inductive.  `HeritageInv` follows a chain of Retries to the question it repeats,
  `SelectedInv` says that each question has at most one answer selected, `Transcript`
  that the messages are the selected ones in the order of `OrderInv`;
* `WireFormIsDocumented`: every event and snapshot has the form of `Contracts`, from
  `CoreInv`, which relates a Run's state to the last event of its log.

**ConversationStore_proofs**, from `StoreAssumption` (threads, Sweepers and `None`
are distinct).  `StoreInv` adds to the three properties what they need to be
inductive: `DetectionInv` says that a resident or unmade Conversation was never
detected, since an id is made once, and `StoreTypeOK` that a thread about to expire
names a Conversation.  `StoreShape` reduces Next to what a step does to the
Conversations, `OtherStepsAdvance` to what it does to the threads.  The rate table has
an invariant of its own, `RateInv`, for no other variable follows it: a charge finds
room or makes some by giving up its oldest entries (`ChargeHolds`), and what the
Sweeper leaves are entries of the table, each once (`ChosenHolds`).
* `OneFirstDetector`, `PurgeLeavesNothing`, `OneSweeperRuns`;
* `StoreStaysConsistent`: `StoreIsConsistent` for every size of the table, of the limit
  and of the batch it gives up.

**Generation_proofs**, from `GenerationAssumption` (Runs, threads and the markers are
distinct).  `IInv` relates the four places where a Run's fate is kept: `ReceiptInv`
(every Run the store has, has its receipt, and a Purge takes them all), `OwnerInv` (the
task begins where the request ends, and the generations list a Run only until its
task's `finally`), `LeaseInv` (which half of the ledger a lease is in while its owner
lives) and `ThreadInv` (what a thread has read is still so where it acts on
it: `Standing` and `Reached` say which part of the past each position may rely on).
* `FenceBeforeAbort`: no agent is aborted before its Run's fence is closed;
* `LeasesFollowOwners`, `KeyMakesOneRun`, `RepliesAreSettled`.

**EventStream_proofs**, from the Conversation's assumptions and `StreamAssumption`:
first the streams.
A step is one of the aggregate, for which `StepShape` is reused (with `Wide`, what the
Conversation's proofs established), or one of a request, which leaves the aggregate
alone.  `StreamCore` says that what a request holds in hand is a prefix of what the
log has by now, `SlotInv` that the slots are counted by the requests that took one;
`Framed`, `Closed` and `Announced` are the three parts of what went out.
* `SlotCount`, `FramesAreTheLog`, `CloseIsTheEnd`, `ExpiryEndsTheStream`.

The same module, from "The tab" on and with `ClientAssumption` (the two requests
differ, and a stream may be opened from the start), proves what `WebClient` promises.
`ClientInv` stands on three relations between the tab and the one Run, each of which
says more than the property it serves:
* `FollowInv`, while a source is open: there is a Run, the resident one or what it
  was when it was Purged (`Past`), all of whose frames in flight are events of its log
  or the expiry after it (`AllTold`), and the tab looks as if it had taken a beginning of
  that log (`Shows`).  `FrameTaken` is then the agreement of the two grammars: whatever the
  log in order says next, `Accepts` takes it, and the tab `Shows` one event more;
* `KnowInv`, whatever channel it came by: what the tab knows of a Run that is there
  (`Knows`) stays true while the Run moves on (`Moved`, `KnowsMove`);
* `PollInv`: a projection read for the tab is of the Run as it was (`Pictures`) and
  agrees with what the tab knew (`Agrees`), though both may move before it is delivered.

`BaseStep` shows that what the proofs about `StreamSpec` assume holds here too, where the
browser also drops connections (`Clears`).  Most actions of the tab are `Local`: they hold
one connection or none, and one lemma (`LocalStep`) covers them; the server's steps go
through `Serves`, the shape of one request's step.
* `FramesAreAccepted`, `ContradictionIsACutAnswer`, `CommittedOutcomeShown`.

**AgentRuntime_proofs**, from `RuntimeAssumption`.  `OwnerInv` says that a running
child is the adapter's or is being reaped, and that one call at a time starts another; `RunInv` follows one
Run's command through the two pipes (`FreshInv` before it is asked, `AskedInv` while
it is in a pipe, `ToldInv` once an abort is on its way, `EndInv` after its end).  Most
steps are `Quiet` for a Run: they touch none of the places its command may be in.
* `OneOwnedChild`: a child that lives is the adapter's or is being reaped;
* `NobodyWorksAlone`: a child works on a Run only as long as somebody wants it.

**Submission_proofs**, from `BoundsAssumption` and `NoneAssumption` (`None` is no
pending question and no Run on screen).  The two properties are far from inductive: a
POST that arrives late makes a Run long after the tab moved on.  `IInv` is `TypeOK`
with two halves.  `CommandInv`: what is under way was asked by this tab, a question's
requests and Runs stay in the conversation it was typed in, an answer tells what was
made, a conversation being created is in use nowhere yet.  `ComposerInv`: one command
is pending and one attempt of it is waited for (`PendingInv`), a first attempt is under
way or answered, never both (`FirstInv`), the tab only moves on to later Runs
(`OrderInv`), and what works in the conversation or is on its way there is pending, in
doubt or known (`KnownInv`).  `Shape` reduces Next to what a step does to the tab, field
by field.
* `CommandsRunOnce`: one Run per command, however often it is sent;
* `ScreenMatchesServer`: the open composer, the shown Run and the cookie match the
  server, but for the two exceptions the ghosts name.

**WikiResearch_proofs**, from `ResearchAssumption` (the index is a document, the
limits are positive, `None` is no decision and no result) and `BoundAssumption` (nor
a result of the deterministic agent).  `AnswerCitesWhatItSaw` speaks of the end of a
Run alone; `IInv` says for every phase what makes it true there: each document in
`reads` was announced by a step (`ReadsAnnounced`), the answer being composed cites
only what went into the request, and the counters are still below their caps by what
the phase may add (`Sound`).  Every tool call goes through one lemma, `ToolStep`, on
the relation `Follows` between the bookkeeping before and after; one lemma per function
of the code (`MarkSound`, `AdmitSound`, `ChargeSound`, `ReadSound`) says that it
follows.  The refinement adds `PortInv`: the log obeys the port's rules and is at most
as long as the tool calls, the limit, the decision and the composing account for, each
of the last three told by a field of the state (`LogInv`), so that a step announced
twice, or the budget of a log passed, would show in a field; and the answer being
composed would already pass AgentResultV1.  `Logs` is to `LogInv` what `Follows` is to
`Sound`.  `NextPort` then says what the application sees of each action (`PortStep`),
`FakeNext` the same of the deterministic agent, whose log is a beginning of its
script, and `SidecarIsAgent` and `FakeIsAgent` that this is a step of `AgentPort` or
none.  From it:
* `BoundAnswersAreSourced` (and `AnswersAreSourced`, of the sidecar alone) and
  `BudgetHolds`;
* `EitherAgentIsThePort`: `BoundSpec` implements `AgentPort!Safety`.

**Only model-checked.**  Liveness and everything that speaks of ENABLED is out of
TLAPS's reach and stays with TLC: `EverySlotComesBack`, `EveryRunEnds`,
`CrashEndsItsCalls`, `TabSettles`, `FlightsLand`, `ExpiredIsReclaimed`, `TabComesBack`,
and of `ImplementsAgentPort` that the end of a Run is reached.  So do facts by
induction over data (what a recursive function or a fold computes for every input).

## 7. Fairness

| Specification | Fair | Why the code justifies it | Not fair |
|---|---|---|---|
| `Generation!FairSpec` | request threads once begun, tasks, alarms, stops and Close Graces, the clock, the Purge and its Provider stop | OS threads and one event loop are scheduled; timers fire; the Sweeper wakes every thirty seconds | the Provider, the clients: they may never answer, never poll |
| `EventStream!StreamSpec` | serving a request, the Deadline | uvicorn schedules its handlers. A blocked write counts as served sooner or later: nothing in the repository bounds it (a hazard with a note) | clients, commits, Purge |
| `WebClient!ClientSpec` | the browser's own deliveries and timers, the server serving, the Deadline | a page that is shown runs its timers, and a hidden one comes back; until then it runs nothing (`HiddenPageRuns` is FALSE) | breaks, failures, users |
| `ConversationStore!FairSpec` | the Sweeper thread, the stop after a Purge | a started daemon thread is scheduled; its wait times out | requests, shutdown, creation |
| `AgentRuntime!FairSpec` | the loop's coroutines and read loop, the end of a child that is reaped | whoever reaps a child kills it (`process.kill()`) and awaits its exit | the child: it may be silent for ever or die |
| `Readiness!FairSpec` | the probe's task, its deadline, waking threads | a timer on the loop bounds the probe | the port's answer |
| `Submission!Spec` | the tab's handlers and timers, the end of a creation, the end of a Run and the tab's learning of it | fetches carry a timeout (`POST_TIMEOUT_MS`, 3 s for a creation); `EveryRunEnds` and `TabSettles` are checked elsewhere, the latter for a browser whose hidden pages run nothing, as here | the network, the server's answers, the user, the page's return |
| `BoundAgent!BoundSpec` | the bound agent's own steps, the model's answers among them | one event loop each; a model that hangs is ended by the Run's Deadline, whose abort `Generation` and `AgentRuntime` model | the abort, edits of the Wiki |

Fairness is for a page that is shown.  Between pagehide and pageshow the browser runs
no task of the page, timers and answers alike: the HTML standard runs a document's
tasks only while it is fully active, and pagehide is where it stops being so.  What was
due comes after pageshow.  `Submission` guards its actions with `~tab.hidden`;
`WebClient` makes it the constant `HiddenPageRuns`, because `pollRun` has a branch for
the other case (section 4).  `TabSettles`, and with it the fairness of `LearnEnd` in
`Submission`, rest on FALSE; the safety theorems hold for both values.

## 8. Plan

Ordered by how much depends on it; what is done is marked.

1. ☑ `CapacityLedger` / `RunSlots`, with proofs.
2. ☑ `Conversation` / `RunLifecycle`, with proofs.
3. ☑ `Generation` on the two abstractions.
4. ☑ `EventStream`, then `WebClient`, on `Conversation`.
5. ☑ `AgentRuntime`, `Readiness`, `ConversationStore`.
6. ☑ `ConversationStore_proofs`: the Purge, the Sweeper and the rate table.
7. ☑ `Generation_proofs`: fence before abort, slots, one Run per key.
8. ☑ `EventStream_proofs`, on the `StepShape` of `Conversation_proofs`.
9. ☑ `AgentRuntime_proofs`; the Gate, in `Admission_proofs`.
10. ☑ `WikiResearch`, `FakeAgent`, `AgentPort`, `Bootstrap`, `BoundAgent`, with
    `WikiResearch_proofs` and `AcceptedSettingsSuffice`.
11. ☑ `Submission`; `Contracts`, and through it `WireFormHolds`.
12. ☑ `Submission_proofs`, on `CommandInv` and `ComposerInv`; the safety of
    `WebClient`, on what `EventStream_proofs` says of the server's side.
13. ☐ The per-session rates, the application's shutdown, the policy notice.

## 9. Not modelled, and why

* **Origin checks, the Trusted client IP, request parsing, error bodies**
  (`main.py`): one-shot mappings of a request to a call, without state of their own.
  The capability cookie is in `Submission`, as the conversation it opens; Absolute
  Expiry is not: a 410 closes the tab as the 404 of another conversation does.
* **`deployment_unconfigured`** in `Submission`: a deployment without limits refuses
  every creation (`application/__init__.py:996`), so that no conversation comes to be and
  no command is sent.
* **Policy notice, focus, side panel and clock of the web shell**: the composer is
  modelled once the policy is shown.
* **Formats in the contracts, tokenizer, markdown**: pure functions over strings, out
  of TLC's reach at their real domains.  `Contracts` has the rules that relate fields.
* **Bootstrap's reading** of the environment, of URLs and of Node's version: each is a
  yes or no of `ProviderInputs`.
* **The agent library and the model**: external; `Answer` and `RefusedByLibrary` leave
  them all they may do.  An agent that tests script is not modelled.
* **Telemetry**: a bounded deque that nothing reads to decide.
* **Application shutdown** (`aclose` of `ChatApplication`), the context probe, the
  mapping of Provider failures to codes, and the digests and bindings that frames
  carry.
