# Formal model of distributed-infra

TLA+ specifications of the parts of distributed-infra whose correctness depends
on the order of things: the task queue with the workers that poll it, the desk
with its commands and responses, the WhatsApp bridge, the scrum flow that runs
plans over the queue, the choice of agents, and the clients that keep state of
their own. TLC checks small instances, and TLAPS checks proofs, for every value
of the constants, of all the safety properties that TLC finds to hold.
`PROJECT.json` lists the runs, the mutants that show each property
can fail, the source lines behind each definition, the hazards and the theorems.

    tlc -workers 2 -config queue_rqlite.cfg MCTaskQueue
    tlapm TaskQueueProofs.tla

## 1. The system

distributed-infra runs a household's and a small company's work on a few
machines. Clients (a CLI, a WhatsApp bridge, an MCP server, a Flutter app, the
scrum tooling) create **tasks** at an **orchestrator**; **workers** on the
machines poll it, claim a task, run its handler and report. The orchestrator is
stateless over a database: one sqlite file, or an rqlite cluster behind several
orchestrators that are all active. Most handlers run an **agent** (Claude,
Codex, agy, DeepSeek), chosen by role, class and what is limited at the time.
The **desk** is a second, smaller queue in the same database: the owner's
answers to the scrum board and the commands the board may give, which a desk
worker claims and runs.

| Component | State | Operations | Hard because | Correct when |
|---|---|---|---|---|
| Task queue backends (`orchestrator/db.py`, `db_rqlite.py`) | the `tasks` rows | insert, claim, update, reap, backfill | sqlite selects and then updates; reports have no status guard; several orchestrators | one hand-out each time a task becomes pending; capability, pin and preference respected; nothing held for ever |
| Orchestrator routes (`orchestrator/main.py`) | liveness tables in memory | the HTTP routes, default placement, roles and the Opus cap, the reaper loop | several processes, retries by the clients | routes do what the backends promise |
| Worker poller (`worker/poller.py`) | `active_tasks`, the endpoint in use, the spool directory | poll, claim, run, report, retry, spool | time-outs, fail-over, lost answers, restarts | the cap; no work unannounced; no outcome lost |
| Worker handlers (`worker/handlers`) | the project registry, a file | dispatch; plan, project, find and morning_brief create and await child tasks | holding a slot while waiting; a registry read before and written after a wait | every handler ends; a plan's budget of steps holds |
| Desk store (`shared/desk_store.py` and the functions that run its SQL) | `scrum_responses`, `desk_pause`, `scrum_audit` | create response/command, consume, result, pause | retries with one key, a limit, a pause that races a claim | one command per key, exact audit trail, no claim during a pause |
| Desk worker (`scripts/desk_worker.py`) | a lock file, the row it handles | start-up sweep, tick, claim, run, report | crashes, lost calls, a second worker | a command runs at most once, one at a time, and ends; done means it went well, but for the check verb |
| Owner responses (`shared/scrum_responses.py`) | what a terminal has shown | show, consume shown, consume one | output lost between showing and consuming | consumed means shown |
| Agents (`agents/*.py`, `config/roles.yaml`, `routing.yaml`) | cooldowns in a JSON file, sessions of Claude, the queue's rows as record of the spending | resolve a role, route, run with fail-over, promote, hand a conversation over | several ways lead to an agent, and failures change the order while it is walked | private work stays private; no agent asked twice, none after one that may have worked; an agent knows the turns before its own |
| WhatsApp bridge (`services/whatsapp-bridge`) | awaited tasks, seen messages, sessions (also in a file), the family list; the session at Waha | webhook, poll loop, morning brief, watchdog | deliveries repeated while their handler waits, sends that raise, restarts, two watchdog passes | one task per message, no outcome dropped that Waha would take, none told twice, Waha comes back |
| Scrum flow, dis-agent, edits (`shared/scrum_flow.py`, `scripts/dis_agent.py`, `shared/*_edit.py`) | plan files, backlog and sprint files in git, queue rows as evidence | plan, approve, go (dispatch in waves), validate, close, accept, cancel | files read and written around long waits; two terminals; what an earlier go left behind | only approved plans run, in the order of their dependencies; closed means that a run ended, and stays but for an edit that read before |
| Fleet MCP (`clients/fleet-mcp`) | conversations in a JSON file | ask, result, end | load and save around awaits | an answer is recorded once and stays |
| LLM experiments (`scripts/llm_experiment.py`) | copies of a repository, the shared interpreter | preflight, runs, verdict | the agent may touch what judges it | SAFE is earned |
| Digest, next, suggestions; watchdog; UI; scripts | mostly none | views and projections | little | see `PROJECT.json`, components |

Interaction: workers and clients reach the orchestrators by HTTP with timeouts;
a call that is given up may still execute, at once or later, or never. The
orchestrators share nothing but the database. The worker's runs and its poll
loop share `active_tasks`. Desk workers share a lock file, which the operating
system releases when its holder dies. The bridge, the scrum flow, the composite
handlers and the MCP server are clients of the queue: they create a row, and
poll it until it ends or their time limit passes.

The behaviours that are hard to test, each at its line and with the property
that covers it, are the `hazards` of `PROJECT.json`.

## 2. Modules

    TaskLedger             what the queue promises (abstract)
      TaskLedgerProofs     its proof
    TaskQueue              backends + routes + pollers + network; implements TaskLedger
      TaskQueueProofs      proofs
      MCTaskQueue          instances for TLC
    DeskStore              rows, pause switch, audit trail, the desk's HTTP routes
    Desk                   DeskStore + desk workers + the owner's terminals
      DeskProofs           proofs
      MCDesk               instances for TLC
    WhatsAppBridge         webhook, sessions, poll loop, restarts
      WhatsAppBridgeProofs proofs
      MCWhatsAppBridge     the instance for TLC
    LiveServices           three parts that must come to an end, side by side
      WahaSession          the bridge's watchdog
      ScrumDispatch        a plan, wave by wave
      CompositeTasks       handlers that wait for tasks
      LiveServicesProofs   proofs about ScrumDispatch and CompositeTasks
      MCLiveServices       the instance for TLC
    Services               four parts with safety properties, side by side
      AgentFailover        roles, router, run_agent
        FailoverProofs     proofs
      StoryLifecycle       a story from plan to close
        StoryLifecycleProofs  proofs
      FleetConversations   the MCP server's conversations
      LlmExperiment        runs and verdict of an experiment
      ServicesProofs       proofs about the last two, and about the composition
      MCServices           instances for TLC

**TaskLedger** is the promise: a row is created pending, handed to at most one
machine each time it becomes pending, only to one that has the capability and
matches the hard pin, and only the owner makes it pending again. What is
reported afterwards is not guarded, in the code either.

**TaskQueue** has the rows (`status`, `body`, `assigned`, `result`,
`finished`), and per worker the runs, `active_tasks`, the endpoint its poll loop
is waiting for, and its spool. A run `<<t, n>>` is what became of the n-th claim
of task t. Its phases follow `_run_task`: *starting* (the in_progress report),
*working* (dispatch), *keeping* (the partial result of a needs-human),
*closing* (complete or needs-human), *failing* (fail), *ended*; *orphan* is a
claim whose answer nobody received and *dead* a run whose worker died.

| Action | Code |
|---|---|
| `CreateTask` | `POST /tasks` with the default preference, `insert_task` |
| `Poll`, `PollTimeout` | `_poll_once` with the cap, `_send` moving to the next endpoint |
| `ClaimAnswered`, `GhostClaim` | rqlite's one-statement claim, waited for or abandoned |
| `ClaimSelect`, `ClaimUpdate` | sqlite's claim in its two steps |
| `HandlerEnds` | `dispatch` returns |
| `ReportAnswered`, `ReportUnanswered`, `LateReport` | `_report` and `_send`; the routes that call `update_task` |
| `Crash` | the worker process dies and is started again |
| `ReapStale` / `ReapSelect`, `ReapUpdate` | `reap_stale` of rqlite / of sqlite |
| `Backfill` | `ensure_schema` when an orchestrator starts |
| `Resolve` | `da resolve` through `PATCH /tasks/{id}` |
| `GraceElapses`, `BecomesStale` | the clock, as far as the code compares with it |

A request is answered in time, and then executes and is seen in one step, or it
is given up; a given-up claim or report waits in `ghost` or `late` and may
execute at any later time, or never. A request that executed and whose answer
was lost is one of these that executes at once. The spool file per task and the
removal of every entry of a task's id from `active_tasks` are modelled run by
run, as the code does them. The write of a spool file may fail, and is then only
logged (`SpoolUnreported`, the `OSError` branch): the outcome is nowhere.
`epochs` and `claims` count what the code does not; they only name the hand-outs
and bound the requeues. `unsaved` is history: the runs whose file was not
written.

**DeskStore** makes each statement, or each transaction, one step. A creating
request is *select* (the replay lookup), *insert* and, for a command whose
insert added nothing, *lookup*. A consume is *read* (kind and status), *pause*,
*update* with its audit entry, and *recheck*; a result is one update. `audit[i]`
is the sequence of `to_status` of row i's audit entries.

**Desk** adds the desk workers' program (`on_start`, `tick`, `_claim_and_run`,
`run_command`, the back-off of `main`), the lock file, crashes, given-up calls,
and the owner's terminals. A given-up call keeps executing with `live = FALSE`.
A verb either ends well, or raises and is reported failed; but the verbs in
`Checks` (validate) return `ok: False` without raising, and are reported done
(`Ending`).
`ran`, `outcome`, `shown` and `lost` are history the properties compare the
rows with; no guard reads them.

**WhatsAppBridge** has one step from each await to the next. A message's handler
runs up to its call of the orchestrator (`QueueCommand`, `AgentCommand`,
`ContinueSession`: the request is in `request[m]`), and goes on with the answer
(`Created`, `NotCreated`); commands without such a call are one step. Commands
are grouped by what they change: *ask* reads, *weather* and *work* queue a task
the family may or may not ask for, *agent* and *oneshot* open a session or drop
one, *end* ends it, *text* is the next turn or unknown. The poll loop looks at
one task at a time; `poll` is the answer it is sending, in the text's and the
note's part. A send arrives, or raises and may have
arrived all the same, or is answered by Waha with an error status, which
`_send_wa` does not look at: the outcome is dropped as if it had been sent
(`Sent`). A delivery may be repeated at any time, as `Accept` leaves the message
where it is. `owed`, `shown`, `errors`,
`refused` and `lapses` are history.

**WahaSession** has a pass of `_ensure_waha_config` request by request, two of
them interleaved, and Waha itself: sessions that stop, fail to start, lose their
settings, and ignore a start while FAILED.

**ScrumDispatch** takes a plan as a sequence of tasks (role, dependencies,
whether its text is private) that `parse_plan` accepts, so that `waves` can layer
it. Each job of the run has a `Place`: its layer, and in it first the text-only
tasks together, then the integrator of DeepSeek's code, then the file editors one
by one; after the last layer the tester and the reviewer. `go.left` holds the
steps that are not reached yet, and the next `Batch` is the set of those whose
place is least: the loops of `dispatch` without their indices. Rows are external:
they start, with any of `Agents`, and end: a task is queued without a class, so
whichever agent its role names, the fallbacks of the default class follow it.
Whether a task's code is to be integrated depends on its place in the plan
(`ReturnsCode`), and whether there is any on who answered (`Code`).

**StoryLifecycle** is one story with two terminals: the `go` in one, the other
commands in the other, each with the steps at which it reads and writes the plan
file, the backlog and sprint files and the queue's rows. `edit_file` takes no
lock. It is three steps of each terminal, between which the other one and the
owner act: git's status and the text are read, or the edit is refused
(`EditReads`); the whole file is written as it was read but for the row
(`EditWrites`); it is committed, which may fail and leave the text in the
checkout (`EditCommits`). `close_story` looks at the status before that, in a
step of its own (`Confirm`). `lost` is history: the rows that a write put back
to what they were at its read. The steps of the edits follow the program's
order by `run.step` and `cmd.is`. A plan's content is a
number; an approval names the one it is of. The owner edits the plan and the
backlog at any time. Failures and interruptions come between the writes.

**CompositeTasks** reduces the queue to rows claimed when a slot is free, and
has the handlers of plan (steps, validator, retries, circuit breaker), project
(registry, intake, go, stop), find and morning_brief up to and after each wait.

**AgentFailover** has `_apply_role` and `resolve`, the classes and fallbacks of
the two YAML files, `route_chain`, and `run_agent` call by call: what is asked
next, cooldowns, promotion, the Opus grant, the record of the cost, and for a
conversation which turns a call's session and prompt hold. The two wrapper
agents make a request of their own from the prompt and the model (`Bare`): the
caller's mark, kind, exclusions and Opus grant are not in it. A transcript holds
the newest `Room` of the conversation, of which each turn takes one of
`Lengths`; only the turns that are whole in it count as shown (`Whole`). A turn
without text, which the code leaves out of a transcript, has nothing to show.
An attempt ends as
the adapters report it: answered, stopped, limited, unavailable, text only. A
chain of candidates is a function of their places: to leave one out is to
restrict it, to pop the next is to take the least place, and to put Claude before
the others is to give it place 0.

**FleetConversations** has each MCP call up to and after its awaits, and load
and save of the state file as two steps between which only other processes run.
Any number of processes share the file, as `State` says they may; a history
variable (`overwritten`) records that one saved over what another had saved since
its load, and one in **AgentFailover** (`overlapped`) that a chat's turn was sent
before the last one ended. Neither is excluded: the properties say what holds
until it happens.

**LlmExperiment** has the preflight, the runs of each variant, the check of the
interpreter before and after the test, the exclusions and the verdict. What an
agent leaves behind stays or removes itself, where `venv_manifest` looks or
where it does not (`Hidden`): a module that is bytecode only, the standard
library, `pyvenv.cfg`, a large file whose size and time were put back. `blind`
is history: the runs that were not right and whose test met something hidden.

**Abstractions.** Payloads, results, notes, prompts and command verbs are values
of small sets: nothing branches on their text except the placement fields, the
capability, priority, the equality of a retried body, and the marks that the
policies look for, all of which are kept. A handler or verb is its outcome.
Heartbeats, notifications and listings are left out. Priorities order as in
`ORDER BY priority DESC, created_at ASC`.

**Composition.** `Services` and `LiveServices` put several parts in one
state space: a behaviour is one of the part its first state names, and the
others stay as they begin (`Services` extends `StoryLifecycle`, whose properties
it checks by their own names). That a behaviour of the whole is one of each part
is proved (`EachPartBehaves`). The parts share no state in the code but the queue,
and each models the queue as it uses it: rows that start and end at any time,
which the queue's own modules justify.

## 3. What the runs show

| Run | Instance | Shows |
|---|---|---|
| `queue_rqlite` | 2 tasks (one preferring, one pinned), 2 machines, 2 endpoints, cap 1, one abandoned request, crash or failed write, no requeue; 1.8 million states | `TypeOK`; `OneHandoutPerEpoch`; `OutcomeKept`: work that ran leaves its outcome in the row or in the spool, unless the spool could not be written; `WorkIsAnnounced`; `CapUnlessReopened`; `SlotsAreFreed`: what counts against a worker's cap is at work |
| `queue_sqlite` | 1 task that may be requeued once, 2 machines, two sends per report, one fault, with fairness; 0.1 million states | `FollowsLedger`: the two-step claim and reap implement the ledger; `HeldIsReleased`; `PendingIsClaimed`; `KeepsPolling`: a worker that is up asks for work again and again |
| `desk_workers` | 2 workers, 1 terminal, 2 requests, one pause or resume, one fault, symmetry; 2.5 million states | `AuditIsHistory`; `RunOnce`; `OneAtATime`; `DoneMeansDone`: a command that is not a check is done only if it ended well; `ConsumedWasShown`; `PauseIsRespected` |
| `desk_requests` | 1 worker, 2 requests over 3 bodies (a retry, a reused key, another command), limit 1, two instants, one fault, with fairness; 0.1 million states | `OneCommandPerKey`; `AnswersAreTrue`; `RateIsHeld`; `CommandEnds`; `QueuedIsClaimed` |
| `bridge` | 2 messages of an owner and a relative, 2 tasks, history of 3 turns, one failed or refused call, restart or expiry, with fairness; 0.4 million states | `OneTaskPerMessage`; `NoOutcomeLost`: no outcome is dropped that Waha did not refuse; `RepeatsNeedAnError`; `EveryTaskSettled` |
| `live_services` | 2 watchdog passes, 2 polls of a start, 2 faults; 4 plans of up to 3 tasks, 2 goes, 2 agents (one edits, one returns text), 1 fault; 2 requests, 5 rows, machines with 1 and 2 slots, 2 steps, 2 retries; with fairness; 0.1 million states | `WahaComesBack`; `DependenciesFirst`, `EditorsRaceOnlyAstray`, `DispatchEnds`; `StepsBounded`, `CompositesEnd` |
| `services` | 3 agent runs of 10 kinds of request, 2 limits, Opus cap of 1, a transcript of 2 turns; a story with 2 plan contents, 2 backlog rows, 1 task, 1 fault, an edit in each terminal; 2 asks, 1 result, 1 end, 2 server processes, history of 3; 2 variants of 3 runs; 3.1 million states | `PrivateStaysPrivate`, `AskedInTurn`, `CatchesUp`; `OnlyApprovedRuns`, `ClosedAfterARun`, `ClosedStaysClosed`; `AnswersStand`; `SafeIsEarned` |

**Bounds.** `MaxFaults` counts abandoned requests, failed calls and crashes
together. One is enough for every hazard of the queue except the overwritten
spool file, which takes two and has a run of its own. Two tasks and two machines
are the fewest for which priority, pin, preference, the cap and a claim race all
matter; a requeue needs `MaxEpochs` 2, which the one-task run has: there the ledger
carries what a requeue may do, and the theorems carry the rest for every value. Two endpoints
are the fewest with a fail-over. Two rows are the fewest for which a key, the
limit, the order of a list and "one at a time" mean something. In
`desk_requests` the windows have length 0 and the clock one step, so that a
retry falls inside and outside of each window.
Two messages are a session's first turn and its next, or a session and the one
that replaces it; one lapse is a duplicate after a restart. Two passes and two
polls let the watchdog meet its own start. The plans of `live_services` are a
layer of two text-only tasks before an editor, a layer with two editors, an
editor before code that is private and so edits too, and a plan without code; two goes are a stopped one and its
repetition. `OneSlot` gives the projects' machine one slot, so that a parent
takes the slot its child needs, and 5 rows hold a project, its plan and its
steps. Three agent runs are a conversation that leaves an agent and returns;
two limits take two agents out; turns of 2 units in a `Room` of 5 make a
transcript drop all but the last two. Two plan contents are an edit after the
approval; two rows are a story planned again. With one task a go has its
developer's work and no tester or reviewer to wait for, so that a close in
`services` is one with `--force`; `services_finding_incomplete` has the three
tasks of a close without it. `Agents` of `live_services` are one that edits and
the one whose code is integrated: codex only reads, and agy edits as Claude does. Two asks
and two results are two waits for one task across a save. Three repetitions are
the fewest for which the median is not an end.

**Symmetry** is used in `desk_workers` only, a safety run whose definitions
treat the two workers and the two requests alike.

**Deadlock** is checked for the queue, where the owner can always resolve. The
desk really stops once all requests are answered, no command is left and the
worker is between ticks with decision D-006 unread, or in an instance without
workers; the other parts end when nothing more is asked of them.
`CHECK_DEADLOCK FALSE` says so.

**Fairness.** For the queue: time passes, the reaper loops
(`_reaper_loop` catches everything and sleeps ten minutes), and each machine in
`Reliable` keeps polling, has its claims answered if it asks again and again
(strong fairness, as single answers may be lost), finishes its handlers and has
its reports answered or exhausted. The other machine may stop for ever at any
point: that is the case `PendingIsClaimed` is about. For the desk: a worker
keeps going, and launchd restarts it; a call that somebody waits for is answered
unless it is given up, which the fault budget bounds. For the bridge: time
passes, and each pass of `_poll_loop` looks at each awaited task, as it catches
what one task raises; nothing is assumed of the fleet. For the watchdog: the
poll loop runs it again, and Waha's start comes to an end. For a dispatch: the
script goes on, and the fleet ends what it is given, which the queue's liveness
and the handlers' time limits justify. For composite tasks: a handler that runs
goes on, as each of its waits has a limit; nothing is assumed of claims, so that
a child may stay pending for ever. No fairness is assumed for requests, owners,
pauses, or calls nobody waits for.

**Why these properties.** What stays true is often narrower than what one would
wish, and says exactly when: `EditorsRaceOnlyAstray` allows two editors side by
side only with one that an earlier go left behind, that was created twice, or
that failed over from a text-only agent; `AnswersStand` excludes answers
recorded while an `ask` held a copy of the conversation, and ends where one server
process saves over another; `CatchesUp` is about the turns a transcript has room
for, and ends where two turns of a chat overlap;
`RepeatsNeedAnError` allows a repeated outcome per failed send;
`OutcomeKept` allows an outcome to be gone whose spool file could not be written,
and `NoOutcomeLost` one that Waha refused; `DoneMeansDone` leaves the check verbs
out; `PrivateStaysPrivate` leaves the social wrapper out, which loses the mark;
`DependenciesFirst` asks for an integration only of code that was queued for as
code; `ClosedStaysClosed` leaves out a row that an edit wrote over after it had
changed; `SafeIsEarned` counts the runs in which something hidden stood in for
the work. Each of these is what the code does, reached in a run, and those that
a line of the repository speaks against are listed below. Two hazards are listed
without a property: a restart of the bridge forgets the tasks it awaits, and
what its file of sessions holds after it. Smaller ones of the same
kind are behaviours of the models too: `resolve all` patches a list read earlier
(`Resolve`), a reply is recorded in whatever session the chat has by then
(`RecordReply`), a conversation ended during an `ask` comes back (`AskSaves`),
two server processes that save over each other lose an answer (`Save`),
a failed-over Opus attempt is not counted against the month (`Finish`), an
approve cut short registers its story again (`Approve`), a plan whose circuit
breaker opened reports that it converged (`PlanOver`), and a project stopped
during a go is done at its end (`ProjectAnswered`).

### Disagreements between the code and its comments

Each is a run in which TLC finds the stated property violated.

| Run | The text says | The code does |
|---|---|---|
| `queue_finding_unreported` | `worker/poller.py:24` "kept here, never dropped" | the file is named after the task; a second unreported run overwrites it |
| `desk_finding_repeat` | `orchestrator/db_rqlite.py:378` "A repeat ... within 10s returns the existing row" | lookup and insert are two steps, and only commands have a unique index |
| `desk_finding_consume` | `shared/scrum_responses.py:255` "it answers 409 already consumed, or 404" | the id of a queued command is claimed for the terminal, which never runs it |
| `services_finding_secrets` | `agents/roles.py:26` "never go to a non-private provider" | the role's guard moves the first agent; the default class's fallbacks, which end with DeepSeek, follow it |
| `services_finding_incomplete` | `scripts/dis_agent.py:837` "dis-agent close will refuse" | `story_evidence` parses the report without the number of criteria, so one that leaves criteria out passes |

More were met without a run of their own; the model does what the code does.

- `worker/poller.py:38` "Max tasks this worker runs at once": after a requeue two
  runs free two slots when one ends. `CapUnlessReopened` is what holds.
- `shared/tracking.py:26` says that `finished_at` is set at needs_human:
  `reap_stale` leaves it to the next start's backfill.
- `services/whatsapp-bridge/bridge.py:137` "In-memory only — a bridge restart
  drops the mapping", of the sessions: they are written to a file at each change
  and loaded at the start (line 201 on).
- `agents/runner.py:158` "The privacy guard always applies.": a private task for
  the social wrapper becomes an unmarked request for a draft (lines 159-160,
  `social_agent.py:59-64`), whose class begins with DeepSeek.
- `shared/scrum_flow.py:520-523` has one integrator apply all the DeepSeek code
  of a wave: a task that was to edit and failed over to DeepSeek, or to codex, is
  taken as done, and what it returned is applied by nobody (574-588).
- `shared/backlog_edit.py:3-5` says that a story that is already closed is an
  error, never a silent edit: an edit that read the file before the other
  terminal closed the row writes the old status back (`scrum_flow.py:681-691`).
- `scripts/llm_experiment.py:869-876` says that the manifest has the files that
  can execute or register code: it has a part of those, see `Hidden`.

## 4. What is proved

All theorems hold for any values of the constants that satisfy the named
assumptions, which TLC evaluates in the runs.

| Theorem | Statement | Argument |
|---|---|---|
| `LedgerHandsOutOnce` | the ledger satisfies `OneHandoutPerEpoch` | inductive with "an absent task was never claimed" |
| `TypeCorrect` | `Spec => []TypeOK` of the queue | `HandoutInv` |
| `HandedOutOnce` | `Spec => []OneHandoutPerEpoch` | `HandoutInv`. `TypeOK` alone is not inductive: `claims[t] + 1 <= MaxEpochs` needs that a pending row has a hand-out left, and that needs the counts |
| `QueueFollowsLedger` | `Spec => FollowsLedger` | refinement: every step is a ledger step or changes none of the ledger's variables. `LedgerInv` adds that a run or a late report exists only for a task that was claimed (so that a report is one the ledger allows) and that a row selected by sqlite's claim is one its worker may run (so that the later UPDATE is a legal hand-out) |
| `WorkAnnounced` | `Spec => []WorkIsAnnounced` | a later claim of the same task makes the run no longer the last one |
| `OutcomeIsKept` | `Spec => []OutcomeKept` | `OutcomeInv`: a failing run whose work ended has tried its spool file, and so has every late /fail of it, and what was tried is in the spool, replaced there by a later run's, or among the writes that failed; an error in the row comes from a run that was failing; output reported before a needs-human is stored; a run that ended keeps its outcome |
| `SlotsFreed` | `Spec => []SlotsAreFreed` | inductive with `HandoutInv`: a run is added with its start, every entry of a task goes when one of its runs ends, and a crash ends the worker's runs and empties the set |
| `CapHeld` | `Spec => []CapUnlessReopened` | `CapInv`: `active_tasks` is within the cap, a worker has one claim out at most and only with room for its answer, and a run of a task that was pending once only is in its worker's `active_tasks` |
| `DeskProofs!TypeCorrect` | `Spec => []TypeOK` of the desk | `TypeInv`: there are as many rows as requests that inserted one, so that rows never run out, and a worker that claimed a command knows which |
| `AuditTrail`, `KeysUnique`, `AnswersTrue`, `RateHeld` | `AuditIsHistory`, `OneCommandPerKey`, `AnswersAreTrue`, `RateIsHeld` | `StoreInv`. The limit is inductive only when stated for every window of time, also one that no row begins (`EveryWindowHeld`): a new row may fall into a window that an older one opened |
| `PauseHeld` | `Spec => PauseIsRespected`, an action property | only the consume's UPDATE takes a command from the queue, and it looks at the switch itself |
| `RunsOnce`, `RunsAlone` | `RunOnce`, `OneAtATime` | `WorkInv`: which calls a worker may have out, what a row's `by` says of the call that took it, one call each, and the lock is held from before a command runs until it was reported |
| `DoneIsTrue` | `Spec => []DoneMeansDone` | `DoneInv`: a call that reports done, given up or not, is of a command that ended well, or of a check |
| `ShownFirst` | `Spec => []ConsumedWasShown` | `ShownInv`: a consume of a response is sent after it was shown only |
| `OncePerMessage` | `Spec => []OneTaskPerMessage` of the bridge | `OnceInv`: a message that is not remembered, and one whose request is out, has made at most as many tasks as there were lapses, so there is room for one more; it is remembered from before its request until a lapse. The cardinalities are those of the finite set of tasks |
| `OutcomesSent` | `Spec => []NoOutcomeLost` | `OutcomeInv` adds that a note is sent only after the text arrived or was refused: the pop that follows the note needs it |
| `RepeatsAreErrors` | `Spec => []RepeatsNeedAnError` | `RepeatInv`: a task that is awaited was sent and recorded at most once per error; the one the loop has in hand is recorded once more, and shown once more when only its note is left; the same bound holds for the sessions on disk, which a restart brings back. The answers in a session are counted as a set of places, which `Append` and `Trim` shift |
| `ApprovedRuns` | `Spec => []OnlyApprovedRuns` of the story | `IInv`: an approval in the plan file, also in the copy a command holds, is of a content the owner approved; a go starts with one |
| `ClosesAfterARun` | `Spec => []ClosedAfterARun` | `IInv`: a row is in review, in the file or in a text that an edit has read, only after a go for it ended; an edit under way is the one its command has come to (`EditSound`) |
| `StaysClosed` | `Spec => ClosedStaysClosed`, an action property | only `EditWrites` changes a row. The row it names was not closed at its read (`EditSound`), and any row that has changed since is in `lost`. That the sprint file never closes a story first needs `Pending`: a mark of a closed status in the sprint, still to be read or already read, is of a row that the backlog has closed with it, or that is lost |
| `PrivateWorkStays` | `AF!Spec => []PrivateStaysPrivate` of the agents | `RunsInv`: what is queued after a start is a part of the chain, and the chain of guarded work has private candidates only. The guard of `_apply_role` is not needed: the class is what counts; and the content wrapper, which drops the mark, leaves DeepSeek out by name |
| `AsksInTurn` | `AF!Spec => []AskedInTurn` | `RunsInv`: what is still queued was not called, the calls before the last are among the attempts, and each agent has one place, through skips and promotion |
| `SessionCatchesUp` | `AF!Spec => []CatchesUp` | `ChatInv`, until turns overlap: Claude's session holds every turn up to its last answer that is whole in the transcript, of the history a turn carries, and room is never regained as the conversation grows; at most one turn is out |
| `AnswersStay` | `FC!Spec => []AnswersStand`, any number of server processes | `FleetInv`, until a process saves over another: a task whose answer was recorded is no longer among the tasks of the file, and its answer is in every copy, unless one was out when it was recorded; no answer is twice in a history, and none before its question |
| `SafeVerdictIsEarned` | `LE!Spec => []SafeIsEarned` | `ExperimentInv`: a run that counts as a pass was right or is among the blind ones: what forces a pass is there before the test, and the manifest shows it unless it is hidden |
| `DependenciesHeld` | `SD!Spec => []DependenciesFirst` of a dispatch | `DispatchInv`: every job of the plan that is neither left, to do nor awaited has ended well, or is an integration with nothing to integrate; an answer of DeepSeek's to a task that returns code waits for its layer's integration; places put a task after those it depends on and after the integration of their layer |
| `EditorsApart` | `SD!Spec => []EditorsRaceOnlyAstray` | `DispatchInv`: the rows awaited are of one batch, and two jobs of one batch that are not text-only are one |
| `BudgetKept` | `CT!Spec => []StepsBounded` of composite tasks | `BudgetInv`: what a plan's handler has made it has counted, but for the task it waits for, and it makes one only while the count is under `max_steps`, although retries and steps are counted in different loops |
| `EachPartBehaves` (twice) | `AnySpec => AF!Spec /\ ...`, `Spec => WS!Spec /\ ...` | each step of the composition is one of a part or leaves it unchanged; so the theorems about a part hold in the state space that TLC explores |

**Assumptions.** They are named, and TLC evaluates them: `QueueAssumption` (task
ids and bounds are naturals, the backend is one of two, a body has its four
fields, priorities are 0..10) and `NoneAssumption`; `DeskStoreAssumption`
(finitely many requests, bounds are naturals, a command has a key, as its route
asks for one) and `DeskAssumption` (who calls: workers and terminals, apart);
`BridgeAssumption` (finitely many tasks; people write in known chats; a history
holds a turn at least); `StoryAssumption`; `FailoverAssumption` (what a request
may say; a chat is opened with an agent that resumes sessions);
`FleetAssumption`; `ExperimentAssumption` (variants have different names);
`DispatchAssumption` (a plan is one `parse_plan` accepts: known roles, known
dependencies, no cycle); `CompositeAssumption`. Each also says that None is none
of the values whose absence it marks.

No theorem has a hypothesis beside these. Where the property ends with an event
(`overwritten`, `overlapped`), the invariant is proved of the states before it,
and the event is proved to stay.

**Layout.** The proofs of preservation have one step per action; the parts of
actions that recur (`ClaimRow`, `UpdateTask`, `Advance`, `SaveSessions`, `Pop`,
`SendRaises`, `On`, `Call`, `GoesOn`) have lemmas of their own. Where many actions do the
same to an invariant, the proof first says what they have in common (`Saves`,
`SendsNothing`, `Remembers`, `Asks`, `Answered`, `Forgets`, `NoNew`), and then
that each action is one of these. What would need induction over data is avoided
by stating it of sets and functions: a chain and a dispatch are sets of places,
of which the least exists by well-foundedness of the naturals; the answers in a
session are a finite set of indices.

**Only model-checked** are the liveness properties, which rest on fairness and
ENABLED, out of the prover's reach: `HeldIsReleased`, `PendingIsClaimed`, `KeepsPolling`,
`CommandEnds`, `QueuedIsClaimed`, `EveryTaskSettled`, `WahaComesBack`,
`DispatchEnds`, `CompositesEnd`. Every invariant and action property of a passing
run is a theorem. The spending sum of `AgentFailover` and the median of
`LlmExperiment` are computed, not reasoned about: no theorem depends on their
value. The properties that the code violates stay with TLC, which finds the
behaviours.

## 5. Not modelled

The components without a module are listed in `PROJECT.json` with the reason:
the scrum digest, next and suggestions (projections of text), the docker
watchdog, network information, the Flutter terminal, shell scripts. In the
modelled ones: the listings, the columns for tokens and costs, request
validation, rendering; parsing of messages, plans, reports and agent output,
each of which is a value of what it may yield; the product owner's breakdown and
the documents around a sprint; isolated projects and skills; the cooldown file
as a file shared by processes; git branches, which are behind the editors'
rule; a crash that tears a file while it is written; a status that the owner
types into the backlog or sprint file by hand (an edit of the owner's there is
an uncommitted change without content), so that a row is in review only by a go;
handlers that call one external program. The end of a go counts for its row for
ever: that a row was planned again after it, or has the number of one that a
stale write dropped, no property tells apart. The database itself is taken to
execute a statement, or a transaction, at once and durably; rqlite's consensus
is not modelled.

## 6. Plan

1. Abstract specifications, with the refinement proved step by step: for the
   desk, a command's life as one atomic claim and one result; for the bridge, a
   question and its one answer; for a story, its status as the owner decides it.
2. Action properties that follow from the invariants now proved: which fields of
   a row a step may change, and who may change them.
3. Safety under the watchdog (`WahaSession`): what two passes may do to a session
   that works, which liveness alone does not say.
