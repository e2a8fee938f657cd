# Open-Thinking: TLA+ models and proofs

Open-Thinking runs pipelines of LLM stages described in YAML, from a command
line, from an interactive prompt or from a local web page. This directory holds
models of it in TLA+, the configurations under which TLC checks them, and
proofs that TLAPS checks. File names below are relative to `src/src/`.

## The system

| Component | State it keeps | Operations | What is hard | What makes it correct |
|---|---|---|---|---|
| Sequential executor (`pipeline/executor/stage-executor.ts`) | layers, results, retry and fallback counters, abort signal | resolve the order, run a layer with `Promise.all`, retry with backoff, change the model, ask, roll back | stages interleave at every await; whole-store rollbacks; cancels; answers that never come | dependency order, nothing starts after a cancel, outputs reach dependents, runs end |
| Agent loop (`agent-loop.ts`) | iterations, recent calls, cached results, action log | chat, run tools, replay a looped call, continue a cut-off answer | limits that meet at the last iteration; what survives in memory | bounded requests, no doom loop, every call answered and remembered |
| Orchestrated mode (`stage-executor.ts`, `tools/delegate-tool.ts`) | what was delegated, what counts as work | delegate, summarise, conclude | nested loops; refused and failed delegations | success means work |
| Tools and sandbox (`tools/built-in-tools.ts`, `core/sandbox`) | caches of files and listings; a copy of the project per sandboxed stage | read, list, search, write, run; diff, review, apply, discard | others write meanwhile; review and apply are apart | cached answers are true; what is applied was reviewed |
| Permissions (`core/permissions`, `PermissionCenter.tsx`) | pending requests, one rules file for all processes | classify, match rules, ask, answer, remember | several processes and pages; answers that race | no risky call without consent; no rule lost |
| Provider call (`providers/`) | bucket and queue (requests), window (tokens), attempts, timeout | chat, throttle, retry, back off, abort | one timer for a queue; one signal for three kinds of wait | everybody is served or rejected, in time, within the limit |
| Policy engine, context store (`policies`, `context/store`) | rate bucket, cost, entries, snapshots | consume, record, match keys; set, save, restore | shared by the stages of a layer | part of the executor's properties |
| Run manager and its page (`ui/server/run-manager.ts`, `RunPipeline.tsx`) | active runs, one error slot, inbox; the run on the screen | start, cancel, message, answer an error, restart | requests and answers overtake each other | runs end once, messages are heard once and in order, the page shows its run |
| Run log and stream (`runs/persistence.ts`, `ui/server/runs-store.ts`, `routes.ts`, `lib/run-stream.ts`) | rows of runs and events, followers | append, finalise, follow, reconnect, cancel a stale run | worker and server are different processes; crashes | gapless, closed once, followers hear the end |
| Command line (`cli/repl`, `workspace/workspace.ts`) | queue of lines, questions, terminal mode; the loaded pipeline, active name, defaults | type, answer, interrupt; slash commands | questions and lines share one input; names resolved in two directories | order, what is loaded exists, the process ends |
| Editor and library (`PipelineEditor.tsx`, `pipelines-index.ts`, `pipeline-parser.ts`, `routes.ts`) | graph, text, requests on their way; index and files | open, edit, validate, save, copy, run, delete | late answers; others change the files | what is saved is what was shown and can be opened and run |
| UI server (`ui/server/lifecycle.ts`, `lock.ts`, `port.ts`, `ui/autostart.ts`) | lock file, processes, preference | start, stop, restart, serve, crash | two terminals, slow starts, ports that are taken | a server that serves can be found |
| Provider settings (`config/global-config.ts`, `setup-wizard.ts`, `routes.ts`, `Providers.tsx`) | one file, pending checks, the page's list | configure, check, remove, resolve | load, truncate and write without a lock | no entry lost, a check means what it says |
| Skills (`ui/server/skills-store.ts`, `skills/catalog.ts`, `SkillManager.tsx`) | directories of two files each, windows with dialogs | list, create, read, save, delete, load | late answers; two files; three places to look | only what is asked changes; stages load a whole skill |

How the parts meet. `openthk run`, the REPL and the run manager each call
`executePipeline`; they differ in the callbacks they pass (`onStageError`,
`onSandboxReview`) and in who may abort. The executor uses the policy engine and
the context store without waiting, and awaits the agent loop, which awaits the
provider (through the limiters) and the tools (through the permissions). The run
manager owns the abort signal, the answers and the injected messages of a run
and writes its events to the log that pages follow. Terminals, servers and runs
share the files of `~/.openthk` and of a project's `.openthk`, without locks.

## The modules

| Module | Models | Run |
|---|---|---|
| `PipelineExecutor` | `executePipeline`, `resolveExecutionOrder`, `executeStage`, `executeStageWithRetry`, rollback, limits | `executor` |
| `ContextAccess` | the patterns of `context.read` and `context.write` | `executor` |
| `AgentLoop` | `runAgentLoop` | `agent_loop` |
| `StageTools`, `Orchestrator` on it | built-in tools and their caches, sandboxes; an orchestrated run beside a sequential one in the same directory | `workspace` |
| `Permissions`, `PermissionCenter` on it | engine, gate, rules file; the panel that shows and answers requests | `permissions`, `rule_choice` |
| `RpmLimiter` | the queue of `createRateLimiter` | `provider` |
| `ProviderCall` | `chat()` with retries, timeout and the tokens-per-minute limiter, in time | `provider` |
| `RunService` | what the server promises of runs (abstract) | implemented in `web_run` |
| `RunManager`, `RunPage` on it | the run manager; the page that starts, steers and cancels | `web_run` |
| `RunLog` | log, writer, stream, reconnecting page, cancel handler | `run_log` |
| `PipelineSession`, `Repl` on it | registry and slash commands; the terminal, the queue and the questions | `command_line` |
| `PipelineDocument`, `PipelineLibrary`, `PipelineEditor`, each on the one before | document, validation and graph; index and handlers; the editor | `library` |
| `UiServer`, `ProviderStore`, composed in `ConfigDir` | life cycle of servers; `providers.json` and its page | `config_dir` |
| `Skills` | skill directories, handlers, `SkillManager`, what a stage loads | `skills` |
| `PipelineExecutorProofs` | theorems of `PipelineExecutor` | TLAPS |
| `ToolCallProofs` | theorems of `AgentLoop` and `PermissionCenter` | TLAPS |
| `StageProofs` | theorems of `Orchestrator` and `Skills` | TLAPS |
| `ProviderProofs` | theorems of `RpmLimiter` and `ProviderCall` | TLAPS |
| `RunLogProofs`, `RunPageProofs` | theorems of `RunLog`, of `RunPage` with `RunManager` | TLAPS |
| `FrontEndProofs` | theorems of `Repl` and `PipelineEditor` | TLAPS |
| `ConfigDirProofs` | theorems of `ConfigDir` with `UiServer` and `ProviderStore` | TLAPS |

A module named `MC...` gives the constants of a run their values. Definitions
headed "Mutant" are plausible mistakes in the definition that follows; with
them in its place the property named in `PROJECT.json` is violated.

### One thread, several processes

JavaScript runs a callback to its next await, so an action is what a handler
does between two of them, with every call it makes. Several processes share
files; there, each read, truncation and write is an action. The modules say
which of the two it is:

- `PipelineExecutor`: the context store answers without leaving the process, so
  everything between the return of an agent loop and the next real wait happens
  before any timer, reply or click is delivered, but the micro steps of the
  stages of a layer interleave. `Busy` says that such a step is pending and
  guards every delivery.
- `RunLog`: the handlers of the server do not interleave (`ServerIdle`); a
  worker in another process moves between any two SQL statements.
- `Permissions`, `ProviderStore`: load, truncate and write of a file by another
  process come between; a history variable (`raced`, `harmed`) tells when two
  writers overlapped, which the code does not guard against.
- `UiServer`: a command waits for the lock to appear or a process to go; reading
  a lock and removing it when it is stale is taken as one step.
- `Skills`: a handler opens, writes or removes one file after the other and may
  fail in between (`writing`, `BreakOff`); a stage, in another process, looks for
  and reads them one after the other (`load`), at any of these moments.
- `StageTools`: a sandboxed command ends before its tool returns, but what it
  left running goes on (`Linger`), also while its sandbox is under review.
- Pages (`RunPage`, `PermissionCenter`, `PipelineEditor`, `ProviderStore`,
  `Skills`) send requests and get answers late, in any order where connections
  allow it, or not at all. History variables (`disturbed`, `muddled`, `hasty`,
  `crossed`) mark the states in which an answer has overtaken another one and
  the page does not ask whether it is still wanted.

### Notes on the modules

`PipelineExecutor`. `pc`, `result`, `err`, `attempts`, `fallbacks`, `asked` say
where `executeStageWithRetry` stands for each stage. A value in the store is its
provenance: absent, of an earlier run, of this one; that is what rollbacks can
confuse. Snapshots are kept per stage because a rollback looks for the newest
one with the stage's name. `context.db` is kept from run to run: `Databases` says
what a run may find in it, entries and snapshots, `taken` which stages have
taken a snapshot of their own, and `reverted` which went back to an earlier
run's. `Begin` is `executeStage` to its first await,
`Launch` the rest up to the agent loop, `LoopFails`, `LoopSucceeds` and `Throw`
its outcomes, `Compare` and `Review` the sandbox, the others
`executeStageWithRetry`. Which stages may write their output is calculated from
patterns by `ContextAccess`; `GlobsMatch` compares `matchGlob` with a
declarative definition for every pattern and key of up to three segments.

`AgentLoop`. A tool call is a name with arguments, a response a batch of calls,
a stop, a cut-off or an error. `recent` is the tail of `recentCalls` that
`checkDoomLoop` looks at.

`StageTools`, `Orchestrator`. A file has a text and an author; an agent has the
paths it has been shown (`seen`, `listed`) and, when boxed, an overlay. A command
may change any file; one in a sandbox may do so in its own directory, where links
lead to the project, or in the project, whose path is in its environment (`past`
has the paths written so). `worked` and `refused` are what the orchestrator
counts.

`RpmLimiter`. `timers` are those of calls, `drains` those that `drainQueue` armed.
Each call has a timeout of its own and a cancel aborts all of a run: `Aborts` has
the sets of calls that abort at once. `forsaken` says that the first waiter took
the only timer with it and left others behind; `spare` counts drains that are
armed for a queue that has aborted altogether.

`Permissions`, `PermissionCenter`. The rules file is a sequence of rules; a rule
that is remembered again moves to the end, and the newest that matches decides.

`RunManager`, `RunPage`. A run is a layer of stages that work, fail and ask;
`slot` is the one pending question, `inbox` the injected messages. `RunService`
has neither page nor stages: `RunPage` implements it with `said <- sent`.

`RunLog`. A row is a pipeline event, one of a type that is not in
`RUN_EVENT_TYPES` (such as `stage:error-paused` or `stage:model-fallback`), the
explanation of a failure, or the end. A page fetches all of them but listens to
those of the listed types only (`Listens`). `log` and `status` are the tables; `stream`, `cursor`, `wire` the
connection; `view`, `active` the page; `request`, `reply` the click on cancel
and the answer to the `getRun` that follows it. `Lose`, `ServerDies` and
`WorkerDies` are the faults.

`ProviderCall`. Time is a clock; what is due at a tick happens before the next.
A call waits in a limiter, on the network or in a backoff; `signalled` is the one
signal for cancel and timeout, `since` when it was given. Of the requests limiter only grant and rejection
are kept, since `RpmLimiter` has its queue.

`PipelineSession`, `Repl`. Files, the active name and defaults are on disk,
`loaded` and `dir` in the session. In raw mode every key is a chunk that all
waiting questions and readline hear.

`PipelineDocument` ... `PipelineEditor`. A document is a mode and stages with
names, dependencies and the orchestrator's role; a file is absent or a text, and
an id stands for its path. Handlers that await have a step before and one after.

`ConfigDir`. Servers that die leave the requests of the page unanswered;
terminals either run a life-cycle command or save settings.

`Skills`. A skill's file pair is a document (prompt, manifest), either of which
may be absent or malformed; `writing` is the create, save or delete whose files
are still to be changed, and its request counts as begun until then. `load` is a
stage on its way through the three directories: is there a prompt, is there a
manifest, read the one, read the other. `torn` are the documents that a handler
failed on and left in pieces. List replies are taken with
the listing at their arrival, and a refused request is merged with one whose
reply is lost.

## Runs

Eleven runs pass. Liveness is checked in those marked L.

| Run | Distinct states | Question |
|---|---|---|
| `executor` L | 1.83 million | with a retry, a fallback, a rate and a cost limit, questions, a sandbox, and a database that is fresh or used: order, cancel, outputs, termination |
| `provider` L | 394857 | a queue whose calls time out one by one or are cancelled together: one wake-up, everybody settles, unless a waiter took the only timer with it; two calls on one window of tokens: settled by their timeout and at a cancel, throttled enough |
| `agent_loop` L | 66371 | no doom loop, well-formed requests, nothing forgotten, termination |
| `run_log` L | 148605 | log and page through lost connections and crashes: what is listened to is gapless, ended once, heard |
| `permissions` L | 476 thousand | two stages, a page and a command line on one rules file: consent, rules kept, page up to date |
| `web_run` L | 82 thousand | run manager and page refine `RunService`; cancelled runs end; a quiet page shows its run |
| `workspace` | 1.65 million | a sandboxed stage, a delegated agent and a person in one directory: true caches, reviewed work, success means work |
| `command_line` L | 491181 | lines in turn, a removed pipeline is not loaded, the next session agrees, the process ends |
| `library` | 1.86 million | the editor and others on the same files: saved is shown, reopens, can be opened, runs what is shown |
| `config_dir` | 949 thousand | two terminals, four processes, a page on one lock and one settings file |
| `skills` | 892390 | two windows, late and lost replies, handlers that fail, a stage that reads file by file: only what was asked changes, dialogs hold their skill, whole skills are loaded |

### Where the code is not what it says

The code disagrees with its own comments in four places that the modules reach.
One is a run of its own, which ends with a behaviour that violates the comment:

- `rule_choice`, `MostSpecificRuleWins`. "Most specific rule wins (exact match >
  glob > wildcard)" (`permission-store.ts:78`). The newest matching rule wins, as
  the comment in the line below it says; `OnlyWithConsent`, which holds, is about
  that one.

The other three are in the models of the passing runs, whose properties name the
states in which they happen and exclude these:

- "Rollback context to pre-stage state" (`stage-executor.ts:674`). `rollbackContext`
  looks for the newest snapshot with the stage's name. In the second run of a
  project a stage that fails before its own snapshot, for want of a token of the
  rate limit or of a provider, goes back to one of the first run: the outputs of
  the stages before it are replaced by old ones (`reverted`).
- "Wait until a token is available, then consume it" (`rate-limiter.ts:24`). Only
  the first waiter has a timer; when it aborts the others wait, token or not,
  until they time out themselves (`forsaken`).
- "File changes from the command are captured in the sandbox"
  (`sandbox-tools.ts:246`). A command knows the project's path
  (`OPENTHK_PROJECT_DIR`), and its arguments are only searched for `../` and
  redirections; `sandbox-manager.ts:132` says that it reaches real files (`past`).

### Bounds

- `executor`: three stages give a layer of several, a chain, a fork and a join;
  `MCGraphs` has every ill-formed map over them and an unknown name and every
  acyclic map with an edge up to renaming. One retry, one fallback model, one
  question per stage nest in each other. A bucket of one token runs empty and is
  refilled; costs 0 and 1 reach the limit of 2. The database is empty, or has old
  values of every key and an old snapshot of every stage.
- `agent_loop`: two calls, batches of two, four iterations pass the threshold of
  three across responses and leave a last one to be cut off; one continuation
  stands for three because the counter is only compared.
- `provider`: its two modules share nothing but the signal of a call, which each
  has for itself; a behaviour of the run (`MCSpec`) is one of the queue or one of
  the calls, as their product would show nothing more. Four calls on two tokens
  leave two in the queue, so that aborts meet the first waiter, the one behind it
  or all. A window of three ticks, timeouts of three, waits of one tick or as long
  as the server says, seven ticks.
- `run_log`: two events, of a listed type or not, losses and cancels: one of each before and after the
  end of the run.
- `permissions`: two callers with one call each, of the same file, two rules at
  a time, one edit of the command line, one list of the page on its way.
- `web_run`: two runs, the second orchestrated, two messages, one restart. The
  theorem `ServiceProvided` covers any number.
- `workspace`: two calls per agent, one change by a person or a process that a
  command left behind, four of these five in a behaviour, two delegations
  (`CONSTRAINT Bounded`). Behaviours are not followed when the orchestrator has
  concluded: the stage goes on as it would have before.
- `command_line`: two directories, two file names in two origins, four lines,
  two questions, one change by others.
- `library`: two paths, one edit, one change by others, two requests on their
  way. `CONSTRAINT Orderly` does not follow states in which answers have
  overtaken each other (`muddled`): every property but `ReopensTheSame`, which
  is about the draft alone and is proved without it, excludes them, and
  `muddled` never becomes false again. With three requests on their way there is
  one more case, which the proofs brought up: the save that precedes a run is
  answered when a new pipeline of the same name, whose file was deleted, is on
  its way already, and the run comes after it. `Late` counts this as muddled.
  The theorems are about any number of requests.
- `config_dir`: three commands, four processes. The terminals are symmetric
  (`TwoTerminals`): no definition distinguishes them and every property is an
  invariant, so the reduction is sound.
- `skills`: three clicks, at most one of them in the window where nobody types
  (`CONSTRAINT ThreeClicks`); a skill that the project has in part and the user as
  a whole, so that a stage which asks for it finds it in either directory, before,
  after or while the project's is saved or deleted; one namespace. Nobody clicks
  in the global list: `StagesGetWhole` and the other theorems are about any scopes.

`CHECK_DEADLOCK FALSE` is set where runs, queues and processes really end or a
bound on what persons do is used up.

### Fairness

Steps of the program are weakly fair, people, faults and the outside are not.
`PipelineExecutor`: the loop over the layers and `StageStep` of every stage, as
the event loop runs ready callbacks and timers fire; not agent loops, whose
tools may wait for a person, hence `EndsUnlessUnanswered`. `AgentLoop`: the loop
and the provider's answer, which its timeout bounds; not the tools.
`RpmLimiter`: armed timers fire and time passes. `RunLog`: the server's handlers
and timers, the finishing of a run, the page's callbacks. `RunPage`: handlers,
answers, the page, and the execution of every run, which is bounded by its
timeouts; not the answers to questions, nor restarts. `PermissionCenter`: the
processes' own steps, polling (an interval of the page) and delivery. `Repl`:
what works off a line or a run that waits for nobody.

## Proofs

All theorems hold for every value of the constants that satisfies the
assumption named in the module. Of the properties of the runs all safety
properties but one are proved, the refinement among them.

`PipelineExecutorProofs` proves `TypeOK` first (`TypeCorrect`), one case per
action. `TurnInv` is the inductive invariant for the order of things. To
`DependencyOrder` and `OrderIsTopological` it adds `LayersInTurn` (a stage is in
one layer, layers before the current one are done, those after it untouched:
without it nothing says that the dependencies of an active stage lie in a
settled layer), `OutcomesKnown` (which positions of a stage carry which status)
and `NoCycleResolved` (no circular set of stages meets a layer, which with the
exit of the loop gives `RefusedIffIllFormed` in both directions). From it follow
`DependenciesFirst`, `LayersTopological`, `RefusalsRight`, `CancelStopsLaunches`
and, with its own induction, `FailureStops`. `SnapshotsKeepEarlierLayers`, that
the newest snapshot of a stage of the current layer agrees with the store on
the outputs of earlier layers, gives `OutputsSafe` and `RollbackStaysInLayer`. It
speaks of the stages that have taken a snapshot in this run (`taken`), and of
layers in which nobody has gone back to one of an earlier run (`reverted`), so
that nothing is assumed of the database.

`ToolCallProofs`. The loop's invariant is `LoopInv`. `NoDoomLoop` counts the
executions in a row; the code does not count, it looks at the last few calls.
`StreakIsRecent` relates the two: the counted calls are the newest ones in
`recent`, or `recent` is full. `AnswerInv` balances the calls of a response
against its answers and what is still to do, `MemoryInv` what was executed
against log and round. For the permissions, `OneWriter` says what a process that
is about to write carries, unless `raced`; that a rule that replaces others
leaves the set that was decided rests on lemmas about `Keeping`, the sequence of
what is kept. `CallsHaveConsent` needs `AllowedByClick`: an answer that is on
its way to a request that still waits was clicked for that request. Numbers of
requests are not used twice (`Given`), or a late answer could reach another call.

`StageProofs`. `CacheInv` adds to `CachedAnswersTrue` that a time stamp known
to a cache is not newer than its file, for otherwise a write could make an old
stamp right again. `BoxInv` adds `DiffsShown`, that what will be applied of a
box under review is in the approved diff, or others, or a process the stage left
running, changed it; `WorkInv` that what the orchestrator notes as work was done,
unless a call was refused. `SkillsInv` has one part about the windows,
`DialogAgrees` (a dialog waits only for the skill it names, unless it crossed),
and two about files: `DocumentsWhole` (every document is whole but the one that
is being changed and those that were left in pieces) and `LoadWhole` (what a
stage has read of a document that was not disturbed is still what is there).
`AskedForChanges` is an action property over the same invariant.

`ProviderProofs` proves `OneWakeup` for any `Aborts`, from `WakeupInv`. The
number of drain timers is at most one more than that of the drains that were
armed for a queue which then aborted as a whole, and a call's own timer means
that no other drain is armed; a queue without either is one that was forsaken.
`CallsAreAnswered` has `CallInv`: the clock does not pass the deadline of a call
that is under way, nor the moment of its cancel, in whichever of the three places
it waits.

`RunLogProofs` proves `LogNumbered`, `DoneIsLast`, `FinalStatusStays`,
`ViewGapless` and `OwnRunShownWhole` when runs with a live worker elsewhere are
not cancelled (`LiveCancels = FALSE`; otherwise the worker writes its own end
afterwards). `LogInv` says what each writer knows while it is at work: the
worker's counter is the length of the log, the cancel handler only runs when the
worker is dead, and there is no `run:done` before the end is being written.
`PageInv` follows the rows to the page: the two ends agree on whether there is a
connection (`Connections`), and what is shown, what is on the wire and what will
be sent next are consecutive (`InOrder`, `Follows`), but for rows of types the page
does not listen to. Rows may be sent twice after
a reconnection, so it speaks of the set of numbers shown. `Rows` picks the rows
after a number by their rank; `RowsInOrder` shows that this is the log in order.

`RunPageProofs` proves the refinement `Spec => ServesRuns`: initial states map
to initial states of `RunService` and every step to a step or a stutter. It
needs `ServiceInv`: the row of a run and its execution agree (`RowAgrees`),
stages work and ask only while their run is executed (`StagesAlive`), and what
has been heard followed by the inbox is what was said (`MailKept`). `PageRests`
adds `Undisturbed`: a page that does not show its run yet is still owed an
answer about it, and requests and answers are about no other run.

`FrontEndProofs`. The session's `ChosenIsActive` says that a pipeline chosen by
its name is available, parses and is the active one: removal compares with the
active name only, so that `RemovedNotLoaded` and `NextSessionAgrees` both hang
on it. `LineInv` is that what was started followed by the queue is what was
typed. `EditorInv` holds for any number of requests on their way, unless
`muddled`: one request is worked off at a time (`OneAtATime`), an editor's
requests come after those of pages that were left and its loads after what it
writes (`InOrderOfPages`), an answer that has not arrived is still true
(`HeadKnows`), what is displayed is the file's, or about to be replaced, or just
saved (`EntryAgrees`), and a run will find the text it was asked for or nothing
(`RunsFind`). Each part needs the others: the answer to a save is only still
true because no copy, deletion or other save can come between, which is the
order of pages. `AcceptedInv` relates the last validation to the draft
(`DraftChecked`), to copies on their way and to the files; `WhatIsSavedOpens`
assumes that the files which are there at first are pipelines (`GoodFiles`), as
nothing checks those. That the new pipeline of the editor is valid is
`StarterAccepted`. `DraftsReopen` needs no order of answers at all. `DraftInv`
says that the nodes of a draft have different names, that its kinds and edges
are those of its mode (`Sound`), and that files and texts on the wire are
documents, in which a stage has one name. `ReopenedIsTheSame` then shows that
what is written and read again is the graph up to the numbers of its nodes. That
an edit keeps the names different rests on `FreeName`: among as many suffixes as
there are nodes and one more, `uniqueStageName` finds one that is not taken.

`ConfigDirProofs`. `OneServer` says that, unless a server was spawned beside
another (`raced`), at most one process is alive, a stop knows which, and the lock
names the one that serves; it is not enough to speak of servers that serve, as
one that starts takes the lock later. `FileInv` is about `providers.json`: a
writer that is not overlapped has the wanted text (`OneWriter`), and what is
marked as checked was accepted as it is, in the file and in every text about to
be written (`AllBacked`). `PageInv` adds which requests of the page can be on
their way and what they carry while it is undisturbed.

Sequences that the code filters are defined by rank (`Rows`, `Keeping`,
`Serialize`) and not with `SelectSeq` or `SetToSortSeq`, which are defined by
recursion and by `CHOOSE`, where the provers cannot follow.

Proved but not in a run's list: `TypeCorrect`, `OrderIsTopological`,
`RefusedIffIllFormed`, `FailureStopsLaterLayers`, `EarlierLayersKept`,
`LogNumbered`, `FinalStatusStays`.

Only model-checked:

- liveness (`EndsUnlessUnanswered`, `CallsSettle`, `LoopEnds`,
  `FollowersHangUp`, `PanelKeepsUp`, `CancelledRunEnds`, `ExitsWhenClosed`):
  fairness and ENABLED are beyond the prover;
- `ThrottledEnough`: it sums the tokens of a sequence, which takes an induction
  over data;
- that `GlobsMatch` and the other pure functions agree with their definitions
  for every input, which is an induction over data as well.

## What the properties exclude, and why

The code and its documents disagree, or the code does not guard against
something, in the places below. A property whose statement has an exception has
it for one of these.

- A rollback restores the whole store and erases the output of a sibling of the
  same layer (`stage-executor.ts:631`; `OutputsLostOnlyToSiblings`), and in a second
  run what earlier layers wrote (`reverted`).
- A waiter that aborts takes the only timer of the queue with it
  (`rate-limiter.ts:115`; `forsaken`).
- A page does not listen to `stage:error-paused` and `stage:model-fallback`
  (`lib/run-events.ts:124`): a page that is open shows them only after it has
  fetched the run anew (`Unlisted`).
- The last rows of a run of another process can be missing from a page that saw
  its end (`routes.ts:829`; `OwnRunShownWhole` is about runs of the server).
- The second of two persons who answer the same request is told that the answer
  was accepted (`confirmation-gate.ts:64`); the first one decides.
- The cost limit is checked after a stage has spent, and a stage that exceeds it
  is retried (`stage-executor.ts:493`).
- An accepted message is dropped when the run ends first
  (`agent-loop.ts:384`; `RunService` says "or not at all").
- Cancelling a run of another process that is alive marks it cancelled and lets
  it go on (`routes.ts:871`; `LiveCancels`).
- Two failing stages share one error slot: the first question is never answered
  (`run-manager.ts:316`; `CancelledRunEnds`). A start that is refused after the
  run was registered leaves it running (`run-manager.ts:262`).
- The tokens-per-minute limiter waits once and does not look again
  (`rate-limiter.ts:302`; `ThrottledEnough` and its `stale`).
- Two writers of `permissions.json` or `providers.json` at the same moment lose
  a change (`permission-store.ts:94`, `global-config.ts:53`).
- Sandboxed commands reach the project through links and by its path
  (`sandbox-tools.ts:278`, `:304`; `past`), and what they leave running changes
  what is under review (`sandbox-manager.ts:243`); a listing is only invalidated by the agent's own writes.
- A key answers every question that waits and understands it; Ctrl+C after an
  answered question ends the process (`repl.ts:376`); a question that waits when
  the terminal closes keeps the process (`ExitsWhenClosed`); `/exit` leaves the
  rest of the queue.
- The editor takes the answer to a load whatever is open by then
  (`PipelineEditor.tsx:161`), and does not wait for its validation
  (`hasty`). It drops top-level fields it does not know, and `depends_on` in
  orchestrated mode. `Pipelines.tsx:297` and `routes.ts:667` disagree on who may
  be deleted.
- A start of the server while another is on its way up gives two servers
  (`lifecycle.ts:63`; `raced`).
- A skill's document that could not be loaded can be saved as an empty one, and
  a late reply closes whatever dialog is open (`SkillManager.tsx:213`). A stage
  that reads a skill while it is saved or deleted gets pieces of it, and a save
  that fails half-way leaves them (`skills-store.ts:151`; `spoilt`, `torn`).
- One continuation more than `max_iterations` would not be noticed: `LoopEnds`
  only says that the loop ends.
- The restore of a snapshot is not a transaction (`context-store.ts:298`), and
  delegates are not charged nor rate-limited (`delegate-tool.ts:151`). No run is
  about these two.

## Not modelled

- Wire formats of the provider adapters and streaming, which nothing calls;
  pricing.
- The risk classifier's patterns (given as attributes of a call), the output
  filters, prompts, diffs and token accounting: text.
- YAML syntax, and the fields of a stage other than name, role and dependencies.
- `reset()` of the limiters, `markDeleted` of the sandbox and other operations
  that nothing calls; expiry and compression of context entries, as no caller
  sets a time to live.
- The one-shot commands (`cli/commands`) other than `ui`: straight-line callers.
  `openthk run` answers no permission request and reads two questions from one line
  (`cli/commands/run.ts:165`, `:202`).
- The event bus (synchronous fan-out), the shared types, the static file server,
  the views that only read (`App.tsx`, `Settings.tsx`, the lists of runs), the
  layout of the editor's graph.
- The slash commands that act on other components (`/providers`, `/permissions`,
  `/ui`, `/context`) are not actions of a session: what they call is in
  `ProviderStore`, `Permissions` and `UiServer`; the manual snapshots of
  `/context` are left out.
- Two processes at `preferences.json` at once, which is read, changed and
  written without a lock (`workspace.ts:501`): `SetDefault` is one step.
