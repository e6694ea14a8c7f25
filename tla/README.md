# Tau in TLA+

TLA+ models of Tau (`src/`), the TLC runs that check them, and TLAPS proofs
about them. Paths in this file are relative to `src/src/`.

    tlc -config <run>.cfg <MC module>.tla        # the runs table below
    tlapm --stretch 2 <module>Proofs.tla         # the proofs of a module, up to five minutes

| module | what it is |
|---|---|
| `ToolCallProtocol` | abstract: what the agent core promises model providers about tool calls |
| `AgentHarness` | `tau_agent/loop.py` inside `tau_agent/harness.py`; refines `ToolCallProtocol` |
| `AgentHarnessProofs` | its inductive invariant and theorems |
| `MCAgentHarness` | `AgentHarness` with the caller restricted to what a run is about |
| `SessionLog` | `tau_agent/session`: log entries, replay along a branch, repair and compaction plans (operators only) |
| `CodingSession` | `tau_coding/session.py`: composes `AgentHarness` and `SessionLog` |
| `MCCodingSession` | `CodingSession` with parts of its environment left out |
| `CodingSessionProofs` | proofs about both: what is written, where, and what it replays to |
| `TrustLedger` | abstract: what a store of trust decisions promises its readers |
| `TrustStore`, `SessionIndex`, `Credentials`, `OAuthLogin`, `ProviderFiles`, `CatalogOverlay`, `ProviderLogin` | the files a user's processes share, and the logins that fill them; `TrustStore` refines `TrustLedger` |
| `SessionSwap`, `ExtensionRegistry`, `Resources`, `ContextBudget`, `ModelChoice` | what a session is put together from |
| `TextWindow`, `EditTool`, `BashCommand` | the coding tools |
| `CanonicalStream`, `ProviderStream`, `WireHistory` | a request to a provider: the answer on its way back, the history on its way out |
| `PromptWorkers`, `ComponentSlots`, `TranscriptItems`, `TranscriptWindow` | the terminal interface |
| `UserFiles`, `SessionParts`, `ToolsAndStreams`, `Interface` | one module each for these four groups: its parts side by side |
| `MCUserFiles`, `MCSessionParts`, `MCToolsAndStreams`, `MCInterface` | their constants' values for TLC |
| `UserFilesProofs`, `SessionPartsProofs`, `ToolsAndStreamsProofs`, `InterfaceProofs` | proofs about the four groups |
| `TrustStoreProofs`, `CredentialsProofs` | two longer proofs that `UserFilesProofs` uses |

`PROJECT.json` holds the map from definitions to source lines, the mutants, the
hazards and the findings. The definitions described as "Mutant" in a module are
plausible bugs of the definition next to them. No specification uses them; each
is there to show that some property would notice.


## 1. Inventory

Tau is `tau_coding -> tau_agent -> tau_ai`: a coding application around a
portable agent core around model providers. Everything in a process runs on one
asyncio thread. Concurrency is therefore interleaving at `await` and `yield`;
what makes it hard is that a *run* is a tower of async generators (provider
stream, loop, harness, session, frontend) that hands out events, may be closed
or cancelled at any of them, and shares lists with the coroutines that run in
between.

| component | state | operations | interacts by | correct when | module |
|---|---|---|---|---|---|
| Agent loop (`tau_agent/loop.py`) | locals of a generator: `pending`, `assistant`, tool batch, `turn` | turns: inject, request, tool batch, drain | shared list `messages`; events up; hooks and tools down | every call has one result before the next request; queued messages injected once, in order; it ends | `AgentHarness` |
| Agent harness (`harness.py`) | `_messages`, two queues, cancel signal, listeners | prompt, continue, steer, follow-up, pop, clear, cancel, append, replace | owns the loop; listeners run before the consumer | refuses a second run; a stopped run leaves an acceptable transcript | `AgentHarness` |
| Session log (`tau_agent/session/`) | append-only JSONL, a tree by parent pointers, `leaf` entries | append, read, replay a path, compact, label | read at load, at branch and after every append | what a leaf replays to is what was live when it was written | `SessionLog` |
| Coding session: prompt, persistence, recovery (`tau_coding/session.py`) | harness, storage, `_last_parent_id`, `_state`; `persisted_count` per call | prompt, continue, compact, terminal command, custom entry, branch, load | consumes harness events, writes the log, replaces the harness's messages | log and live transcript agree; load repairs; settles | `CodingSession` |
| Context budget and model choice (same file, `context_window.py`, `thinking.py`) | usage on messages; model, level, route, client, settings | estimate, compact, set model, level, route | reads the replayed messages; builds clients; other processes write the settings | the estimate is of the messages as they stand; the client is the one shown | `ContextBudget`, `ModelChoice` |
| Session replacement and reload (same file, `reload.py`) | the whole session, staged and adopted | load, resume, new session, reload | lifecycle hooks of extensions, awaited and cancellable | exactly one live runtime at the end | `SessionSwap` |
| Extension runtime (`extensions/`) | generations, registrations, hook chains | load, set up, register, invalidate, emit, deliver | hooks of the harness; queues messages; custom entries | a stale generation has no effect; no tool runs past a hook | `ExtensionRegistry`, `SessionSwap` |
| Project trust (`project_trust.py`) | two JSON files, a journal, a lock, a cache | resolve, set, update, recover | several processes; prompts the user | never trusted unless someone said so | `TrustStore`, `SessionSwap`, `Resources` |
| Session index (`session_manager.py`) | one JSONL index per project | reserve, index, touch, list | read-modify-write by several processes | no transcript has two owners | `SessionIndex` |
| Credentials and OAuth (`credentials.py`, `provider_runtime.py`, `oauth*.py`) | a credential file, one lock per process | login flows, refresh, logout | several sessions and processes; a server thread | a single-use refresh token is spent once; a login takes only its own answer | `Credentials`, `OAuthLogin` |
| Provider configuration and catalog (`provider_config.py`, `catalog_loader.py`) | `catalog.toml`, `providers.json`, the bundled catalog | migrate, overlay, upsert, save | read and replaced by every process | no definition or choice is lost | `ProviderFiles`, `CatalogOverlay`, `ProviderLogin` |
| Coding tools (`tools.py`) | child process, files | bash, read, write, edit | called by the loop | bash returns on exit, timeout or cancel; an edit means what it says; a file can be read as a whole | `BashCommand`, `EditTool`, `TextWindow` |
| Resources and prompts (`resources.py`, `skills.py`, `prompt_templates.py`, `context.py`, `system_prompt.py`) | files of the user and of the project | discover, load, build the prompt | read at load and reload | the prompt is that of what was read; nothing unapproved is read | `Resources` |
| Provider adapters (`tau_ai/`) | one HTTP stream, a parser, a retry counter | request, parse, retry with backoff, cancel | events to the loop; messages from it | one terminal event; no retry after output; any history can be sent | `ProviderStream`, `CanonicalStream`, `WireHistory` |
| Terminal interface: workers and keys (`tui/app.py`) | prompt worker, compaction worker, `_prompt_run_id`, optimistic messages | submit, steer, cancel, compact, login | calls the session, consumes its events | no event of an abandoned run is shown; Esc finds the run | `PromptWorkers`, `ProviderLogin` |
| Terminal interface: transcript and widgets (`tui/state.py`, `adapter.py`, `widgets.py`) | items, mounted rows, slots | events, scrolling, mounting | fed by the adapter; awaits the screen | what is shown is what a reload shows | `TranscriptItems`, `TranscriptWindow`, `ComponentSlots` |
| Command line, commands and rendering, export, usage and updates, presentation | files, arguments | parse, format | sequential | data, no interleaving | - |

### What is hard to test

`PROJECT.json` lists each hazard at its line. The groups are:

* **Stopping.** A run can stop at every suspension point: cancelled
  cooperatively, its task cancelled, its generator closed, a listener or hook
  raising, the process dying. Between an assistant message with calls and
  their results, each of these leaves a transcript that a provider rejects,
  unless three pieces of repair code (the loop, the harness's `finally`, the
  next call's start, and for a process the load) work together.
* **Counting what is written.** The session writes messages by position
  (`persisted_count`) in a list that the loop appends to only *after* it has
  announced a message, that the harness repairs, and that other operations
  append to during a run.
* **Queues.** Messages are queued and withdrawn at any time; the loop drains
  at a few places.
* **Log and transcript.** Compaction and branching rebuild the transcript from
  the log; a load rebuilds both.
* **Several processes** of one user share the trust store, the session index,
  the credentials and the provider files. Only the trust store has a lock; the
  others rely on atomic renames and on what a lost update costs.
* **Staged replacement.** A reload, a resume or a new session builds a second
  runtime beside the live one and publishes it between handlers that may fail,
  be cancelled, or look at the session.
* **Races inside a call**: output, timeout and cancellation of a command; the
  browser, the pasted answer and Esc in a login; chunks, retries and
  cancellation of a request; workers that cancel each other; a screen that
  follows its state some awaits later.
* **Things that must agree across modules** and are written twice: what needs
  approval and what is read; what the prompt is made of and when it is rebuilt;
  how a reply's usage is matched to messages that were replayed; six adapters
  that read each other's histories.


## 2. Plan

The order is by how much of Tau depends on the behaviour.

1. *(done)* `ToolCallProtocol`, `AgentHarness`, `AgentHarnessProofs`.
2. *(done)* `SessionLog`, `CodingSession`.
3. *(done)* the files several processes share: `TrustLedger`, `TrustStore`,
   `SessionIndex`, `Credentials`, `ProviderFiles`, `CatalogOverlay`, and the
   logins, `OAuthLogin` and `ProviderLogin`.
4. *(done)* what a session is made of: `SessionSwap`, `ExtensionRegistry`,
   `Resources`, `ContextBudget`, `ModelChoice`.
5. *(done)* tools and requests: `BashCommand`, `EditTool`, `TextWindow`,
   `ProviderStream` with `CanonicalStream`, `WireHistory`.
6. *(done)* the interface: `PromptWorkers`, `ComponentSlots`,
   `TranscriptItems`, `TranscriptWindow`.
7. Left: failures of the session's storage and the torn last line; the other hook chains of the extensions;
   the pickers of the interface.

Proved: section 10, where what is out of the prover's reach is listed too.

The modules of steps 3 to 6 state their assumptions about constants as plain
definitions, because they are only instantiated; each of the four modules that
puts a group together assumes them, as `PartsAssumption`.


## 3. AgentHarness

### Correspondence

| variable | code |
|---|---|
| `messages` | `AgentHarness._messages`, the list the loop shares |
| `steering`, `followUp` | `_steering_queue`, `_follow_up_queue` |
| `signal` | `_current_signal.is_cancelled()` |
| `pc` | where the run's generator is suspended; `"idle"` is `is_running == False` |
| `pending`, `reply`, `turn` | loop locals `pending`, `assistant`, `turn` |
| `todo`, `outcome` | the loop's iteration over `assistant.tool_calls` and the result at hand |
| `issued`, `submitted` | external: what providers have called, what people have typed |

A step of the run is everything the generator does between two suspension
points, so that other coroutines run exactly where asyncio lets them:

| `pc` | suspended at |
|---|---|
| `start` | AgentStart, first TurnStart, the prompt's MessageStart and MessageEnd |
| `turnStart` | a later turn's TurnStart; the drained messages are in `pending` only |
| `inject` | an injected message's events |
| `stream` | the provider's stream, and the partial messages |
| `assistantEnd` | the reply's MessageEnd; the loop appends the reply *after* it |
| `toolStart` | ToolExecutionStart and the awaited `before_tool_call` |
| `toolRun` | `tool.execute` and `after_tool_call` |
| `toolEnd` | ToolExecutionEnd and the result's events; the loop appends it after them |
| `turnEnd` | TurnEnd; the queues are drained after it |
| `stopping` | AgentEnd, and the events of a reply or an error that ends the run |

Adjacent yields with no assignment between them share a `pc`. `Close` is every
way a run is torn down where it stands; together with `Finish` it runs `_run`'s
`finally` (`Finally`). `Repaired` is `_append_interrupted_tool_results`,
defined without recursion: the one enumeration of the unanswered calls in the
order in which the code walks them.

Environment: the caller may call any operation wherever the code lets it.
A provider's reply is any batch of up to `MaxBatch` calls, failed or not.
`FreshCallIds` says whether ids are new, or made from positions by the
adapters because the wire carried none. `Branches` and `Compactions` are the
transcripts a session may replace the old one with.

### Properties

`ToolCallsAnswered`: whenever the provider is asked, and in front of every
assistant message, each earlier call has its result. `OneResultPerCall`: none
has two. `CancelSettlesCalls`: a cancelled run leaves nothing unanswered.
`ImplementsProtocol`: all steps are steps of `ToolCallProtocol` under the
mapping `running <- pc # "idle"`, `asking <- pc \in {"stream",
"assistantEnd"}`, `owed <- Unanswered(messages)`. `QueueOrderKept`: what came
through a queue is injected in order, once, and not while still queued.
`NoStopWhileQueued`: a run that nothing fails does not stop on a queued
message. `RunEnds`: every run ends.

### Bounds

`MaxBatch`, `MaxIssued` (calls per reply, in all), `MaxSubmitted` (messages
handed in) and `MaxMessages` (transcript length at which `continue_` is still
called) bound the runs; `MaxTurns` is the code's own limit, 9 standing for
"none". Two calls are the fewest that tell a batch from a sequence and a
half-answered batch from an unanswered one; two replies of one call each are
also within `MaxIssued = 2`. Three queued messages are the fewest for which a
drain, a withdrawal and a later injection can get out of order. Symmetry is not used: ids are
ordered. The proofs have no bounds.

The tool runs leave out the follow-up queue and the withdrawals (steering
stays, as it adds turns): `ToolSpec`, in `MCAgentHarness`, restricts the caller
only, never the run or its teardown. `harness_queues` has every operation.
`harness_tools` drains whole queues, `harness_queues` one message at a time.

Deadlock is not checked: an idle harness whose bounds are used up does stop.

### Fairness

`FairSpec` is weak fairness of `Step`. asyncio resumes a generator whose
consumer asks for the next event; providers end their streams because every
adapter has a read timeout; a tool returns, by assumption: the bash tool has
an optional timeout and kills on cancel, extension tools are trusted to
return. Nobody is obliged to call, cancel or close. `RunEnds` also needs the
supply of calls and messages to be finite, which the bounds say: a model that
calls tools forever under `max_turns = None` does run forever.


## 4. SessionLog and CodingSession

### Correspondence

An entry's id is its position in `log`, 0 is `None`. `session_info`,
`model_change` and `thinking_level_change` at the start of a log are one
`meta` entry. `Rows` is `SessionState.from_entries` along `path_to_entry`, a
recursive function; `Repair` is `_persist_loaded_interrupted_tool_repairs`;
`CompactionPlans` is `_recent_preserving_compaction_plan` for every place the
token budget may reach back to.

| variable | code |
|---|---|
| the harness's | instance `H` of `AgentHarness` |
| `log` | what storage holds |
| `lastParent` | `_last_parent_id`; also the leaf `_state` was replayed from (both are set together) |
| `persisted` | `prompt`'s local `persisted_count` |
| `due` | a MessageEnd is with the harness's listeners and the session has not seen it |
| `call` | the session call in progress: `run`, `retry`, `continue`, the four compactions, `overflow` and `retryStart` between them, `idle`, `down` |
| `plan` | the ids the compaction replaces, computed before the summary is awaited |
| `branch` | `branch_to_entry` while it awaits its summary: the entry selected, the messages the summary was asked about, and whether another branch has moved the session since |

`due` is there because the harness awaits its listeners before it hands an
event over: a run torn down there has announced a message that is not written.
The JSONL storage does not suspend, so the entries one call writes are written
in one step of the process; `Die` cuts that write after any entry, `DieLoading`
does so during the repair of a load.

Assumptions, each as the code's only frontends have it: one prompt or
compaction at a time (the TUI keeps them apart; print mode makes one call),
while queueing, cancelling, terminal commands and custom entries happen at any
time; a branch or a manual compaction starts with both queues empty and no run.
A branch that awaits its summary is cancelled by a prompt, whose worker is
exclusive, and by nothing else: compactions, custom entries, commands and other
branches go on beside it. An entry is written whole or not at all.

### Properties

`LeafIsLive`: the live session writes below the leaf that a load would resume
from. `DurableIsLive`: the durable branch holds nothing that the live
transcript does not. `LoadIsRepaired`: a loaded transcript holds every message
of the branch the load found, whatever death left behind, and the result of each
call made there, behind the call. It says nothing of messages that a compaction
had replaced, nor of the compaction's own summary, because the repair may take a
compaction back; that no call at all is unanswered (`LoadIsSafe`) is therefore false, a
finding (section 9). `IdleIsDurable`: when no run is torn down, an idle session has written everything; `IdleIsExact`:
in order and once, when no terminal command intervenes either.
`SummaryCoversBranch`: a step that ends a branch with a summary leaves no live
message behind that the summary was not told of, whatever happened since it was
asked for; terminal commands and a session that another branch moved are left
out, because the code does lose messages then (section 9).
`PromptSettles`: a prompt's run, compaction and single retry end, or
the process dies.

`IdleIsDurable` and `IdleIsExact` need their restrictions: section 9 says what
happens without them.

### Bounds and fairness

`session_main` has two submitted messages and two calls, one turn to a run, and
`MaxLog = 5`: room for two prompts with a call each, `continue_` runs, a
terminal command in place of a prompt, a compaction, branches and deaths. Each
prompt may leave its call without a result, by a failure, a teardown or a death,
and the compaction comes between or after. Steering and more turns are in
`session_durable`, where a queued message or a second prompt meets a compaction. `MaxLog` only stops
entries from being added outside a run, and death during a repair; `MaxBranch`
is the same bound for a branch with a summary, which needs a finished run below
it, and for what is added while it waits.

`FairSpec` is weak fairness of `Progress`: the steps of the run and of the
session's own call; a summary that is awaited succeeds or fails. Death,
teardown and users are not fair.

Deadlock is not checked, for the same reason as above.


## 5. The files of a user (`UserFiles`)

### How the parts are put together

`UserFiles`, `SessionParts`, `ToolsAndStreams` and `Interface` each
instantiate several modules whose state is disjoint. The variable `part` says,
from the first state on, which of them the behaviour is of; the others keep
their initial state. So a run checks each part by itself, its states are the
sum of theirs and not the product, and nothing is claimed about parts that act
together. Where code of one part acts on another's state, the module has that
action (`SessionSwap` changes both the trust cache and the runtimes,
`ProviderLogin` all three files and the client).

| module | variables | actions |
|---|---|---|
| `TrustStore` | `data`, `journal`: the two directory entries; `disk`: the entries a power failure may leave; `holder`, `pc`: the lock and each process's place | every file operation of `_write_unlocked`, `_recover_unlocked` and of a read, each succeeding, failing, or failing after it took effect; a process that dies; `PowerFails` |
| `SessionIndex` | `index` and `transcript` per project, `task` per process | `Call`, `Reserve`, read, open (which truncates), write, `Fail` with the roll-back `Unlink`, `Die` |
| `Credentials` | `file`, the lock per process, `task`, `saving`: what a process loaded before it writes | resolve, acquire, present the token, its answer, loss or refusal, save; login, logout, another credential; cancellation |
| `OAuthLogin` | `server`, `future`, `posted` (handed over by the server's thread), `typed`; the device flow's deadline, interval, last poll | start, callback, deliver, submit, first answer, fallback, exchange, abandon; poll, tick |
| `ProviderFiles` | `catalog`, `file`, `backup`, and per process what it has read | load with migration, backup, catalog, file, each a step; `Upsert`; `Stop` |
| `CatalogOverlay` | `bundled`, `entry`, `prefs` | a release, the user's edits of the entry, every save of a preference |
| `ProviderLogin` | `stored`, `catalog`, `saved`, `default`; the session's `mem`, `current`, `client`; the `screen` | start, the screens, `/login`, `/logout`, `/model`, each write failing after those before it were done |

`TrustLedger` is what `TrustStore` promises: a reader is given the decisions of
the last update that was reported to succeed, or an error; an update that is
reported to fail is never visible; and a store left in the middle of an update
refuses readers. `ImplementsLedger` is that every step of the store is a step
of the ledger or a stutter, under `open <- Readable \/ Updating`.

### Properties

`ReservedOnce`: two workers are never both told a transcript is theirs, and one
that was given is not removed by another's roll-back. `SpentOnce`: a refresh
token is presented again only if nothing came of it; in one process, until
somebody logs out. `AsksSettle`: whoever asks for the credential is answered.
`LoginIsItsOwn`: no code, port, waiter or early poll is left to the next login.
`DefinitionsSurvive`: however migrations overlap and processes stop, every
definition is in one of the two files. `ChoicesSurvive`: releases, edits and
Tau's own saves leave a valid catalog, the user's choice, and the release's
definition where nobody changed it. `LoginsHold`: no login loses a key, uses a
wrong one or passes one over.

### Bounds, fairness, assumptions

Two processes share each file, the fewest that race; two tasks of one process
share the refresh lock, two tokens let a refresh be refreshed once. Two logins
follow one another, a device code lives up to three time units. One legacy and
two added providers; three releases that drop a model, move the default and
shrink the levels. Paths: a directory and its parent. A session index has one
project and one id, over which both processes compete.

`Credentials!Fairness`: the event loop runs what is ready, `asyncio.Lock`
serves its waiters in order (strong fairness of `Acquire`), requests have a
timeout, a save ends. Nobody is obliged to ask, log in or cancel.

Assumed: a rename is atomic; one power failure may keep either entry of each of
two files; a custom provider's name is none of the built-in ones;
environment keys do not change while Tau runs (`Env` is empty in the run).


## 6. What a session is put together from (`SessionParts`)

| module | variables | actions |
|---|---|---|
| `SessionSwap` | the session's `policy`, project `files`, `saved` decisions, the coordinator's `cache`; `live`; `rt`: each runtime's place in its life; `op`: the operation in progress | `load`, `reload`, `resume`, `new_session`, one action per stretch between two awaits, and failure and cancellation at each; `FilesChange`, `OthersDecide` |
| `ExtensionRegistry` | the load's `stage`, `found`, `exts`, `hooks`, the slots' `table`, `tools`, the `call` in progress | both loads, set-up that returns or raises, `Subscribe` and `Register` during it and later, hooks, the tool, `Retire` |
| `Resources` | the files by place, the extension on disk, what the session read, what the prompt was built from | edits of every file, the user's decision, `Load`, `Reload` |
| `ContextBudget` | the active context with sizes, stamps and what each reply was made of | prompts, replies with and without usage, tool results, the three compactions, branch, reload, the clock |
| `ModelChoice` | settings in memory and on disk, model, level, route, client, the request under way, the record of the index | each choice, failing half way; a response that pins a route; another process's settings |

`SwapIsSafe` has four parts: project resources are in use only if the session's
policy or a decision allowed them; one runtime hears the session's events; the
interface is attached to it; a runtime is retired only after its handlers were
told. `ToolRunsOnlyIfPassed`: a tool runs only after every hook subscribed when
the call began let it pass. `PromptIsCurrent`: the prompt is the one the
session's resources would give. `ProjectIsApproved`: what the detector looks for
by name covers all the loaders read. `AnchorIsCurrent`: the reported usage that
anchors the estimate was reported for exactly the messages the context begins
with. `ClientIsShown`: the next request goes to the provider, level and route
the session shows, unless a choice failed half way.

Bounds: one operation at a time in `SessionSwap` over up to three runtimes, so
that two replacements follow one another (what two overlapping ones do is in
section 9); six policies, one of each kind; three loads' worth of registrations
by two extensions over one tool; eleven places, one or two of each kind of
resource, three versions of a file of which two have one description, two
edits; five messages of two sizes, a clock of three; three models, two of the
router's. Assumed: files do not change between two awaits of one load; an
operation stands for the prompt's or the worker's; a summary takes the provider
at least a millisecond; the working directory is not the home directory.


## 7. Tools, requests and the interface

### Tools and requests (`ToolsAndStreams`)

| module | models | by |
|---|---|---|
| `TextWindow` | `truncate_head`, `truncate_tail`, the `read` tool and its hints | a line is its number of bytes; a reader follows the offsets |
| `EditTool` | `edit`: matching, overlap, splicing, line endings, failures | a text is a short sequence of characters; others write or remove the file between the steps |
| `BashCommand` | `bash`: process group, pipe, timeout, cancellation | processes join the group, leave it or redirect their output; the task may be cancelled at every await |
| `CanonicalStream` | `canonicalize_provider_stream` | the generator's state as a record, one operator per event |
| `ProviderStream` | the six adapters' requests, parsers and retries, over `CanonicalStream` | the server sends any chunk its protocol allows; content is named by attempt and place |
| `WireHistory` | how each adapter writes a history | a history is grown as the loop grows it, with replies of any API |

`PagesCoverFile`: every line is shown once, or its number given with a command
that shows it, and no page exceeds its limits. `EditIsMeant`: an edit changes
the file to what its replacements mean together, or not at all. `CallIsOver`:
after a timeout or a cancellation nothing of the group runs, and the outcome
reported is one that happened. `CallEnds`: a command that is timed out or
cancelled ends, unless a process that left its group keeps the pipe open.
`StreamIsFaithful`: one message, none of it twice, all of it if it ends as
done. `StreamEnds`. `HistoryIsPortable`: in every provider's form each call is
followed by its one answer, encrypted reasoning goes only where it came from,
and Anthropic's cache boundary is the previous request's.

Fairness: the event loop wakes the waiting call, the watcher looks every 50 ms,
the pipe's end is read; a request or a body that stalls times out
(`Breaks`), a backoff ends. Neither the command, nor the server, nor the user is
fair. Bounds: files of up to four lines, empty, within the limit, or too long;
six texts and all pairs of seven old and three new strings, two to a call; two
child processes; one retry, four chunks; histories of four messages with six
shapes of content.

### The interface (`Interface`)

| module | variables | actions |
|---|---|---|
| `PromptWorkers` | a stage per prompt and compaction, `owner` (the run id), `worker`, `dying` (cancelled, not yet unwound), `compacting`; what the transcript shows; the harness's `turn` and `queue` | keys (Enter, Esc, edit queued), an extension's message, worker start, each await of `_run_prompt` and `_run_compaction`, errors, unwinding |
| `ComponentSlots` | per place the widget that is `meant`, `mounted`, waited for; the screen's `dom`; open views | show, unset, close, clear, crash, `Reconcile`, `Removed`, prune |
| `TranscriptItems` | `items` with indexes and provisional ones, `buffer`, `calls`, `pending` error | every event of `TuiEventAdapter`, terminal commands, reload |
| `TranscriptWindow` | `rows`, the window `first` to `end`, `follow`, `shift`, the streaming rows and the placeholder | items, deltas, the message's end, refresh, scrolling, shifts, anchoring, thinking on and off |

A key or a posted callback is handled to its end before the next; a worker runs
from await to await; an exclusive worker cancels the others, which go on until
their next await gives them the cancellation. `RunsKeptApart` is
`CompactionIsOwn` and `PromptIsFound`. `CompactionIsOwn`: a manual
compaction holds prompts back while it runs and only then, and has the session
to itself. `PromptIsFound`: a prompt is shown once, and the run it leads is the
one Esc cancels. `PlacesSettle`: one widget to a place, in the end the one that
is meant, and whoever awaits a view that goes is woken. `LiveIsReloaded`: once
a run has settled, the items streamed are those a reload shows.
`WindowIsMounted`: between messages the rows are the window's items, each once
and in order, up to the last when the reader follows.

Bounds: two typed prompts, one of an extension, two compactions (a second one
meets the first's unwinding); three widgets, two waiting tasks; two messages,
one delta, one command; six items in a window of two with pages of one, so that
the window shifts both ways. Symmetry over prompts, compactions and widgets:
they are only compared, and the run has no temporal property. In
`TranscriptWindow` a mount puts rows in place at once, and awaiting it only
waits for the screen.


## 8. Runs

| run | what acts | shows |
|---|---|---|
| `harness_tools` | everything that touches the transcript | `ToolCallsAnswered`, `OneResultPerCall`, `CancelSettlesCalls`, `ImplementsProtocol` with two fresh calls, batched or in sequence, queues drained whole |
| `harness_queues` | everything, queues drained one message at a time, `max_turns` 2 | `TypeOK`, `QueueOrderKept`, `NoStopWhileQueued`, `RunEnds` |
| `session_main` | everything, teardown and death, two prompts with a call each | `LeafIsLive`, `DurableIsLive`, `LoadIsRepaired`, `PromptSettles` |
| `session_durable` | no teardown | `IdleIsDurable`, `IdleIsExact`, `SummaryCoversBranch` |
| `user_files` | section 5 | `ImplementsLedger`, `ReservedOnce`, `SpentOnce`, `AsksSettle`, `LoginIsItsOwn`, `DefinitionsSurvive`, `ChoicesSurvive`, `LoginsHold` |
| `session_parts` | section 6 | `SwapIsSafe`, `ToolRunsOnlyIfPassed`, `PromptIsCurrent`, `ProjectIsApproved`, `AnchorIsCurrent`, `ClientIsShown` |
| `tools_streams` | section 7 | `PagesCoverFile`, `EditIsMeant`, `CallIsOver`, `CallEnds`, `StreamIsFaithful`, `StreamEnds`, `HistoryIsPortable` |
| `interface` | section 7 | `RunsKeptApart`, `PlacesSettle`, `LiveIsReloaded`, `WindowIsMounted` |
| `harness_positional_ids`, `session_terminal`, `session_repair`, `login_connects` | as the code is | a violation each (section 9) |

The largest run has five million states; each takes at most about two minutes
with two workers.
Deadlock is checked in no run: users, processes and servers may stop, and the
bounds end every behaviour.


## 9. Where the code does otherwise

### Findings

Each is a violation run: TLC finds the behaviour, and the finding in
`PROJECT.json` quotes the sentence it contradicts.

* `harness_positional_ids`. Adapters name a call that came without an id by
  its position, so ids repeat. The repair looks an id up among *all* results,
  finds an earlier turn's and leaves an interrupted call unanswered; the next
  request carries it.
* `session_terminal`. A terminal command that finishes during a run writes its
  output itself; the run, with its own older count, writes it again. A reload
  or a compaction then has it twice.
* `session_repair`. A load looks for unanswered calls in the
  messages the compacted branch replays to, and writes the missing results below
  the *entry* of the message that made the call. If a compaction was written
  after that entry, the path from the root to it does not hold the compaction:
  the loaded session has the whole replaced history in its context again, and
  with it any call that had no result there either. The next prompt then appends that result at the end of the
  transcript. A run in which at most one call is made does not show it: the attempt to prove that a load leaves no call unanswered did.
* `login_connects`. After `/logout` of the provider in use, every login of
  another provider stores its key and its settings, then rebuilds the client of
  the provider that was logged out, which raises: the user is told that the
  login was not saved, and the session stays with the old provider until a
  restart.

### Disagreements without a run

These came up while modelling. The modules have the behaviour; no property
excludes it, or a property says in which states it leaves it out.

* *Cancellation.* A message drained from a queue lives in a loop local while
  TurnStart is out; a teardown there loses it (`loop.py:90`;
  `dev-notes/architecture/queued-steering-follow-ups.md:19-21`). A reply is
  announced before it is appended, so a cancelled run may never write it
  (`session.py:1976`; `dev-notes/design/04-sessions.md:48`), and the repair of a
  torn-down run is counted as written, so that a branch within the process
  rebuilds a transcript with an unanswered call (`session.py:1931`). A run that
  fails or meets `max_turns` settles with messages queued (`session.py:2038`;
  `dev-notes/provider-anchored-context-recovery.md:35-36`).
* *Branch summaries.* A prompt cancels a branch that awaits its summary
  (an exclusive worker). A manual compaction goes on beside it and loses nothing.
  A terminal command, in a worker group of its own (`tui/app.py:3844-3851`),
  goes on beside it too, and what it appends meanwhile is left behind by the
  branch unsummarized. Of two branches that overlap, the one that
  ends last decides where the session stands. The screen is cleared for
  "Summarizing branch…" before the summary is asked for (`tui/app.py:5234`), and
  a branch that fails or is cancelled does not put the transcript back.
* *Extensions.* Two overlapping replacements, one from the prompt's task and one
  from a worker, leave two runtimes that hear the session
  (`session.py:1516`). A changed guideline of a tool that keeps its name does
  not rebuild the prompt (`session.py:1488-1492`). A slash command's aliases are
  checked after its name was entered (`commands.py:164-174`).
* *Context.* A reply's usage is matched by timestamps, and a branch summary or a
  reload may make a good one unusable; the estimate is then made by counting
  (`context_window.py:186-207`).
* *Provider files.* Setups that overlap in two processes lose one another
  (`ProviderFiles!overlapped`); a preference saved after a release moved what it
  names turns into a snapshot in the user's catalog
  (`provider_config.py:1081-1112`;
  `dev-notes/provider-settings-v2-migration.md:35-39`).
* *Tools.* A process that leaves the group and keeps the pipe delays the end of
  a timed-out command until it closes it (`tools.py:775`); the cancellation of
  the task while the output drains is taken for the reader's end.
* *Interface.* A second terminal command shifts the items the first counts by
  (`tui/app.py:4599-4656`); an extension's message starts an exclusive worker,
  which cancels a manual compaction, a resume or a branch under way
  (`tui/app.py:4165-4181`); items that arrive while the reader is elsewhere, or
  a rebuild under a streaming message, leave rows that the next refresh puts
  right (`TranscriptWindow!stale`).


## 10. Proofs

Every theorem is about all values of the constants that the named assumptions
allow: any number of processes, tasks, prompts, widgets, messages, entries,
calls and turns. The bounds that the runs need (`MaxLog`, `MaxMessages`,
`MaxTokens` and so on) are constants, so a proof covers every one of them. What
the assumptions ask is that the sets are of the right kind, that `None` is none
of the values it stands beside, and what the code has it (that prompts and
compactions are different things, that a custom provider has no built-in
one's name). The theorems that ask for more say so below.

### The harness

`AgentHarnessProofs`, under `ConstantsAssumption`:

| theorem | says |
|---|---|
| `InvariantHolds` | `Spec => []IInv` |
| `TypeCorrect` | `Spec => []TypeOK` |
| `CallsAlwaysAnswered` | `FreshCallIds => (Spec => []ToolCallsAnswered)` |
| `CancelAlwaysSettles` | `FreshCallIds => (Spec => CancelSettlesCalls)` |
| `ResultsAreUnique` | `FreshCallIds => (Spec => []OneResultPerCall)` |
| `Implementation` | `Spec => ImplementsProtocol`, with fresh ids or without: an id in the transcript is answered before the next request, if only by an older result |
| `QueuesKeepOrder` | `Spec => []QueueOrderKept`, for both queue modes |
| `StopsWithNothingQueued` | `Spec => NoStopWhileQueued` |

`FreshCallIds` cannot be dropped: `harness_positional_ids` is the
counterexample.

**The invariant.** `TypeOK` and `ToolCallsAnswered` are not inductive. When
the last tool of a batch returns, nothing in them says that its result is the
only one missing; when a reply is kept, nothing says that no result of its ids
is already there. `IInv` adds:

* all ids in the transcript, in the pending reply and in the batch are at most
  `issued`, so a new reply's ids are new;
* with fresh ids, every result follows the call of its id (`ResultsFollow`) and
  every assistant message is preceded by the results of all earlier calls
  (`Ordered`), which is `ToolCallsAnswered` stated for the transcript alone;
* a kept-back reply (`assistantEnd`) has no result yet;
* outside a batch a run owes nothing (`Settled`); in a batch it owes at most
  the calls in `todo`.

`ResultsAreUnique` adds `OnceInv`: a batch has no id twice and no call in it is
already answered. `QueuesKeepOrder` has an invariant of its own, `OrderInv`:
what came through one queue stands in one line, first in the transcript, then
in `pending`, then in the queue, with rising ids; so draining, withdrawing and
injecting only move the places where the line is cut.

**The argument.** Lemmas say what appending a user message, a reply or a result
does to `Called`, `Returned`, `Ordered` and `ResultsFollow` (`AppendUser`,
`AppendAssistant`, `AppendResult`); that the repair exists, appends results
only, and answers everything (`RepairFacts`, `RepairTranscript`); and that a
contiguous piece of a good transcript that does not lose a call in front of a
kept result is good (`Slice`, used for branches and compactions). The step
lemma has one case per action. The refinement maps each action to one action
of the protocol or to a stutter; the case that needs the invariant is
`LeaveToolEnd`: the result it appends must be owed, or the call already
answered.

### The session and its log

`CodingSessionProofs`, under `SessionAssumption`:

| theorem | says |
|---|---|
| `TypeCorrect` | `Spec => []TypeOK`, of `CodingSession` |
| `LeafIsAlwaysLive` | `Spec => []LeafIsLive` |
| `DurableIsAlwaysLive` | `Spec => []DurableIsLive` |
| `IdleIsAlwaysDurable` | `UntornSpec => []IdleIsDurable` |
| `IdleIsAlwaysExact` | `UntornSpec => []IdleIsExact` |
| `BranchIsAlwaysCovered` | `UntornSpec => SummaryCoversBranch` |
| `LoadIsAlwaysRepaired` | `FreshCallIds => (Spec => LoadIsRepaired)` |

`FreshCallIds` cannot be dropped: a call whose id was used and answered before
has no result of its own, and a load does not see that it lacks one. `UntornSpec` is the specification of `session_durable`: `Spec` without
teardown. Section 9 says what the code does to `IdleIsDurable` under teardown.

**Recursion.** The rows of an entry, the path to it and the messages of a log
are recursive functions over entries. A recursive function is a `CHOOSE`; its
equations hold only once a function that satisfies them is shown to exist. The
library's theorems on recursion cannot be used here, because they quantify over
operators, so `LeastOne` takes a least number from a set that is not empty
(from `WFMin`) and `Recursion` builds the function from it: if there were
entries up to which there is no such function, there would be a first one. For
the same reason a fact about all rows is proved by looking at the first row
without it (`UpTo`).

**The invariants.** Where a session writes and what it has written is not
inductive by itself: a log must be one that can be replayed at all.

* `IInv`: the log is a tree, every entry below an earlier one and every leaf
  entry below the one it points to, with the place to write in it
  (`Placed`); that place is the leaf a load takes; the messages replayed there
  are in the transcript. A branch that waits for a summary goes on from an
  entry of the log (`Waits`), and a message's end is with the listeners only
  during a run (`Heard`).
* `TInv` adds that a run of the session is a run of the harness, and that a
  plan names entries there are, whatever is appended while it waits.
* `WInv` counts: outside a run all messages are written, in a run the first
  `persisted`. `Covered` says that these are among the replayed; `Exactly`, that
  they are the replayed, in order, unless a terminal command wrote in between.
* `BInv` adds what a branch that waits accounts for. When it begins, all the live
  branch replays to is in the rows of the entry it goes back to, in what its
  summary is asked about, or a summary (`LeftBehind`). Meanwhile a compaction
  adds a summary (`CompactionAddsSummary`) and a command its output
  (`CommandAddsOutput`), and nothing else adds to that branch: a prompt cancels
  the branch, and another branch overtakes it. `CancelsBranch` is why: without it
  a prompt's messages would be on the live branch and in no account.
* `CInv` says that calls are new: no message names the id of a call before the
  message that makes it, neither in the transcript (`CallsAreNew`) nor on the
  path to any entry of the log (`CallsAreNewIn`); a call that is not written yet
  is named nowhere in the log; and every id named was issued (`Known`). A log
  keeps branches beside the active one, and a user may go back to any of them,
  so the transcript alone would not do.

**The argument.** Appending entries keeps the rows of every older entry, and
the rows of a new one are its parent's with what its type does to them
(`Keeps`, `Placed`); the steps of the harness only extend the transcript,
except where the session itself replaces it; and each action of the session is
one of these with the other. A compaction or a branch replays the log and gives
the harness what came out, which is why its transcript is then equal to the
rows whatever it was before.

A transcript's order is a relation between its earlier and its later messages
(`Pairwise`), which picking, cutting, joining and flattening keep (`AmongPairs`,
`PartPairs`, `ConcatPairs`, `FlattenPairs`), and a compaction too, since a
summary names no call. The rows of a path stand in the order of their entries,
each among the rows of the later one's parent (`RowsInOrder`, `Replays`). That
is what a repair needs: the rows up to the first one with an interrupted call
are replayed below that row's entry as they were (`RowsUpTo`), but for a summary
whose entry is further down; the others are written again behind it
(`SuffixFacts`, `RepairWritten`); and a chain written below an entry replays to
that entry's rows and the chain (`LinkedPath`). An answer in the result cannot
stand before its call, as calls are new (`AnswerIsLater`), so it is enough that
there is one: the result that was there, or a synthetic one, written where the
call was made first (`FirstCall`, `NeedsRepair`, `LoadAnswers`).

### The files of a user

`UserFilesProofs`, under `PartsAssumption`:

| theorem | says | of |
|---|---|---|
| `LedgerIsKept` | `Spec => ImplementsLedger` | `TrustStore` |
| `AlwaysReservedOnce` | `Spec => []ReservedOnce` | `SessionIndex` |
| `AlwaysSpentOnce` | `Spec => []SpentOnce` | `Credentials` |
| `LoginAlwaysItsOwn` | `Spec => []LoginIsItsOwn` | `OAuthLogin` |
| `DefinitionsAlwaysSurvive` | `Spec => []DefinitionsSurvive` | `ProviderFiles` |
| `ChoicesAlwaysSurvive` | `Spec => []ChoicesSurvive` | `CatalogOverlay` |
| `LoginsAlwaysHold` | `Spec => []LoginsHold` | `ProviderLogin` |

`TrustStoreProofs` has `StoreInvariant`, `StoreTypeCorrect` and
`StoreImplementsLedger`, and `CredentialsProofs` has `AlwaysSpentOnce`, for the
modules by themselves.

`AlwaysSpentOnce` is about the tasks of one process (`UserFiles` instantiates
`Credentials` with `TheProcess`; `OneProcess` in `CredentialsProofs`). That
cannot be dropped: the lock of `provider_runtime.py` is an `asyncio.Lock`, and
two processes may present one token.

**The invariants.**

* *Trust store.* What a reader sees is decided by two entries, and a power
  failure may leave older contents of either. `IInv` says that any pair the
  disk may hold is refused or reads as the ledger (`DiskIsSafe`); that exactly
  the process inside the lock holds it (`Locked`); and, for each stage of an
  update, how data, journal and ledger are related (`Progress`): before the
  data is replaced, the journal is durable and holds the ledger's decisions;
  after it, the data holds the new ones and both are durable, so that removing
  the journal is the commit. The ledger is *open* while a reader could succeed
  or an update is past its first look. Each action is then a commit, an
  opening, a closing or a stutter of `TrustLedger`.
* *Session index.* `ReservedOnce` speaks of owners, but the file exists before
  its owner is told. `IndexInv` gives the process in between a *claim*: claims
  are disjoint from each other, from the owners and from transcripts that were
  there before, and only a claim is ever rolled back.
* *Credentials.* The lock is held exactly from the second look at the file to
  the end of the save, only issued tokens are anywhere, and the credential in
  the file (or about to be written to it) is *sound*: its token was not
  presented, was presented in vain, or is being presented now. The one exception
  is the time between the answer and the save, in which the lock is held.
* *Login.* What the server's thread has posted is this flow's as long as the
  future is open, and a flow that is over has neither a server nor an open
  future; a poll of a device code is due one interval after the last one.
* *Provider files.* Until a setup overlaps with another process, what every
  process has read or holds covers what the next file it replaces would lose
  (`Safekept`): a migration holds all definitions, a setup is alone.
* *Catalog.* The default an entry names is one of its models, and the saved
  preference is the choice made last; the rest follows from what an overlay
  does to any release whose definition is valid.
* *Provider logins.* The key screens are of built-in providers, and a custom
  provider's key was stored after its definition.

### What a session is put together from

`SessionPartsProofs`, under `PartsAssumption`:

| theorem | says | of |
|---|---|---|
| `ClientIsAlwaysShown` | `Spec => []ClientIsShown` | `ModelChoice` |
| `PromptIsAlwaysCurrent` | `Spec => []PromptIsCurrent` | `Resources` |
| `ProjectIsAlwaysApproved` | `Spec => []ProjectIsApproved` | `Resources` |
| `SwapIsAlwaysSafe` | `OneTask => (Spec => []SwapIsSafe)` | `SessionSwap` |
| `AnchorIsAlwaysCurrent` | `Spec => []AnchorIsCurrent` | `ContextBudget` |
| `ToolAlwaysPassed` | `Spec => []ToolRunsOnlyIfPassed` | `ExtensionRegistry` |

`OneTask` says that replacements do not overlap. The code does not see to it
(section 9), and two that overlap do leave two runtimes that hear the session.

**The invariants.** `ClientIsShown` is inductive. For the prompt, two lemmas
carry the proof: what the loaders read is what the detector finds
(`LoadersAreDetected`), and resources with equal signatures give equal prompts
(`SignatureDecides`). `SwapInv` says of the runtime of the operation in
progress what each stage has established (`Replacing`): it is active and
unheard until it is published, and by then the one it replaces was told; and of
the decision about to be used that it was not made for an empty directory that
has filled since (`Decisions`). `BudgetInv` says that rows are stamped in the
order they were made, but for summaries, which are stamped anew; and that a
reply not older than anything before it was made of exactly what is before it.
It says so of the rows a branch may return to as well. A summary is stamped
later than the replies that are kept behind it, and that is what makes their
usage unusable. `RegistryInv` says that only loaded extensions have hooks, that no
setup runs once the tools are composed, and that of the extensions whose turn
in a call is over every one that was due was asked.

### Tools and the interface

| theorem | says | of |
|---|---|---|
| `CallIsAlwaysOver` (`ToolsAndStreamsProofs`) | `Spec => []CallIsOver` | `BashCommand` |
| `PagesAlwaysCoverFile` (`ToolsAndStreamsProofs`) | `Spec => []PagesCoverFile` | `TextWindow` |
| `StreamIsAlwaysFaithful` (`ToolsAndStreamsProofs`) | `Spec => []StreamIsFaithful` | `ProviderStream` over `CanonicalStream` |
| `HistoryIsAlwaysPortable` (`ToolsAndStreamsProofs`) | `Spec => []HistoryIsPortable` | `WireHistory` |
| `EditIsAlwaysMeant` (`ToolsAndStreamsProofs`) | `Spec => EditIsMeant` | `EditTool` |
| `RunsAlwaysKeptApart` (`InterfaceProofs`) | `Spec => []RunsKeptApart` | `PromptWorkers` |
| `PlacesAlwaysSettle` (`InterfaceProofs`) | `Spec => []PlacesSettle` | `ComponentSlots` |
| `LiveIsAlwaysReloaded` (`InterfaceProofs`) | `Spec => []LiveIsReloaded` | `TranscriptItems` |
| `WindowIsAlwaysMounted` (`InterfaceProofs`) | `Spec => []WindowIsMounted` | `TranscriptWindow` |

*bash.* A group that was killed is empty, and stays so because only its own
members could add to it.

*Pages.* `PagesInv`: what was shown is the lines `1 .. k`, and the next offset
is `k + 1` until the end, where `k` is the last line. The lemmas say what the
loops of the two truncations return: the lines they take are a part of the text,
their bytes are a difference of two totals, and a loop that stopped early
stopped at a limit (`TakenSteps`, `HeadKeepsLimits`, `TailIsLongest`). It needs
positive limits, which the `read` tool asks for (`tools.py`), and `None` to be
no number.

*Streams.* `StreamInv` says of a request under way that the stream's events make
a well-formed prefix (`Sound`), and that the blocks hold exactly what the chunks
of this attempt said (`Held`): per kind the pieces that were sent, in order, per
tool its arguments in the parser, for Codex a call block for each tool that has
ended. As long as an attempt may be made again (`~parser.content`), the blocks
hold only thinking of the Codex adapter, which is why nothing else comes twice.
A message that is done is then `Whole`, since the calls that `finalize` yields
follow in the order of the builders. Assumed is that a provider is one of the
six adapters.

*Histories.* `HistoryInv`: a call is named for its message and place; a result
follows the message of its call with only results between, and is the only one
of that call; nothing but results comes until every call has one. A request is
`Laid` out of its messages, one after the other: each is `Written` as its role
has it (an answer first and alone, calls last among what they follow), and only
images that waited trail. The properties are then shown of the messages and not
of each provider's form. Assumed is that shapes are of text, thinking and calls,
that `OldGemini` is Boolean and that the providers are the six adapters; the
theorem covers `OldGemini = FALSE` too, which the run does not.

*Edits.* `EditInv` is the types; the step that applies an edit is what takes the
proof. Two facts about line ends: a text without carriage returns is normalized
already (`PlainIsNormal`), and with either ending restored it is normalized to
what it was (`RestoredIsNormal`). A text that is counted once is somewhere
(`CountedStands`), so the spans fit into the text (`FoundFits`). Then, going
from the last place to the first, the text is at each place what the spans
behind it make of it part by part (`After`): to replace a piece of a text is to
replace the parts it is made of (`SwapPuts`), and since spans do not overlap,
what stands before the end of a span is still as it was when its turn comes
(`OneMoreReplaced`). `EditAssumption` is that texts are sequences of strings.

*Workers.* `WorkerInv`: one prompt's worker is not dying, it has the run id
until the next prompt takes it, and a cancelled worker has lost it; a live compaction has the worker slot, the session has no turn,
and every prompt still running is dying; what is queued is queued once; and a
prompt the harness has not taken is shown only as an optimistic item, which is
what `ShownOnce` needs when the item is taken over. *Places.* `SlotInv`: what
is visible is what the host mounted, apart from crashed widgets; and while a
removal is awaited, what is mounted is the widget that goes, or nothing.

*Items.* `ItemsInv`: the types; what the adapter keeps while a run is under way
(`RunInv`: the calls that wait for a result are those of the message, the
buffer's blocks stand at the end); and, unless a terminal command misplaced one
by ending during a run, that its item is found where it was put and that the
items are those a reload of the messages gives, followed by what is provisional
(`ShownInv`). The lemmas about `Among` and the loaded items go message by
message. Assumed is that blocks are text, thinking or calls.

*Window.* `WindowInv`: the types; a message follows an item that is not thinking
and until it ends brings one item at most, its thinking (`SpeechInv`); between
messages the rows are those of a stretch of the items, at most a window and the
overscan, or of one item more, the text that just streamed, of which the window
does not know (`SettledInv`); while a message streams, the rows it found are
still there and its own, all active, come after them, unless the window ends
before it (`LiveInv`). A stretch that is cut behind an item that is not thinking
is its two parts (`StretchJoins`): that is why blocks may be mounted apart from
what was there. That toggling mounts the thinking rows where they belong
(`RemountedIs`) goes item by item: the other rows are found one after the other,
and what waits is the thinking since the last of them. `WindowAssumption` is
what is assumed: a window of one item or more, a page of at most a window.

### What the proofs changed

`TextWindow`, `EditTool`, `TranscriptItems`, `TranscriptWindow`,
`CanonicalStream`, `ProviderStream` and `WireHistory` folded and selected with
library operators of which the provers know nothing; they are recursive
functions now, or `FlattenSeq`, and state what they assume of their constants.
Hiding and showing thinking is the code's loop now
(`TranscriptWindow!Replaced`), where it was a description of its result.
`TextWindow!Taken` says that no limit stopped it instead of leaving that open.
`PromptWorkers` took a worker for active until another one replaced it; in the
code a worker that has unwound is finished (`Live`, `Active`).
`SessionLog!Among` is a recursive function, where a library operator gave the
provers nothing to go by. And `CodingSession` states what it assumes of its
constants.

### Only model-checked

* Liveness (`RunEnds`, `PromptSettles`, `AsksSettle`, `CallEnds`, `StreamEnds`):
  the prover does not reason about `ENABLED`. Every invariant and every action
  property that a run checks has a theorem; the runs show it on small instances
  and, with the mutants, that the code could break it.

## 11. Not modelled

* Text, usage, partial updates, attachments, images; the events' payloads.
* JSON and TOML syntax, migration of old messages, label entries.
* The text of summaries (their effect on the context's size is in
  `ContextBudget`).
* `subscribe` and `unsubscribe`: which listeners there are does not change what
  a run does; that a listener may raise is `Close`.
* Duplicate entry ids and cycles in a log: ids are uuids. Storage that fails
  half way, and a torn last line, on which every load raises.
* Auto-naming. Hook chains other than the tool call's. Import of extensions.
* PKCE, URLs and token parsing; the providers' own OAuth endpoints beyond the
  two flows.
* The `write`, `ls`, `find` and `grep` tools apart from truncation; images;
  the discovery of a shell.
* Drawing: how items, rows and status bars look; completion, key bindings,
  pickers and settings screens; rendering of print mode.
* Argument parsing (`cli.py`) and the dispatch of slash commands
  (`commands.py`): no state of their own. Exports, usage reports and statistics:
  functions of a log. Update checks and package installation: external
  processes.
