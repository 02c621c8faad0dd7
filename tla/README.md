# Torvaix: specifications, model checks and proofs

Torvaix is a local AI workspace: a web app, an agent server (Express, one Node process) with SQLite
behind it, a tool server (MCP) that runs commands, and the optional services Ollama, Qdrant and a
Python process. This directory specifies in TLA+ the parts of it that keep state across requests,
callbacks or pages and whose mistakes are mistakes of order: who may run a command, who is running
what, what is written last, which of two answers is shown. TLC checks the specifications on small
instances, and TLAPS proves every safety property the runs check, and a refinement, for every size.
Paths in this file are relative to the repository's root.

- [The system](#the-system): components, state, operations, interactions
- [What is modelled](#what-is-modelled): module by module, against the code
- [Runs](#runs): what TLC checks, with which bounds, and what it shows
- [Proofs](#proofs): what TLAPS proves, from what and how
- [Findings](#findings): where the code and its own words disagree, and what else was noticed
- [Plan](#plan): what comes next, and what stays out

To repeat a check: `tlc -workers 2 -config MCAgentRunsRaces.cfg MCAgentRuns.tla`, and
`tlapm AgentRunsProofs.tla`. PROJECT.json lists every run with its properties, the source lines of
every definition, and for every property a bug in a definition that makes TLC refute it.

## The system

The agent server is one Node process. Everything in it runs one callback at a time, so code between
two `await`s cannot be interrupted by other requests, but by a crash it can, between any two SQL
statements. Races are between requests suspended at an `await`: on the model, on a tool, on Qdrant, on
a password's hash. SQLite survives a crash; sets and promises in memory do not. The tool server is
a Node process of its own, started by the agent server and connected by pipes. A browser tab is a third
kind: its handlers and effects run one at a time, too, and interleave at `fetch` and at the pieces of a
streamed reply, while the user clicks on.

| Component | State | Operations | Correct when |
|---|---|---|---|
| **Agent runs and approvals** (`packages/agent/src/agent-runs.ts`, `orchestrator.ts`, `server.ts`; tables in `packages/memory/src/index.ts`) | tables `pending_actions`, `agent_runs`, `agents`; the `active` set in memory; each request's orchestrator | start and resume a run, chat, task, approve, deny, abort, edit and delete an agent | a command starts once and only after a yes; runs wait for their own command; `active` is exact; closed runs stay closed; runs end |
| **Approval policy** (`approval-policy.ts`) | none | is this call safe in this mode? | the default mode asks for every command |
| **Automation engine** (`packages/events/src/engine.ts`) | tables `automations`, `automation_logs`; `inFlight` in memory; each event handler's list | 30-second tick, event handlers, "run now", edit, delete | nothing guarded runs twice at once or gets stuck; counts agree with the log; what is due runs, once; the engine comes to rest |
| **Memory store** (`packages/memory/src/index.ts`) | table `memories`; vectors in Qdrant; cached availability; `backfillRunning` | store, update, delete, query, backfill | the vector is that of the row's text; what is missing is indexed later |
| **Agent loop: routing, prompts, nodes** (`orchestrator.ts`, `routing.ts`) | the iteration's state | pick a node, ask the model, run a tool | bounded; asks before it runs; answers once |
| **Agent tools catalogue** (`agent-tools.ts`) | none | names of the tools an agent may use | a persona calls its own tools only |
| **MCP client** (`packages/mcp/src/client.ts`) | client, transport, `connecting`, the cache of managers | connect, call a tool, close | one connection at a time; a call starts at most once; what it reports is true |
| **Tool server** (`packages/mcp/src/index.ts`, `run-process.ts`, `workspace-path.ts`) | child processes, a temporary script | run a tool with a timeout | every process settles once; a timed-out command was stopped |
| **Companion pairing** and accounts (`server.ts`, `packages/memory/src/index.ts`) | tables of users, tokens and devices | register, log in, pair, refresh, revoke | a token pairs once; a session is one device's; nobody is locked out by others |
| **Settings and keys** (`settings.ts`, `components/settings`) | memory, file, model client, the panel | read, save, remove, choose a model | the copies agree, also after a failed write |
| **Model providers** (`packages/providers/src/index.ts`) | the tag in use; a stream's filter | pick a model, complete, stream, stop | the reasoning in a stream stays hidden; a reply is given once |
| **Web pages** (`apps/web/src/app/(workspace)`, `components/agents`, `components/chat`) | rows and requests of the page, chats in the browser's store | load, change, switch workspace; send, stop, retry, approve; run an agent | a page shows its workspace's rows as the server has them; what the user wrote is kept; decisions are shown as taken, and carried on |
| **Web app: stores and proxies** (`apps/web/src/store`, `app/api`) | IndexedDB | workspaces, chats, proxies | chats as above |
| **Knowledge graph** (`packages/graph/src`) | tables of nodes and edges | ingest, query | degrees count the edges |
| **Memory consolidation** (`packages/intelligence/src`) | none | cluster, summarise | (numbers and text) |
| **Hybrid router** (`packages/router/src`) | none | classify a message | (text) |
| **HTTP API** (`server.ts`, `http-security.ts`, `validation.ts`) | rate limits, tokens | routes | its state-changing routes are actions of the modules |
| **Python service** (`services/python-agent`) | none | text analysis | (text) |

How they interact. The web app calls the agent server's routes, through proxies that pass a browser's
abort on. Every chat, task, run and automation creates an orchestrator that asks a model, calls tools
through the MCP client and writes to the memory store. Approvals tie a request that has ended to a later
one through a row of `pending_actions`; the card in a chat, the dialog of an agent and the Tasks page
all decide the same rows. Runs and memories emit events on one in-process emitter; the automation
engine's handlers start workflows on them, whose actions are again agent tasks that can store memories.
The status page and every search ask the memory store whether Qdrant is there, and that question starts
the backfill; the same status page asks Ollama what is installed, and that answer sets the model in use.

What is hard here: several pages acting on one approval; a run that is aborted, edited or deleted
while a model answers; a crash between a claim and its command; an in-memory set that must be left on
every path; counts read before an `await` and written after it; automations that feed on their own
events; two stores without a transaction; a connection that ends late; a timer, an error and an exit
that race; a tag that is split between two pieces of a stream; loads that overtake each other; a page
or a dialog that is left while its requests are out. The full list, at its lines, is under `hazards` in
PROJECT.json, with the property that covers each one or the reason why none does.

## What is modelled

| Module | What it is | Checked by | Proved in |
|---|---|---|---|
| `ApprovalContract` | what the server promises about a proposed command, and nothing else | as `KeepsContract` in `AgentRuns` | `AgentRunsProofs` |
| `AgentRuns` | runs, approvals, chats, tasks and the loop they share | `MCAgentRuns` (2 runs) | `AgentRunsProofs` |
| `AutomationEngine` | scheduler, event handlers, "run now" | `MCAutomationEngine` | `AutomationEngineProofs` |
| `MemoryIndex` | rows in SQLite, vectors in Qdrant, the backfill | `MCMemoryIndex` | `AnswerProofs` |
| `CallContract` | what the agent may rely on when it calls a tool, and nothing else | as `KeepsCallContract` in `ToolServer` | `ToolServerProofs` |
| `ToolServer` | MCP client, tool server and its processes | `MCToolServer` | `ToolServerProofs` |
| `ModelReply` | one answer of the model, from the choice of the model to the text on the screen | `MCModelReply` | `AnswerProofs` |
| `Settings` | keys and the chosen model: memory, file, model client, panel | `MCSettings` | `AccountProofs` |
| `Access` | accounts; companion devices, their pairing and sessions | `MCAccess` (2 runs) | `AccountProofs` |
| `ChatPage` | the chat page of one browser tab with its store | `MCChatPage` | `ChatPageProofs` |
| `WorkspacePages` | the Automations, Tasks, Knowledge and Agents pages | `MCWorkspacePages` | `WorkspacePagesProofs` |
| `RunDialog` | the dialog that runs an agent, its approval card and its history | `MCRunDialog` | `RunDialogProofs` |

`AgentRuns` is shown to implement `ApprovalContract`, `ToolServer` to implement `CallContract`. The
other components touch it only through requests that start and end, so they have state machines of
their own, in which the neighbour is what it looks like from there: an automation's action is one
suspended call in `AutomationEngine`, and the same action as an agent task is a worker of `AgentRuns`
(`StartPlain`, `StartRun` without a signal); a tool call is the phase `calling` of a worker, and a call
of `ToolServer` in full. `ChatPage` and `RunDialog` hold the server's part of what they ask for (the
rows of approvals and runs) in the shape `AgentRuns` gives them, so that page and server are composed
where the hazard is between the two.

A proof module extends the modules it is about. `AccountProofs` and `AnswerProofs` are about two each,
so `Access` and `ModelReply` call their state and their formulas by names that `Settings` and
`MemoryIndex` do not have: `AccessSpec`, `failures` and `None`; `ReplySpec`, `mishaps` and `NoAnswer`.

In all modules one action is the code between two `await`s, all of it, and is named for the function,
the route, the handler or the statement it stands for. A definition whose comment begins with "Bug:" or
"A plausible bug:", and one that no action uses (`KeepNothing`, `NotLooked` and their like), is not part
of a specification: these are the mistakes against which the properties are tried.

### AgentRuns

| Code | Model |
|---|---|
| a row of `pending_actions` (`status`, `workspaceId`, the stored call) | `actions[p]`; of the stored call only the tool's name |
| a row of `agent_runs` | `runs[r]`; of `output` only which kind of text it is |
| a row of `agents` | `agents[g]`: workspace and tools |
| `active` (agent-runs.ts) | `active` |
| a request inside `AgentOrchestrator.run`, its state and its abort signal | `workers[w]`: `routing` and `thinking` while the model answers, `calling` while a tool runs |
| `startRun`, `resumeRun`, `execute` | `StartRun`, `CreateAgentRun`; `ResumeRun`, `ResumeRefused`, `ResumeSettled`; `SaveRun` |
| chat and task routes | `StartPlain`, `ChatResume`, `TaskResume` |
| `consumeApprovedAction` and the call it permits | `ClaimAndCall` |
| the loop of the orchestrator and its nodes | `Route`, `Answer`, `ScanRepo`; of `nodeExecution` `CallTool`, `ProposeAction`, `ToolReturns`, `Retry`, `Finish`, `LoopBack` |
| `/api/agent/approve` and `settleDecision` | `Approve`, `Reject` |
| agents page | `CreateAgent`, `UpdateAgent`, `DeleteAgent` |
| client gone | `Abort` |
| process ends | `Crash`; between two statements `CrashAfterClaim`, `CrashAfterReject`, `CrashAfterPropose` |

`decision`, `started` and `startedBy` are history: no guard reads them. They say what the user answered
and what was really handed to a tool, so that the tables can be compared with it.

Choices a reader of the code may ask about:

- Runs start in `nodeExecution`; a chat or a task is routed by its first iteration, unless it names an
  action that can't be claimed. The scan of a repository (`ScanRepo`) calls its tool in the iteration
  after the one that routed it, without asking the model; its end is a `ToolReturns`.
- The claim is reached with no `await` after the request began, so an abort cannot come before it; the
  branch that leaves an action unclaimed when aborted has no step of its own.
- A model's answer may arrive although the client has gone, and the signal is not looked at before the
  row of a proposed command is created: `ProposeAction` has no guard on it, `SaveRun` then cancels the run.
- No statement deletes a row of `pending_actions`, so the answer for a missing one is unreachable.
- Requests that are refused (404, 409, not yet decided) change nothing and are stutters.
- Which calls `auto` mode runs unasked is decided from their arguments: both outcomes are possible.
- `LogWriteFails`: `logExecution` is outside the `try` around the tool. When it throws after a claimed
  command, the state still names that action and the run is saved as waiting for it.
- Ids are not used again (they are UUIDs).
- Left out: history and texts of a run, durations, the limit on agents per workspace, announcements.

### AutomationEngine

| Code | Model |
|---|---|
| a row of `automations` | `automations[w]`: whether it is there, active, its trigger, `runCount`, and `due` for what `isWorkflowDue` computes from the configuration and `lastRunAt` |
| rows of `automation_logs` | `logged[w]`, how many |
| `inFlight` | `inFlight` |
| runs in progress: of the scheduler, of a handler, of `/trigger` | `calls[c]`, the scheduler's named after the workflow |
| `checkScheduledWorkflows` | `CheckScheduledWorkflows`: the whole tick; runs are started and not awaited |
| `handleEventTrigger` | `HandleEventTrigger` (the list), `Continue` (its loop up to the next run), `End` (`finally`, and the `catch` that leaves the loop) |
| `executeWorkflow` | `Running` and `FinishWorkflow`, with the count that was read before the action |
| routes of the automations page | `CreateAutomation`, `UpdateAutomation`, `DeleteAutomation`, `TriggerNow` |
| an agent task that stores a memory | `StoresMemory`: `MEMORY_CREATED`, handled like a user's event |

Time is `BecomesDue`; which event a filter lets through and the order of the list are free. A workflow's
deletion removes its logs and then its row, in one callback, modelled as one step. The log row of a run
still in progress then violates the foreign key: `FinishWorkflow` records nothing and a handler drops
the rest of its list. Counts stop at `MaxCount` (both sides alike), which keeps the instance finite
without stopping the engine.

### MemoryIndex

| Code | Model |
|---|---|
| a row of `memories` | `rows[m]`, its text |
| a point in Qdrant with its `embedModel` tag | `points[m]`, the text the vector was made from and the model |
| `collectionVectorSize` | `collection`: the models whose vectors have that size |
| `qdrantAvailable`, `qdrantCheckedAt` | `available`, `fresh` |
| `backfillRunning` and the loop's variables | `backfill` |
| `storeMemory`, `updateMemory`, `deleteMemory`, `queryMemory` | `StoreMemory`, `UpdateMemory`, `DeleteMemory`, `Query`; then `CheckReturns`, `EmbedReturns`, `Upsert`, `RemovePoint`, `SaveRow` |
| `backfillVectors` | `StartBackfill`, `BackfillRetrieve`, `BackfillEmbed`, `BackfillWrite` |
| Qdrant, Ollama, OpenAI | `up`, `embedder`; an answer that is lost after the write is `UpsertAnswerLost` |

The requests of one availability check are one step, and the cached check for Ollama is part of what
`embedder` answers. A memory's id is new; since ids do not matter, one that nobody knows stands for all
unused ones. `excused` is history: the memories about which the code has stopped making sense on its
own, see `IndexFollows` below.

### ToolServer

| Code | Model |
|---|---|
| `_instances`, `getMcpClient` | `instance`, `getMcpClient` |
| `McpClientManager`: `client`, `transport`, `connecting`, `_connected` | `managers[m]` |
| a connection of the SDK and the process behind it | `conns[k]` (external: what the code relies on) |
| `callTool`, `connect`, its waiters, `_doConnect` | `callTool`, `StopPolling`, `Connect` (the old connection is closed first: `CleanedUp`), `Handshake`, `Connected`, `ConnectFails` |
| `onclose` and the `catch` of a call that was sent | `ConnectionCloses`, `Onclose`, `AfterClose`; its causes `Stops`, `Dies` |
| the tool server's request handler | `Start`, `ReadFile`, `Search`, `Respond` |
| `runProcess`: spawn, `error`, `exit`/`close`, the timer, `killTree`, the grace period | `SpawnFails`, `ShellExits`, `ChildExits`, `Forks`, `TimesOut`, `KillTree`, `Ended`, `Finish` |
| the temporary script of `python` and its `finally` | `scripts`, `RemoveScript` |
| the SDK's request timeout | `RequestTimesOut` |
| signal handler of the agent server, `closeAllMcpClients` | `closeAllMcpClients`, `CloseGivesUp`; what is waited for is in `shutdown` |

What a tool computes is left out. A command may start one process, in a group of its own or not, on the
command's pipes or not, since `close` and the signal to the group tell these apart. `Posix` says whether
there are such groups: on Windows, which the tool server supports (`index.ts:192`), `killTree` ends the
shell and nothing else. A call that finds an old
connection waits for its process to end or for `close()` to give up (phase `cleaning`); once the agent
server stops, a manager whose `close()` gave up has forgotten a connection that still works.
`reconnect()`, which nothing calls, and `resetMcpClient()`, which only tests call, have no action;
`workspace-path.ts` is not modelled.

### ModelReply

| Code | Model |
|---|---|
| `pickInstalledModel`, `matchInstalledTag`, `autoModel`, the status route's probe of Ollama | `pickInstalledModel`, `matchInstalledTag`, `tag`, `probeOllama`, `Probed` |
| `newOrchestrator`: the model of a request is that of its orchestrator | `newOrchestrator`, `model`; the phase `recalling` until the request is sent |
| `_fetchWithTimeout`, its timer and the caller's signal | `TimesOut`, `Stop`, `GivenUp`, `Reason`, `Accepted` (the timer is cleared with the headers) |
| the adapters, `complete` and `stream`, and their errors | `Piece`, `Ends`, `Breaks`, `Stopped`, `NotInstalled`, `Refused`, `Unreachable` |
| `stripThinking`, `thinkingFilter` | `stripThinking`, `Push` with `filter` |
| `nodeConversation`, `nodeMemory` | `Recall`, `RecallFails`, `Node` with `streamed`, `output` |
| `POST /api/agent/run` and the chat it writes to | `Route`, `chat` |

A text is a sequence of letters: a blank, a word, and the two halves of each tag, so that a tag may be
cut between two pieces. `told` and `applied` are history: how the call ended, and the list that the
request's model was picked from. `Recall` and `Accepted` forget what no longer matters, to keep
the instance small.

### Settings

| Code | Model |
|---|---|
| `SettingsStore.data`, `settings.json`, the keys of the model client, `.env` | `data`, `file`, `apiKeys`, `env` |
| `setApiKey`, `removeApiKey`, `setModel` with their routes | the actions of these names: memory, then file, then client; a write fails before or after the rename |
| the DELETE route's second write (no key for the chosen model) | `Automatic`; a stop between the two writes is `CutOff` |
| `GET /api/settings`, the test of a model | `Loaded`, `Test`; `settingsPayload` |
| `model-settings.tsx` and the keys' panel | `Open`, `Close`, `Offered`, `Click`, `Arrive` (which answers are taken) |
| another tab; the server's start | `Elsewhere`; `Restart` |

A model stands for its provider. `behind` (the settings changed and no answer since then was shown) and
`torn` (the last change of a key was not saved whole) are history.

### Access

| Code | Model |
|---|---|
| `users`, workspaces of accounts | `users`, `homes` |
| register: the check, the `await` on bcrypt, the insert, the workspace | `Register`, `hashing`, `Registered` (`CreateUser`, `CreateWorkspace`) |
| log in, `/me` | `LogsIn`, `Me` |
| `companion_tokens`, `companion_devices` | `tokens`, `devices` |
| `createPairingToken`, `claimPairingToken`, `createDeviceSession`, `validateSession`, `revokeDevice` | the actions and operators named after them; `RefreshSession` is the route that validates and issues |
| expiry | `TokenExpires`, `SessionExpires` |

`told` and `held` are history: who was answered 201, and which session each device was told. Passwords,
hashes and the texts of tokens are abstracted: a form stands for its email, name and password.

### ChatPage

| Code | Model |
|---|---|
| the chats of `db-store.ts` | `recent`, `saved`, `agentOf`, `active`; operators named after the store's functions |
| the store's limit of messages in a chat, 200 | `MaxStored`, `toStoredMessages` |
| `lastSaved`: the signature of what the mounted session gave the store last | `lastSaved`, the messages themselves |
| what `useChat` keeps for a chat (external) | `cache` |
| the mounted session, its `abortControllerRef`, its list of agents | `view`, `handle`, `list` |
| the two effects that save messages, the clean-up of a session | `Persist`, `KeepWhatArrived`, `Switch` |
| send, regenerate, retry, stop; the reply's stream | `Send`, `Regenerate`, `Retry`, `Stop`; `ReplyPiece`, `ReplyEnds`, `ReplyFails` |
| `agent-picker.tsx` and the effect that drops a missing agent | `ChooseAgent`, `ListArrives`, `ListFails`, `TryAgain`, `ListIs` |
| `approval-card.tsx`, `resolveAction` | `CardLoads`, `Decide`, `DecisionArrives`, `resolveAction`, `DecisionFails` |
| another tab, the Tasks page, a reload | `DeleteAgent`, `DecideElsewhere`, `Reload` |

History: `picked` (the agent the user chose), `said` (what the user wrote), and `adrift`, the chats to
which a decision was added after its session had gone or while another reply was being written. The
session that sends it on has messages that are out of date, and nothing on the screen can stop the
reply; the properties are about the other chats. `useChat` keeps all messages of a chat and sends
them, the store the last `MaxStored`. A chat leaves the list by its place (`Without`).

### WorkspacePages

| Code | Model |
|---|---|
| `fetchAutomations`, the Tasks page's `fetchData`, `fetchKnowledge`, `loadAgents` | `StartLoad`, `Answer`; `Arrive` and `Finish` on the pages that check the workspace once, before the body; `Take` on the Agents page with its `latestLoad` |
| the effect of a new workspace, Refresh, Retry, the 8-second timer | `Switch`, `Refresh`, `Poll` |
| what is disabled while something is under way | `Clickable`, `Free` |
| buttons, forms and dialogs of each page | `Click`, `Press` (`RowButtons`, `PageButtons`) |
| the server's handlers | `Edited`, `Deleted`, `Decided`, `Created`, `TaskRun`, `Triggered`, `Consolidated` |
| the handler's code after the answer | `Done`, `Approved`, `NotDone`; `Chosen` for "Run as", the one change that no load follows |
| the web server's routes, between the page and the agent server | `Process`; `Failures`: a change that was done may be reported as refused |
| starters a list makes when it is read first | `Seed`, `seeded` |

One page is open, any of the four; a row is "on" or "off". `field` says what of an automation these are,
its status or the agent it runs as, and the change of the other field is then one that the row does not
show. `covers` says of a load that what it was answered is what the server still has, or will be made so
by an answer that is under way: `Uncover` withdraws it, at a change behind the page's back and at a
choice of an agent. History: `torn` (a body was read for a
workspace that had been left), `late` (a load of such a workspace set the spinner last), `old` (an older
load was shown last), `missed`
(the server changed in a way the page cannot know of, or the page was told of a choice after a newer one,
`Overtaken`).

### RunDialog

| Code | Model |
|---|---|
| `agent_runs`, `pending_actions`, `active` as `AgentRuns` has them | `rows`, `commands`, `active`; `startRun`, `resumeRun`, `WorkEnds`, `Settle` |
| state of `RunBody` | `screen`; `card` is the `ApprovalCard` with the command as its key |
| `perform`, `handleSubmit`, `reviewRun`, `TryAgain`, `stop` | the actions of these names, `Answered`, `Stopped`, `Lose`, `Continue` |
| `decide`, `resolveApproval` | `decide`, `Decided`, `DecisionAnswered`, `Tell` (also after the dialog was closed) |
| the history's loads with their counter | `LoadHistory`, `LoadReads`, `LoadArrives`, `LoadFails` |
| the run proxy, which passes the browser's abort on | `Unawaited`, `NeverArrives` |

`excused` is history: commands approved on another page, or whose run was not told because of a Stop or
a lost connection. `writes` numbers the versions of a row. The history's limit of 20 runs
(`agent-run-dialog.tsx:155`) is not modelled: a run beyond it is not in the list, so not out of date in it.

## Runs

"Distinct" is TLC's number of distinct states. Passing runs explore the instance completely.

| Run | Instance | Distinct | Shows |
|---|---|---|---|
| `agent_runs_races` | 2 actions, 2 runs, 1 agent, 2 requests, 2 faults, 2 steps | 1 575 243 | `TypeOK`, `RunsOnceAsApproved`, `ActiveIsInProgress`, `WaitingFits`, `NothingWaitsInVain`, `ClosedRunsStay`, `WaitsForTheUser`, `KeepsContract` |
| `agent_runs_modes` | 1 action, 1 run, 1 agent, 2 workspaces, 2 tools, 3 modes, 1 request, 1 fault, 3 steps, fair | 402 716 | `CallsAreAllowed`, `RunsEnd` |
| `automations` | 2 workflows, 2 handlers, 1 "run now", 2 stimuli, 1 fault, fair | 169 925 | `InFlightIsExact`, `RunsAreCounted`, `DueRuns`, `SelfTriggersStop` |
| `memory_index` | 1 memory, 2 texts, 2 models, 2 requests, 2 changes, 1 fault, fair | 1 762 528 | `IndexFollows`, `BackfillCatchesUp` |
| `tool_calls` | a script, a search, a file read, 3 connections, 1 fault, fair | 1 042 585 | `AnswersAreTrue`, `ConnectedIsLive`, `WorkingIsLeftAlone`, `KeepsCallContract`, `ComesToRest` |
| `model_reply` | 3 tags, 6 letters in pieces of 1 or 2, 1 fault | 8 409 322 | `StreamedAsWhole`, `AnsweredOnce`, `MissingIsTrue` |
| `settings` | 2 providers, 1 key, 1 local model, 2 kinds of `.env`, 2 requests, 2 faults | 2 791 530 | `KeyInUse`, `PanelShowsServer` |
| `access` | 3 registrations, 2 tokens, 2 devices, 3 sessions, 2 faults | 417 662 | `AnsweredIsIn`, `SessionsAreOwn`, `StaysIn` |
| `chat_page` | 2 chats, 5 messages and replies of which the store keeps 2, 1 decision, 1 agent, 2 faults | 2 216 118 | `InStep`, `UserWordsAreKept`, `DecisionsAreTrue`, `AgentIsThePick`, `OneReplyAtATime` |
| `workspace_pages` | any page and field, 2 workspaces, 2 rows, 2 loads, 1 change, 1 fault | 9 731 614 | `RowsAreOfTheWorkspace`, `SpinnerEnds`, `ShowsTheServer`, `StartersComeOnce` |
| `run_dialog` | 1 run of 2 commands, 2 requests, 1 decision, 2 faults | 2 539 561 | `ApprovedIsCarriedOn`, `HistoryKeepsUp` |
| `access_pairs_again` | as `access`, no faults | violation | `PairsAgain` |

One property of each module also says that every variable has its type.

No specification demands that users act. Where that, or a bound that is used up, leaves a state with
nothing in progress and no successor, the configuration says `CHECK_DEADLOCK FALSE`; that nothing gets
stuck there is said by the liveness properties and by invariants about the state at rest. `settings`,
`workspace_pages` and `run_dialog`, where the user can always do something, are checked for deadlock.

What the properties mean:

- `RunsOnceAsApproved`: across pages, resumes, aborts and crashes, a stored command is handed to a tool
  at most once and only after a yes. `KeepsContract` says more: the whole history of every row of
  `pending_actions` is one the contract allows (asked, answered once, used up at most once).
- `ActiveIsInProgress`: the in-memory set is exactly what requests work on, one request per run. Left
  out on one path, the run can never be resumed; left too early, it can be resumed twice.
- `WaitingFits`: a row waits exactly when it names an action, a command of its own workspace, which no
  other row names. A decision carries on the run found by this name.
- `CallsAreAllowed`: a tool in progress is the persona's; in the default mode a command is a claimed
  one of this workspace, with the stored tool.
- `NothingWaitsInVain`: without faults no run waits for a denied command, and one that waits for a
  command already run, with nobody working on it, waits for one somebody else ran.
- `ClosedRunsStay`, `WaitsForTheUser`: what a step may never do to a closed and to a waiting run.
- `RunsEnd`: a run that is worked on stops being worked on; the iteration bound is what ensures it.
- `InFlightIsExact`: the same set discipline for automations. `RunsAreCounted`: stale counts lose runs
  but never invent one, and a due workflow is started once per period, plus once per crash or failed
  write that lost `lastRunAt`.
- `DueRuns`, `SelfTriggersStop`: what is due is run; a workflow that emits its own trigger does not
  keep the engine busy.
- `IndexFollows`: when nobody works on a memory, its vector, if any, is that of its row's text. The code
  gives this up in four cases, which the model records in `excused`: changes of one memory that overlap
  each other or a backfill that has read it, a change while Qdrant is believed away, a removal that
  fails, and a crash between vector and row. The next undisturbed change of the memory ends the
  exception, so the property also says that such a change repairs whatever went wrong before.
- `BackfillCatchesUp`: when Qdrant was found away, no backfill is at work, and from then on Qdrant and a
  model of the right size stay, every memory that is not excused gets and keeps that model's vector.
- `AnswersAreTrue`: a call's tool starts at most once, and what the agent is told ("not sent", an
  output, a timeout) is so: after "timed out and was stopped" the shell is gone and no script stays, and
  on POSIX nothing of the command is left but what made itself a process group of its own.
  `KeepsCallContract` says more: the whole history of every call is one of `CallContract`: no
  tool starts for a call that has its answer, and nothing that comes later (a late answer, a lost
  connection) changes what the agent was told. `ConnectedIsLive`: a connected manager has a client that
  works, one connection is made at a time, the flag `connecting` is left on every path, and no tool
  server is forgotten. `WorkingIsLeftAlone`: the late end of an old connection does not bring a working
  one down. `ComesToRest`: every call comes back, whatever the processes of the others do.
- `StreamedAsWhole`: at every moment of a stream, what was shown is what would be shown of the text so
  far if it had come whole; so no part of the reasoning is shown, however the tags are cut.
  `AnsweredOnce`: the chat gets the answer, its replacement or the error exactly once, through the
  adapter, the node and the route. `MissingIsTrue`: "the model is missing" is said only if no model that
  may be used is installed, or Ollama changed since the last of its answers that came before the
  request's orchestrator was built.
- `KeyInUse`: the client sends the key the app says is in use, and the chosen model has one.
  `PanelShowsServer`: the panel shows what the server holds unless that changed behind its back.
- `AnsweredIsIn`: whoever was told that the registration went through can log in, though others
  registered the same email or name meanwhile. `SessionsAreOwn`: a session that is let in is known to its
  own device only and has the scope of the one token that paired it. `StaysIn`: nobody else locks a
  device out.
- `InStep`: the last messages a chat shows, as many as the store keeps, are what is stored as soon as no
  reply is being written in front of the user. `UserWordsAreKept`: what was sent stays, whatever happens
  to the reply, until the store has as many later messages as it keeps (one less while the last reply is
  asked for again), and a deleted chat stays deleted.
  `DecisionsAreTrue`: a chat says approved or denied only if the server recorded it.
  `AgentIsThePick`: a list that fails to load never turns a persona into the assistant with all tools.
  `OneReplyAtATime`: a request is its chat's only one and can be stopped.
- `RowsAreOfTheWorkspace`, `SpinnerEnds`, `ShowsTheServer`: the page shows the rows of the workspace on
  screen, its spinner ends, and at rest it shows what the server has. On the pages without numbered
  loads each has an exception, named in it by a history variable; `ShowsTheServer` has two more for the
  choice of an automation's agent: a list from before the choice that is shown after it, and a choice
  that was overtaken by another. `StartersComeOnce`: a starter
  that was deleted does not come back.
- `ApprovedIsCarriedOn`: an approval the dialog got recorded reaches its run, also if the dialog was
  closed, and is about the command that was on the card. `HistoryKeepsUp`: when loads overtake each
  other, the list of recent runs is not older than the run shown above it.

Why the bounds are enough. Races over a row need two contenders and a third party that decides: two
requests and the user, who is always enabled. Two runs and two actions let a run take the other's
action. `MaxSteps` of 2 or 3 gives iterations from which the loop goes on and one at which it stops; the
code's 10 adds repetitions only. Two faults allow a crash during the recovery of the first. Two
workflows and two handlers let a handler wait behind the other's run and let two automations trigger
each other; one "run now" overlaps with either. For one memory two requests overlap with each other and
with the backfill. Its batches then hold one row; with two memories, one request and `BatchSize = 1`,
which makes the backfill go through two batches between which the services may change, the same two
properties were checked as well, with one change and two faults (2 312 604 states) and with two changes
and one fault (4 294 318): too slow to be repeated each time. Three calls let two wait while a third
connects; each makes at most one connection. Six letters hold both tags with a word inside and one
behind, or blanks in front, cut in every way into pieces of one or two. Two requests of the settings
panel are one that was left and one of the panel opened over it, or of another tab. Two devices and two
tokens let a device take the other's; three sessions let one be refreshed twice or both once. Two chats
are one that is left and one that is shown; five messages and replies are two exchanges and a retry,
and a store that keeps two of them (`MaxStored`; 200 in the code) drops messages from the third message
on. Two loads overtake each other; one change and a workspace to go to is what its handler can be late
for. Two commands in turn let an answer about the first meet the card of the second.

Bounds named in the modules: `MaxFaults`, `MaxFailures`, `MaxMishaps` (crashes, failed writes, lost
answers, services that come and go, what other tabs do), `MaxStimuli` (users and the clock),
`MaxChanges` (memories stored, updated, deleted; changes of a page under way), `MaxCount` (saturation),
`Conns`, `MaxLetters`, `MaxPiece`, `MaxRequests`, `MaxSessions`, `MaxChats`, `MaxIds`, `MaxDecisions`,
`MaxLoads`, `MaxCommands`. `MaxSteps`, `MaxStored` and `BatchSize` are constants of the code. The run
`tool_calls` is of POSIX; with `Posix = FALSE` its five properties hold as well (1 336 557 states).
Symmetry is used only in runs with safety properties, over sets of ids that no definition tells apart
(`agent_runs_races`, `access`, `run_dialog`).

Fairness, and why the code justifies it:

- `AgentRuns`: weak fairness of `Step(w)`. A model's request and a tool's call end or time out (the
  providers pass abort timeouts, the tool server kills processes), and Node runs the continuation.
  Nothing is assumed of users: approvals may never come. No fault is fair.
- `AutomationEngine`: weak fairness of the tick (`setInterval`) and of `FinishWorkflow` (a workflow's
  action is such a run, or a bounded HTTP request). `StoresMemory` and users are not fair.
- `MemoryIndex`: weak fairness of a request's and the backfill's next step (every call to Qdrant and the
  models has a timeout), of `Expire` (time passes) and of `Query`: the availability is asked for by
  every search and by `/api/health` (`server.ts:374`), which the web app's status display polls, so
  somebody looks now and then.
- `ToolServer`: weak fairness of `Progress`: a call's next step in either process, the timers, the
  reading of a file, and the end of a tool server that was told to stop. A command's processes and a
  search may run for ever: the timeout of `runProcess` and the SDK's are what ends the call.
- The other specifications state no fairness and have safety properties only.

## Proofs

tlapm checks every proof to the last leaf. There is no bound in them on runs, requests, actions,
agents, workflows, memories, calls, devices, chats, pages' loads, texts, iterations or faults: where a
module names a bound in a guard, the theorem is for every value of it. Every invariant and every
property of steps that a passing run checks is also a theorem.

| Module | Theorem | Says |
|---|---|---|
| `AgentRunsProofs` | `ContractIsSafe` | the contract: `Contract!Spec => []Contract!StartedOnce` |
| | `TypeCorrect`, `Invariance` | `Spec => []TypeOK`, `Spec => [](TypeOK /\ IInv)` |
| | `OnceAsApproved`, `ActiveCorrect`, `WaitingCorrect` | `[]RunsOnceAsApproved`, `[]ActiveIsInProgress`, `[]WaitingFits` |
| | `WaitsCorrect`, `CallsCorrect` | `[]NothingWaitsInVain`, `[]CallsAreAllowed` |
| | `ClosedCorrect`, `UserDecides` | `ClosedRunsStay`, `WaitsForTheUser` (of steps) |
| | `Refinement` | `Spec => KeepsContract`: every behaviour is one of `ApprovalContract` |
| | `StartsOnce` | `Spec => []Contract!StartedOnce`, from the two: what the contract promises holds of the server |
| `AutomationEngineProofs` | `InFlightCorrect`, `CountsCorrect` | `[]InFlightIsExact`, `[]RunsAreCounted` |
| `ToolServerProofs` | `AnswersCorrect`, `ConnectedCorrect` | `[]AnswersAreTrue`, `[]ConnectedIsLive` |
| | `WorkingCorrect` | `WorkingIsLeftAlone` (of steps) |
| | `CallRefinement` | `Spec => KeepsCallContract`: every behaviour is one of `CallContract` |
| | `CallContractIsTrue` | the contract: `Contract!Spec => []Contract!ToldTheTruth` |
| `AccountProofs` | `KeysCorrect`, `PanelCorrect` | `[]KeyInUse`, `[]PanelShowsServer` |
| | `AnsweredCorrect`, `SessionsCorrect` | `[]AnsweredIsIn`, `[]SessionsAreOwn` |
| | `NobodyIsLockedOut` | `StaysIn` (of steps) |
| `AnswerProofs` | `IndexCorrect` | `[]IndexFollows` |
| | `StreamCorrect`, `AnswerCorrect`, `MissingCorrect` | `[]StreamedAsWhole`, `[]AnsweredOnce`, `[]MissingIsTrue` |
| `ChatPageProofs` | `InStepCorrect`, `WordsCorrect`, `DecisionsCorrect` | `[]InStep`, `[]UserWordsAreKept`, `[]DecisionsAreTrue` |
| | `PickCorrect`, `OneReplyCorrect` | `[]AgentIsThePick`, `[]OneReplyAtATime` |
| `WorkspacePagesProofs` | `RowsCorrect`, `SpinnerCorrect`, `ShownCorrect` | `[]RowsAreOfTheWorkspace`, `[]SpinnerEnds`, `[]ShowsTheServer` |
| | `StartersCorrect` | `StartersComeOnce` (of steps) |
| `RunDialogProofs` | `CarriedOnCorrect`, `HistoryCorrect` | `[]ApprovedIsCarriedOn`, `[]HistoryKeepsUp` |

Each module also has an `Invariance` (for `Access` `AccessInvariance`, for `ModelReply`
`ReplyInvariance`): the specification implies `[]` of the inductive invariant, which includes the types;
the others follow from it. TLC checked each inductive invariant on the instance of its run before the
proof was begun.

Assumptions. A proof uses the assumptions the module makes about its constants and no other; TLC
evaluates them in every run. They say that null is none of the ids, that sets of different things are
disjoint, and that bounds are numbers. Some say more: `RunsAssumption` names the three approval modes,
`SettingsAssumption` that a model is local or of one cloud provider, `AccessAssumption` that a form has
an email and a name, `ToolServerAssumption` that there are as many connections as calls, so that a
call that wants one finds one (each makes at most one), `ModelReplyAssumption` that the wanted tag is
one Ollama may have and its siblings are others, `AnswerAssumption` of `RunDialog` that an error
answer is not null, `ChatPageAssumption` that the store keeps two messages of a chat or more.

### Why the properties hold

None of them is inductive alone. What follows is what each invariant adds, and why.

**`AgentRuns`.** That a command starts once needs the table to agree with what was started, that the
active set is exact needs two requests never to share a run, and that needs the run's row to be waiting
only while nobody works on it.

    IInv == RowsFit /\ InProgressFits /\ ActiveIsInProgress /\ WaitingFits /\ Ledger

`RowsFit`: a row has an agent from the moment it exists, and the action it names exists; otherwise a
command proposed later could get the id and find a run waiting for it. `InProgressFits`: while a claimed
command runs, its run's row still waits for it or is deleted, and a request belongs to the workspace of
its run's agent. `Ledger`: a status of approved or executed was preceded by a yes, and started commands
are executed ones.

Type correctness comes first, an action at a time. Then four of the conjuncts together (`Order` in the
module) are shown to survive each action; lemmas on `UpdateRun`, `SaveRun` and `ClaimAndCall` carry the
weight, since all ways a request can end go through them. `Ledger` needs only how an action may change
the table of approvals, of which there are four kinds (a new row, an answer, a claim with its start, a
claim that a crash wasted); the same case split maps every step to a step of the contract or a stutter,
which is `Refinement`. `NothingWaitsInVain` needs two more facts: the row of a run that is worked on is
open or gone (`OpenRows`), and a row says denied only if the user did (`DeniedIsSaid`).
`CallsAreAllowed` is about one request at a time, and needs that a claim is held only while its command
runs (`ClaimsEnd`) and that a stored call asks for a tool (`AskedTools`).

**`AutomationEngine`.** `IInv == TypeOK /\ Exact /\ CallsFit /\ RowsFit`. `Exact` is the set against the
calls. `CallsFit` says of every call, and of each entry of a handler's list, that the count it was begun
with is not above the log, and that a list names a workflow once and not the one that runs; without
that, the handler's next workflow could be one that is already in the set by its own doing. `RowsFit`
counts: what is due was started at most once per fault, and once more if it runs now. `LeastNumber`, from the
well-foundedness of the numbers, gives the entry at which a handler stops.

**`Access`.** `IInv == TypeOK /\ AccountsFit /\ DevicesFit`. `PairedOnce`: a row of a device has one
token that paired it, which no other claim shares. `SessionFits`: the session in a row, also one that
expired, was issued and told to nobody else. `StaysIn` then follows step by step, for only the device's
own requests, its revocation and expiry change its row.

**`ToolServer`.** Eight parts. `ManagersFit` and `CallsFit` relate a manager's flag, client and
transport to the one call that connects for it; `Alone` says that nobody shares a connection that is not
there yet; `RunsFit` ties what runs in a tool server to the connection the call was sent on, and says
what a command that timed out leaves behind (`Killed`), on POSIX and on Windows;
`Serving` says that before the agent server stops everything is on the one connection of the one
manager, and that this one is known to be connected, which is why the late end of an old one, or a call
that connects, does not touch it. `ConnsUsed` and a counting lemma (`UnusedConn`) show that a connection
is left for every call that makes one. `CallRefinement` maps a call to what was told and to where its
tool is (`ToolPhase`), and a step to one step or none of each call, all at once: the end of a connection
answers every call on it. It needs from `RunsFit` that a tool starts only for a call that was sent and has
no run yet, and that what a closing connection leaves was started on it.

**`Settings`.** `IInv == Typed /\ KeysFit /\ Panel`. `KeysFit` has to speak of the file as well as of
memory, since a restart makes the file's choice the one in use. `Panel`: the panel has one request under
way, and an answer that covers all changes says what the server holds, before it is shown.

**`MemoryIndex`.** `IInv == TypeOK /\ CallsFit /\ MemoriesFit`. For a memory that is not excused:
one request works on it at most, and never together with a backfill that has read it; what the
backfill has read is what the row says; and each phase of a request says which of vector and row is
ahead: a new memory has no vector until it is written, and when only the row is left to do the vector
is gone or that of the new text.

**`ChatPage`.** Six parts. `ChatFits` says of every chat what the store and `useChat` hold of it: the
store has the last messages of the other unless a reply is being written in front of the user, both are
in the order in which they were written, in which a reply follows a message of the user, and what of the
user's words is missing is older than what there is, of which there is as much as the store keeps
(`Keeps`). A loaded chat starts with a part of the conversation, so that is true of `useChat`'s messages
as well as of the store's; regenerating takes the reply off its end, which is why the store may be one
short. A chat that is not in the list has nothing. `RequestsFit`: an
undisturbed chat has one request, of the session on the screen, which has the handle to stop it; its
base lacks none of the user's words but for the limit, and its id is nobody else's, so that the next
piece of the reply overwrites nothing. `DecisionFits`: a decision says what the server recorded, before its answer arrives
and after. `SessionFits` and `Fresh`: the card belongs to the last message, the list to a session, what
the session gave the store last is there (so that leaving out a save because nothing changed is right),
and an id that was not given has no approval. `InStep` has the largest share, a lemma for each way in
which store and cache change together.

**`WorkspacePages`.** Ten parts. `ThisWorkspace`: the rows on the screen are of the workspace on the
screen, or `torn` says otherwise; `ListsAreTheirs`: what a load was answered is of the workspace it asked
for. `NewestIsHere` and `NumbersHelp` are about the counter of the Agents page: the newest load is of the
workspace on the screen, so no load of another one is taken. `Spins`: while the spinner turns there is a
load that will stop it, unless one of a workspace that was left turned it on. `LoadsFit` says that the
newest load, if nothing that is still under way will be followed by another one, was answered with what
the server has, and `RowsFit` that what stays on the screen is that list, row by row, or differs in an
agent that was chosen and of which the page will be told (`Awaited`); `Approvals`, that a command
that was approved has left the server's list, is what both need when the approval's answer comes.
`Seeds`: the rows the server makes for a workspace are there only if it is in `seeded`, and every
workspace it answered for is, so that no read makes them again.

**`RunDialog`.** Ten parts. `ServerFits` is the server's side as `AgentRuns` has it: a row waits for a
command of its own, the command of a run that is worked on is used up, and one request waits for one
run's work. `Handled`: what is answered was handled; `Stoppable`: Stop reaches a request of the open
dialog. `Carried` is the heart: the command of a run that waits, if it was approved and is not excused,
has a decision whose answer says that the run has to be told, or a request that tells it, was not
handled yet and was not given up; a decision that comes back hands over to a request in one step, also
when the dialog was closed. `CardFits` and `AsSeen`: the card shows the command it was made for, and a
decision is about the one it showed. `Copies`: no copy of a row, wherever it is held, is newer than the
row; `Newer`: the newest load's rows, and without such a load the history on the screen, are at least as
new as the run that is shown.

**`ModelReply`.** The text comes first. For every text, `TrimStart` is the rest from the first letter
that is not blank (`TrimInk`, from `MinIs`: a set of numbers has a least one), and blanks stay out
whatever follows (`TrimConcat`). Whether a text begins with the tag is settled once it has two letters
that are not blank, or one that cannot begin it (`Decided`), and the first end of the reasoning stays
where it is (`FirstClose`); so what `stripThinking` makes of a longer text is what it made of the shorter
one with the rest behind it (`StripConcat`). `FilterFits` then relates the filter to the text it was
fed: undecided it holds all of it and let nothing out, thinking likewise, and as an answer it
let out what `stripThinking` makes of the text, but for blanks. `PushFits` is the step of the filter, and no
induction over the text is needed, because the stream brings the pieces one step at a time. The rest,

    ReplyInv == ReplyTyped /\ ShownOfText /\ ReplyIsShown /\ ChatFits /\ TagFits

says that a call that ends well returns what was shown, that `streamed`, the node's output and the
chat's error fit each other in every phase, and that the tag in use, or once the request has its
orchestrator its model, was picked from the list that was used.

### What is only model-checked

Liveness (`RunsEnd`, `DueRuns`, `SelfTriggersStop`, `BackfillCatchesUp`, `ComesToRest`), which is out of
the prover's reach.

Some definitions are written the way they are because of the provers, and none of them changed the number
of states. `ChatPage.Without` removes a chat from the list by its place, and `canRegenerate` asks for a
message of the user with quantifiers: the library's operators compute by recursion. `RunDialog.And` adds
one value to a function where the library's `@@` has no facts about it. `WorkspacePages.StartLoad` names
the id of the new load by `CHOOSE` from the free ones. `ModelReply.Lists` puts the set of one element
first, since `SUBSET` before a union is read differently by TLC and by tlapm.

## Findings

One is a run in which TLC refutes a sentence of the repository; the quotes are in PROJECT.json.

1. `PairsAgain` (`packages/memory/src/index.ts:1654`). The documentation and the answer to a refresh tell
   a device whose session is over to pair again. It cannot: its row keeps the unique fingerprint, and
   the claim of any token is refused. A lost answer, or a stop of the server between the pairing and
   its first session, ends the same way.

Seen while modelling, and part of the models (as a branch, or as a named exception of a property), but
not runs of their own:

- A server that stops after a resumed run claimed its command leaves the row waiting for an executed
  action. The next resume closes the run with the text that the command was run outside this run
  (`agent-runs.ts:204`), although the run itself started it or nobody did.
- "Run now" (`server.ts:1111`) does not enter `inFlight`, of which a comment says "from any trigger"
  (`engine.ts:121`): the next tick or event can start the same workflow beside it.
- Two automations on `MEMORY_CREATED` whose agent tasks store memories keep triggering each other; the
  comment at `packages/events/src/index.ts:14`, that workflows can't trigger each other in a loop, is
  about `AGENT_STARTED` and `AGENT_FINISHED` only.
- A memory stored while Qdrant answers and no embedding model does is not indexed when the model is
  back (`packages/memory/src/index.ts:547`): a backfill starts only when Qdrant itself was away.
- A decision that is answered after its chat was left is sent on from the session that has gone
  (`chat/page.tsx:242`), which nothing on the screen can stop, and with the messages of that moment.
- The Automations, Tasks and Knowledge pages look at the workspace once, before the body is read
  (`automation/page.tsx:213`): a body read after the user left shows the old workspace's rows. A change
  answered after its workspace was left starts a load that sets the spinner and never stops it.
- A write of `settings.json` that fails is answered with "Could not save the API key", but the change is
  in memory, is shown as saved, and goes to the file with the next change.
- `agent-run-dialog.tsx:188`: a decision may be answered while another request of the dialog is out. Then
  two are, the first answer clears the busy state of both, and Stop reaches only the later one. After
  Stop the history is loaded before the server has saved the cancelled run (`:206`).
- A registration whose workspace cannot be created is answered 500, though the account exists
  (`server.ts:580`).
- The timer of a model's request is cleared with the headers (`packages/providers/src/index.ts:635`): a
  body that never comes is ended by the user's Stop, or by the body timeout of Node's `fetch`.
- On Windows a command that times out loses its shell only (`packages/mcp/src/run-process.ts:50`); what
  the shell started goes on, although the agent is told that the command "was stopped (including anything
  it started)" (`:100`; "the whole group is killed", `:25`).
- The choice of an automation's agent is the one change of a row that no load follows
  (`automation/page.tsx:294-317`): a Refresh answered before it and read after it leaves the old agent on
  the screen. A route of the web server whose answer from the agent server is lost reports a change as
  failed that was done.
- The model of a request is chosen before its message is routed and memories are recalled
  (`server.ts:126`). An answer of Ollama in between comes too late for it: the user is told that the old
  tag is not installed, although the new one is.
- A chat keeps its last 200 messages (`chat-history.ts:4`); while it is on the screen it shows and sends
  all of them, and after it was loaded again only those.
- Two workspaces made at once before there is any get the same id "default" (`db-store.ts:134`); the
  store of workspaces is not modelled.

## Plan

The order was: the approval of commands first, because it is what the server must never get wrong; then
the engine that runs such work unattended; then the one place where two stores must agree; then the
connection over which commands run, the reply of the model, keys and access; then the pages, from whose
requests all of this starts.

Every safety property of the runs is proved. What could come next:

- An abstract specification of one more component, to be refined like `ApprovalContract`: for
  `AutomationEngine` a guarded runner that runs a workflow when it is due and never twice at once, with
  "run now" outside the guard.
- The switcher of workspaces with its store, and the graph's ingestion with texts that overlap.

Not modelled, and why:

- Ranking of search results, clustering, routing and prompts, the graph's query engine, the parser
  behind `auto` mode and the Python service compute texts and numbers and keep no state that a step
  could leave wrong.
- Graph ingestion changes nodes and edges that depend on which texts its patterns match, and recounts
  degrees in one transaction; with abstract texts a model would restate that transaction.
- `workspace-path.ts` compares paths with the file system, in one step.
- Host checks, rate limits and input validation of the HTTP layer are per request and refuse it before
  anything changes.
- The switcher of workspaces, themes, the search dialog, the graph view, the sidebar, marketing pages and
  layout either hold one piece of state each or none.
