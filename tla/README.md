# Verification of trovery-tools

This directory holds TLA+ models of trovery-tools: Trovery Forge (agents, MCP tool servers, orchestration, an HTTP
serving API, a dashboard), Trovery Palette (live UI over WebSockets) and Trovery Vigil (governed AI sessions). The Go
code under `src/` is the reference: each definition is a translation of the lines that `PROJECT.json` names for it.
TLC checks the models on small instances; TLAPS proves every safety property, action property and refinement of the
passing runs for all values of the constants. Liveness is model-checked only.

Run `tlc -config X.cfg M` for a row of the table of runs, and `tlapm M.tla` for the proofs, where M is `Sums` or one of
the modules whose name ends in `Proofs`.

Contents: 1 the system, 2 the models, 3 runs, 4 bounds, 5 fairness, 6 proofs, 7 disagreements with the documentation,
8 what is not modelled, 9 plan.

## 1. The system

### Components with state

| component | state | operations | interacts with | hard behaviour | correct when |
|---|---|---|---|---|---|
| **Agent runtime** `runtime.Session` | message history, token totals, tool-call counter, BudgetStopped | SendMessage (model turn, budget check, sequential or parallel tools), /clear, next prompt | provider, tool servers, guardrails; owned by the REPL, an HTTP request or an orchestrator | parallel tool calls, budget stop in mid-turn, endless tool use | every tool_use is answered in order; a request overshoots its budget by less than one turn; it returns |
| **Serving API** `httpserver` | in-flight requests, gauge of active sessions, the process itself | /invoke, /invoke/stream, shutdown | runtime, guardrails, metrics | concurrent requests against one ledger, disconnects, shutdown in mid-request, failing ledger, month change | spend is ledgered once on every exit path; the monthly cap is overshot only by requests in flight; the gauge does not leak |
| **Cost ledger** `guardrails.CostStore` | table of spend by time | MonthlySpend, Record, CheckMonthlyBudget, CheckRequestBudget | serving API, REPL | check and record are far apart | see the serving API |
| **Palette client** `paletteclient.Client` | connection state, queue, pending prompts, two mutexes, done | Connect, send, Prompt, read loop, reconnect, Close | application goroutines, network | breaks at any moment, reconnection, a timeout racing an answer, Close racing a dial | no reply blocks; the queue is flushed, nothing is delivered twice; one goroutine keeps the link; prompts return |
| **Vigil session manager** `session.Manager` | a file per session, a marker file | start, start --force, run, stop, stop --force | policy engine, git, other vigil processes | processes without locks, death between two writes, stale markers | at most one active session, final states stay, recorded runs stay |
| **MCP client** `harness.Client` | request counter, a reader goroutine per request, the server process | StartServer, CallTool, Close | server process through its stdin and stdout | parallel calls, deadlines, a server that dies, notifications between answers | a call returns its own answer; it returns |
| **Server manager** `servermgr.Manager` with `agenttool`, sandboxed servers, palette components | the servers with their tools, processes and containers, temporary files, the child agents' counters | StartServer and its variants, CallTool routing, AllTools, Close | MCP clients, filter, child agents, the palette's viewer | partial start-up, launchers and containers whose own end is not that of the server, names with dots, calls that overlap, users who never answer | an offered name leads to the tool it stands for; no process outlives its use while its input is open; closing ends; the children's spend is not overstated |
| **Orchestrator** `orchestrator.Engine` | the DAG, results and outputs of one execution | New (BuildDAG), Execute | a runtime and a server manager per agent | agents of a layer in goroutines, agents that fail | only cyclic graphs are rejected; no agent starts before its dependencies ended; totals add up |
| **Dashboard hub** `ws.Hub` | set of connections, a send channel each | register, unregister, broadcast with eviction | connections' pumps, chat handlers | eviction gives the lock up in the middle of an iteration | nothing is closed twice; a client misses nothing before it is given up; nobody waits for a client |
| **Recorder and storage** `session.Recorder`, SQLite | sessions, turns, tool calls, applied migrations | migrate, RecordTurn, RecordToolCall, Finish, PruneSessions; the dashboard's queries | REPL, dashboard, other chats on the same file | failing writes whose errors are dropped, cumulative costs, queries between writes | totals are those of stored turns; calls stay with their turn; a page is never behind its totals |
| **Providers** (Anthropic, OpenAI, Ollama) | none between calls; a stream in a call | CreateMessage, CreateMessageStream, conversion of the history | HTTP, the runtime | retries of requests and of streams, streams that break off | a tool use is assembled whole and once; each one is answered in the next request |
| **Evaluation** `eval` (agents), `server/eval`, `EvalStore` | runs with results, baselines, golden files | agent eval, --report-last, server eval with --update-baselines and --update-snapshots | runtime and mocks, MCP client, SQLite, files | scenarios that error, repetitions, writes that fail, a command that is killed | a stored verdict says what the scenarios say; what was updated passes |
| **Vigil policy** engine, watcher, git, organisation policy | the changes and violations of a session, debounce timers, two policy files | Snapshot, DiffSince, CheckPostSession, watcher, MergeOrgPolicy, validate | git, file system, session manager | the project changes meanwhile; four git commands; timers that race with events | no change that git or the system names is missed, nor a secret or a write in it; locked fields hold |
| **Dev server** | the child process, a debounce timer | watch, rebuild, restart | file system, child | a change during a restart | one child at a time |
| **Rate limiter** | a window per key | Allow | middleware | window boundary | at most the limit in a window |

The other parts (deploy and export, scaffolding, validation, skills, reports, the other REST endpoints, shared helpers,
command line) are sequential functions of their input or plain I/O; `PROJECT.json` lists them all.

### How they interact

The REPL (`agent_chat.go`) and each HTTP request create a `Session` and call `SendMessage`. That calls the provider
and then, for every tool use, `servermgr.CallTool`, which writes one JSON-RPC line to the server's standard input and
reads the answer from its standard output. `CheckRequestBudget` is called after each model turn; the serving API
checks the monthly ledger once before a request and adds a row in a deferred call when it is over. An orchestrator's
engine starts a session of its own for each child agent. With `--save` the REPL hands every turn and tool call to a
recorder, which writes them to a SQLite file that other chats and the dashboard have open too. In the dashboard's own
chat the callbacks of a turn publish events to the hub, which distributes them to the browsers. An eval command runs
sessions whose tools are real or mocked, and keeps its verdicts in a second SQLite file. The palette client stands by
itself and talks to a viewer; a vigil command is a process of its own, and commands meet only in the files and in the
git repository.

## 2. The models

Each variable and action has the name of the code where there is one. Definitions marked `Slip:` are not part of a
specification: each is a definition with a plausible mistake in it, kept to show that a property notices the mistake.

| module | models | state and actions |
|---|---|---|
| `MeteredRequest` | abstract: a request that stops spending once its limit is met | `phase`, `spent`, `limit` |
| `AgentRuntime` | `runtime.go`, its callers in `agent_chat.go` and `handlers.go` | one session; `ModelTurn` is a turn with its budget check, `LoadCount`/`StoreCount`/`FinishCall` the three steps of a tool call's goroutine (`ToolCalls++` is a load and a store without a lock), `CollectResults` the wait group and the message of results |
| `ServingBudget` | `handlers.go`, `guardrails.go`, `agent_serve.go` | `st[r]` is where the handler of request r is; one action per step with an early return of its own, including both deferred calls in their order; `Shutdown`, `Exit`, `Restart`, `NextMonth` |
| `PaletteClient` | `go-client/client.go` | one program counter per goroutine: dialer, flush, read loop and sender, Prompt, Close; what `mu` covers is one step, `writeMu` is held over a whole flush |
| `SessionLog` | abstract: one active session, final states stay | `log` |
| `VigilSession` | `session/manager.go`, `storage.go`, `cli/start.go`, `run.go`, `stop.go` | one program counter per process; a file write is truncate, then write; `Crash` between any two steps |
| `McpClient` | `harness.go`, the start-up in `servermgr.go` | requests, reader goroutines, lines in the pipes, the process, contexts that end |
| `Workflow` | abstract: a task starts after everything it needs has ended | `needs`, `task` |
| `Orchestrator` | `dag.go`, `engine.go` | `PeelLayer` is one layer of Kahn's algorithm; `StartAgent`/`FinishAgent` an agent's goroutine, whose result leaves out what the agents it used as tools have spent (`unreported`), `EndLayer` the wait group and the merge of the results, `Synthesize` the final turn and the total |
| `Provider` | `anthropic.go`, `openai.go`, `ollama.go` | one conversation; `KeepAnswer` ends a turn, with its calls answered or cut by a budget stop, `SendMessage` goes on after it or after an error, `CreateMessage` converts the history, `Busy`/`Fails`/`Accepted` are the outcomes of a POST, `ReadMessageStart` ... `ReadEnd` are the events of a stream, each with what the parser does to what it has assembled; `sent` is how far the server has come, so that the pieces of an answer come in every order that the API allows; `EndOfStream`, `BrokenStream`, `Overloaded` are the ends of a stream |
| `ToolServers` | `servermgr.go`, `filter.go`, `sandbox.go`, `dockerfile.go`, `agenttool.go`, `palette/tools.go`, `lifecycle.go` and their callers | start-up of one server after the other (`WriteFiles`, `Build`, `Spawn`, `Fail`, `Skip`, `Register`, `Ready`); `alive` has the direct children, `behind` the servers with something behind a launcher or `docker run`, `told` those whose input has ended: closing only tells a process and waits for it, and processes end by themselves or are killed (`ProcessEnds`, `Killed`, `Ending`); `AllTools` and `Route` are names and routing; a call goes through the steps of a server, a child agent (`StartChildren` ... `WriteStats`, `CloseChildren`) or a prompt; `Quit`, `CloseViewer`, `CloseNext`, `Exit` |
| `EvalAssertions` | both `assertions.go` | the assertions as operators on a captured run and on a tool's result |
| `Evaluation` | `eval/` and `server/eval/`, `agent_eval.go`, `server_eval.go`, `eval_store.go`, price and capability tables | one command after the other over one store: suites, scenarios, repetitions, mocked tools (`ModelCall`), results (`EndRun`, `RunScenario`), `Finalize`, `UpdateBaselines`, `UpdateSnapshots`, `ReportLast`; `Killed` and writes that fail |
| `Recording` | `recorder.go`, `session_store.go`, `storage.go`, the recording in `agent_chat.go`, `handlers_sessions.go`, `handlers_analytics.go` | a process per chat: migrations, a turn (`RecordUserTurn`, `RecordAssistantTurn`, `CreateTurn`, `UpdateSession`), `RecordToolCall`, `Finish`, `PruneSessions`; the dashboard reads with a query per step |
| `Hub` | `ws/hub.go`, `ws/conn.go`, `handlers_ws.go` | `Run` at its select or in the middle of a delivery (`TakeEvent`, `Deliver`, `Evict`), reader and writer of each client, chats that publish |
| `Audit` | `policy/*.go`, `session/git.go`, `config/*.go`, the checks of `stop.go`, `audit.go`, `run.go`, `policy.go` | working tree, index, head and snapshot; the watcher with its queue, timers and running callbacks; a pass of stop or audit git command by git command and file by file, under the names that git's lines leave of the files (`numstatField`, `renameField`, `listedName`); loading and merging of both policies |
| `MC...` | instances for TLC | values of the constants that a .cfg cannot write, symmetry |
| `AgentRuntimeProofs`, `ServingBudgetProofs`, `PaletteClientProofs`, `VigilSessionProofs`, `OrchestratorProofs`, `RecordingProofs`, `HubProofs` | theorems about the module of that name, and about `McpClient`, `ToolServers`, `Audit`, `Provider` and `Evaluation` in `AgentRuntimeProofs`, `PaletteClientProofs`, `VigilSessionProofs`, `OrchestratorProofs` and `HubProofs`, one each | section 6 |
| `Sums` | lemmas about sums over finite sets, and the least element of a set of numbers | section 6 |

Composition. `AgentRuntime` implements `MeteredRequest` (`ImplementsMeteredRequest`), and each request of
`ServingBudget` is one (`RequestsMetered`): the serving model's `ModelTurn` stands for an iteration of the runtime's
loop, and both are held to the same promise. `Orchestrator` implements `Workflow`; a child agent in it is one
`SendMessage`, whose return `AgentRuntime` shows (`RequestReturns`). `VigilSession` implements `SessionLog`; its files
are mapped to a log by taking the last complete content of each. `AgentRuntime` keeps a history in which every tool
use is answered but those of turns that a budget stop cut (`ToolUsesAnswered`); `Provider` makes such histories and
shows that what is sent has the same shape (`ToolMessagesFollow`), and that what comes back to the runtime is what the
model said (`AnswerWhole`). A tool call in `AgentRuntime` is a step that returns some result: `ToolServers` shows
which server it goes to and that it returns, and `McpClient` which result. `Evaluation` extends `EvalAssertions`.
`Audit` fills in what a stop of `VigilSession` records.

Abstractions. Texts, tool arguments and outputs are the identity of what they belong to, or the set of what can be
found in them. Costs and tokens are whole units. A month is a number. A tool's name is the sequence of its parts
between dots. A glob is the set of names it matches, a file's content whether it is there, which secret it holds, and
whether the scanner can read it; what remains of a file's name in a line of git is a parameter, for any such remains.
One handler stands for `/invoke` and `/invoke/stream`: they take the same steps and differ in how they write the
answer and in answering 500 or 504, which are of one class. A client that disconnects changes none of these steps,
because the model call has a context of its own, and is no action. A layer of the DAG is a set, because the code fills
it from a map iteration. A commit keeps only its tree.

## 3. Runs

| run | module / cfg | question and properties |
|---|---|---|
| runtime | MCAgentRuntime / AgentRuntime | Does one message keep the history, the budget and the counters right, in a server and in the REPL? `ToolUsesAnswered`, `ToolCallsCounted` (exact when sequential, never too high when increments are lost), `RequestReturns`, `ImplementsMeteredRequest` |
| serving | MCServingBudget / ServingBudget | Is spend accounted for on every way out of a handler? `ExitsAccounted` (the ledger and the gauge), `MonthlyOvershootBounded`, `RequestsMetered` |
| palette | PaletteClient / PaletteClient | Does the client survive breaks, expiries and Close? `ReplyNeverBlocks` (and no prompt leaks), `QueueDelivered` (flushed, nothing twice), `OneKeeper`, `PromptReturns` |
| vigil | MCVigilSession / VigilSession | Do processes without locks keep the files in order? `MarkerAgrees`, `RunsKept`, `ImplementsSessionLog` |
| mcp | MCMcpClient / McpClient | Does a call get its own answer, and in the end any? `AnswersAreOwn` (and no reader is left over), `CallReturns` |
| orchestrator | MCOrchestrator / Orchestrator | Do agents run after what they depend on, with its outputs? `CyclesRejected`, `OutputsPassedOn`, `TotalsReported`, `ExecuteReturns`, `ImplementsWorkflow` |
| provider | MCProvider / Provider | Is an answer assembled whole after retries and broken streams? `AnswerWhole`, `ToolMessagesFollow` |
| tools | MCToolServers / ToolServers | Do calls reach the right tool, and does anything stay behind? `OffersRouted`, `NothingLeftBehind`, `ChildSpendReported`, `CallAnswered`, `ClosingEnds` |
| eval | MCEvaluation / Evaluation | Does a stored verdict mean what it says? `VerdictsStored`, `SnapshotsHold`; the assumption `SequenceFoundAssumption` checks the search of tool sequences against its definition |
| recording | MCRecording / Recording | Do the recorded sessions add up, and what does the dashboard show of them? `TotalsOfStored`, `CallsInTheirTurn`, `DetailCoheres` |
| hub | MCHub / Hub | Can a slow or lost client harm the others? `NeverPanics`, `NoGaps`, `HubServes` |
| policy | MCAudit / Audit | Does vigil find every change, secret and write, under which policy? `ChangesComplete`, `FindingsReported`, `WatcherKeepsUp`, `LockedFieldsHold` |

The types are stated as `TypeOK` for the reader; those of `Recording`, `Hub`, `McpClient`, `ToolServers`, `Evaluation`,
`Audit` and `Provider` are in the proof modules, and the last five have names of their own (`McpTypes`, `ToolsTyped`,
`EvalTypes`, `AuditTypes` with `WatchTypes`, `ProviderTypes`). They are proved (section 6), and no run spends time on
them. Deadlock is not checked because every model may come to rest: the last message is answered, the last command has
ended, a client is closed.

Several properties are conditional, because the code promises no more than that; each condition is a state the runs do
reach. `ToolUsesAnswered` and `ToolMessagesFollow` except a turn cut by a budget stop; `TotalsReported` what failed
agents and agents used as tools have spent; `CallAnswered` and `ClosingEnds` are about launchers whose server ends
with its input; `ImplementsSessionLog` and `RunsKept` are about commands whose lookups and saves do not interleave;
`AnswersAreOwn` about calls that neither overlap nor follow an expired one; `AnswerWhole` about streams read to their
end, with the exceptions of OpenAI and Ollama that it names; `OffersRouted` about server names without dots, for the
first of its two parts; `ChangesComplete` and `FindingsReported` about files that nobody touches during the pass, and
the second about those that are recorded by their own name and that the scanner can read; `WatcherKeepsUp` excepts
files that were moved away; `LockedFieldsHold` is about the fields that `MergeOrgPolicy` has a case for. Section 7
tells what happens outside of the conditions.

## 4. Bounds

- **AgentRuntime**: turns cost 0..2, up to 2 tool calls a turn, max_tool_calls unset (a default of 1 for the 50 of the
  code) or 1..2, a budget of 0 (none) or 3, and 2 messages in the REPL. Two calls are the least that can interleave; a
  budget of 3 is met exactly (1+2), overshot (2+2) and missed; two messages show what is carried over.
- **ServingBudget**: 2 requests, 2 turns each, turns cost 0..1, a monthly cap of 1, 2 months, one restart. The cap can
  be reached by one request, overshot by two, and met by none; a request can span the change of month and the restart.
- **PaletteClient**: 3 connections (the first, one that reconnects, and the one after a break in the middle of that),
  one message, one prompt with up to 2 answers, of which the second is the unwanted one. The last connection does not
  break: an endless series of breaks is not a behaviour about which liveness can be claimed.
- **VigilSession**: 4 processes with any commands: start, run, and two that interfere. Processes are symmetric.
- **McpClient**: the two requests of start-up, 2 calls, 2 lines without an id.
- **Orchestrator**: every list of two or three agents in which each lists up to two dependencies among all three
  names, with repetitions, itself and, for lists of two, a name nobody has; lists with a name twice; the empty list.
  Agents cost 0..1, so do the agents they use as tools, and they may fail; 2 inputs in a chat.
- **Provider**: the three providers, streamed or not, 3 turns (a turn that is cut, an error or results can stand before
  and after another one in the history of the third request), answers
  of 0 or 2 pieces of text and no call, one, or two of which one has its arguments in two pieces: what comes in pieces
  can break off between them, and a second call can be confused with the first. 2 retries for the 3 of the code, on
  each of the two levels.
- **ToolServers**: setups of 1 to 3 servers: two with common tools and filters, the same server twice, a name with a
  dot, a tool whose name begins with another server's, a child agent, a palette, sandboxed servers with and without a
  `.dockerignore`, under every mode of qualified names; started directly, behind a launcher and in a container, whose
  server heeds the end of its input or not; 2 calls by 2 callers, which may overlap; a child's run costs
  0..1.
- **Evaluation**: 2 commands, one fault (a write that fails or a kill), 1 tool round per turn for the 10 of the code,
  repetitions of 1 or 2, `--report-last` looking through 1 run for 10. The suites have an assertion of each type that
  can go both ways, a mock that always fails and one that fails once, and models that the two price tables and the
  table of models without a temperature treat differently.
- **Recording**: 2 chats of which one records 3 turns (a question, an answer with a tool call, the next question) and
  one only opens and prunes, 2 migrations, one fault, one page read by the dashboard. Two migrations are the least at
  which a process can be overtaken both before and between them; three turns let a call be attached to a turn before
  and after.
- **Hub**: 2 clients, one for all topics and one for a single one, buffers of 1 for the 256 of the code, 3 events of one
  chat. A buffer of 1 overflows at the second event, and the third shows that the others go on.
- **Audit**: 3 files: one that is there and read-only, one with a blank in its name in a new directory, one ignored. Two
  projects with 5 and 3 edits, moves, adds or commits, of which the second has a watched run; five suffice for a file
  that differs in all of snapshot, head, index and working tree while the pass runs. And without edits the pairs of 14
  project and 13 organisation policies (lists that are absent, empty, equal, longer or in another order) under each of
  16 sets of locks.

Bounds are in guards (`MaxRequests`, `MaxRestarts`, `Months`, `MaxConns`, `MaxAnswers`, `MaxNotes`, `MaxInputs`,
`MaxTurns` of `Provider` and `Recording`, `MaxCalls`, `MaxCommands`, `MaxFaults`, `MaxReads`, `MaxEvents`, the edits of
a configuration of `Audit`) or limit what is chosen (`MaxTurnCost`, `MaxUses`, `MaxCost`, `MaxSpend`, `MaxTokens`).
`MaxTurns` of `ServingBudget`, `maxRetries`, `MaxToolCalls`, `ListLimit`, `Broadcast` and `SendBuffer` are limits of the
code itself, with smaller values.

Symmetry is used where only safety is checked (`ServingBudget`, `VigilSession`), never with liveness.

## 5. Fairness

- **AgentRuntime**: weak fairness of the loop (`Loop`). A model call is bounded by the timeout of the provider's HTTP
  client, and Go's scheduler runs a goroutine that can run. A tool is assumed to return; `McpClient` and `ToolServers`
  say when it does. Nothing is assumed of the user.
- **PaletteClient**: weak fairness of the goroutines (timers fire, a dial succeeds or fails, a lock that is free is
  taken). The viewer need not answer and the application need not call Close; a prompt returns by its timer.
- **McpClient**: weak fairness of the client's own steps and of each deadline. The server need not answer, and
  `CallReturns` asks only for calls that have a deadline or whose server is gone.
- **Orchestrator**: weak fairness of building and running; an agent returns because `SendMessage` does. Nothing is
  assumed of the user's next input.
- **ToolServers**: weak fairness of starting, of each call's steps and of closing, and of the ends of processes that the
  code or the system sees to (`ProcessMustEnd`): a direct child is killed when the context of its start has ended, a
  viewer five seconds after its interrupt; what is behind a launcher ends only if it heeds the end of its input. A
  prompt's step is only taken for granted when it has a timeout; nothing makes the user quit.
- **Hub**: weak fairness of the goroutines; strong fairness of what competes at a channel: Go's select chooses among the
  ready channels at random, and goroutines waiting at one channel are served in turn. Nothing makes a browser read or
  answer.
- **ServingBudget**, **VigilSession**, **Provider**, **Evaluation**, **Recording** and **Audit** have safety properties
  only: a process may stop anywhere.

## 6. Proofs

The proof modules hold for every value of the constants under the named assumption of the module they are about
(`RuntimeAssumption`, `ServingAssumption`, `PaletteAssumption`, `VigilAssumption`, `McpAssumption`,
`OrchestratorAssumption`, `ProviderAssumption`, `SetupsAssumption`, `EvalAssumption`, `RecordingAssumption`,
`HubAssumption`, `AuditAssumption`), which TLC evaluates in the runs. The assumptions say that bounds are natural
numbers, that configurations have the shape of the configuration types, that what arrives (requests, messages,
prompts, processes, callers, names) is finitely many, and that model values for nothing ("none", "torn", an empty
sequence) are not at the same time a process or a prompt. `SetupsAssumption` adds what the callers of the server
manager keep to: a palette is started first and by a chat only, its viewer has no pipes, only `serve` runs sandboxed
servers, and those run in containers. Nothing is
assumed of graphs, schedules, or how many clients, chats or connections there are.

`McpClient`, `ToolServers`, `Evaluation`, `Audit` and `Provider` name their specification after the component
(`McpSpec`, `McpInit`, `McpNext`, ...), so that a proof module can extend one of them beside another component.

Every module goes the same way: types first, an inductive invariant as a conjunction of named parts, a lemma for each
part with a case for each action, and theorems that take what they need from it. It is called `IInv` (`McpInv`,
`ProcessInv` and `SpendInv`, `EvalInv`, `AuditInv` and `WatchInv`, `ProviderInv` in the five components above), but
for `AgentRuntime`, where each theorem has its own. TLC found every one of them true in all states of its module's
run.

**AgentRuntime**
- `TypeCorrect`: the slots of a round (`worker`, `seen`, `results`) have the length of the round in every step.
- `SpendBounded`: `RequestSpendBounded` has no place in a run, since `ImplementsMeteredRequest` breaks when it does; it
  is proved. It is not inductive, since it says nothing of when a turn may start. `SpendInv`
  adds that while the loop goes on (`pc` is "model" or "tools") the request has spent nothing yet or the session is
  below the limit, so that one more turn overshoots by less than `MaxTurnCost`. The first alternative is for the REPL,
  whose session may be beyond the limit when a message starts.
- `CallsAnswered`: `AnsweredInv` says that a turn with tool uses is answered, cut or pending, where the pending one is
  the last message, with the ids of the round being executed, and that a call that is done has written its result to the
  slot of its own tool use. When all calls are done the results are then, as a sequence, the tool uses of the pending
  turn: the case of `CollectResults`.
- `CallsCounted`: `CountInv` bounds what every call has loaded by the calls made; in sequential execution a call has
  started only if those before it are done, so that between its load and its store what it loaded is still the count.
- `RuntimeImplements`: the initial states map to initial states of `MeteredRequest`, and every step to a step or a
  stutter.

**McpClient**
- `AnswersOwn`: ids are never compared, so that the property holds by counting alone. `McpInv` says that, as long as
  no two requests were under way together and none was given up, there is exactly one reader for the one answer that
  is due, at each place it can be: in the server's input, among the lines of its output, with the reader, or on its
  channel (`OneAnswer`, `BothWays`, `OneAtATime`). Lines without an id may stand anywhere in between.

**Sums**. A sum over a finite set is a fold in the community modules, that is, a recursion along an arbitrary choice
of the next element. TLAPS cannot instantiate the induction theorems of its library, which take an operator; the
lemmas argue by a smallest counterexample instead: the subsets of a finite set are well-founded (`MinimalSubset`), so
a set of subsets on which a claim fails has a minimal one, and there is none. That gives a function with the fold's
recursion (`SumExists`), its uniqueness, and from both what one expects of a sum: `SumRemove`, `SumAdd`, `SumUpdate`,
`SumLeq`, `SumSubset`, `SumDisjoint`. `LeastNumber` is the same for numbers.

**ServingBudget**
- `EveryExitAccounted`: `InPlace` says what a request has done at each of its places, `RowAgrees` that a row is
  written only at the end, once, with the whole spend; `GaugeExact` that the gauge is the number of handlers between
  entering and leaving (`Counting`: a step moves one request in or out).
- `CapOvershootBounded`: the property speaks of a sum over all requests and is not inductive. `CapHeld` says that the
  requests that were *not* in flight at the last successful check of a month (all but `exposed[m]`) have ledgered less
  than the cap, and `Noted` that whoever can still add a row in this month is in `exposed`. So a row that is added later
  falls into the other part of the sum, and that part is at most what these requests cost (`SumDisjoint`, `SumLeq`,
  `RowAgrees`).
- `EveryRequestMetered`: for each request, a step of the serving API is a step of `MeteredRequest` or a stutter.

**PaletteClient**
- `LinkInv` is about who owns the connection: connections are used in order and only the last one can be kept (`Chain`),
  what is connected or about to be is the client's own connection (`Linked`), and after Close nobody connects again
  (`Closed`). `OneKeeperOnly` follows: two keepers would be two last ones.
- `RepliesNeverBlock` needs `Claims`: two read loops never answer the same prompt, since the claim removes it from the
  pending ones in one step.
- `QueueDeliveredOnce`: `HeldOnce` and `ReceivedOnce` say that an item is in one place, and that a sender which ended
  does not write again; the property's count is then of a set with at most one element.

**VigilSession**. All of `OrderInv` is under the condition that commands do not overlap between lookup and save
(`Solo` is what follows from it), as the properties are. `Knows(p)` says, for each step of a command, what it knows
since its lookup; `Copied(p)` that what it is going to save is what was saved and its change; `Files` that a file that
differs from what was saved is being written or its writer died.
- `MarkerAndFilesAgree` follows with crashes, `RunsStayRecorded` is a property of steps: a save is of a copy with no
  run less.
- `FilesImplementLog`: a save is a step of `SessionLog`, all others are stutters.

**Orchestrator**
- `LayersSound`: the inductive invariant. `SortInv` is what topoSort keeps: the agents without a layer are the domain
  of the counters, a counter is the number of places in the agent's dependency list whose name has no layer yet, and
  the dependencies of a placed agent are in earlier layers. `RunInv` and `OutInv` are what Execute keeps: all agents
  of earlier layers have ended, only the current layer's run, the outputs passed on are those of the earlier layers
  that did not fail. `CostInv` relates the sum of the results to what was spent. The core is `CountedDown`: taking a
  layer away lowers the number of missing places by its occurrences, repetitions included.
- `OnlyCyclesRejected`: the reference `Reach` is a recursive function; `GrowthExists` shows, by the least length at
  which it could fail, that a function with that recursion exists, so that `Reach` is what it seems to be. An accepted
  list has no cycle because a path leads to earlier layers only. When no agent is left to peel, each remaining one has
  a remaining dependency; what the remaining ones reach is then never empty, and as names are finitely many one of
  them reaches itself (`SelfReach`: a smallest set that is reached).
- `PassedOnExactly` follows from `OutInv`, `TotalsAddUp` from `CostInv`: the sum of the results and what no result tells
  (`unreported`) is what was spent, and the synthesis adds its own cost to both.
- `EngineImplements`: `Spec => ImplementsWorkflow`. An agent that starts is in the current layer, its dependencies are
  in earlier ones, and these have ended (`Starting`); a new input maps to the workflow's reset because no agent runs
  (`RunInv`).

**Provider**
- `ProviderSound`: the inductive invariant relates what the server has sent, `sent`, to what the parser has assembled:
  `Sending` says that the first is a part of the answer and how far a server may be that has said that it is done;
  `Assembling` says, for each provider, that what is complete was sent as it is, and where what is not complete is.
  Every attempt starts from nothing on both sides, which is why retries lose and repeat nothing.
- `AnswersWhole` takes from it the state in which a stream ends. Its part on what was shown needs `HeardInv`: the pieces
  the user saw are in order in each attempt, and the last attempt's come last.
- `ToolMessagesAlwaysFollow`: `MessagesInv` says that the history as this provider takes it answers each call at its
  place, unless its message was cut; a user's message or an answer behind it disturbs neither. OpenAI and Ollama split
  a message of results into one for each, by a fold over the history; `FlatteningExists` and `FlatteningsAgree` give
  it its recursion, by the shortest history at which it could fail, and `FlattenAppend` says what a new message adds.

**ToolServers**
- `OffersReachTheirServer` needs the types and the list of servers only: with plain and different names just one
  server can match in `Route`, the one that offered the tool; and a qualified name finds no server only if the
  server's own name was split at a dot. `CallsRouted` says that a call under way has the server it was routed to, for
  the next two.
- `NothingIsLeft`: `ProcessInv` gives every process an owner in use (`ProcessesOwned`), or else it has been told and
  waited for, so that only something without pipes can be left of it. Its steps are by kinds of owners (`InUseParts`):
  those of the list that are not closed, the one being started or closed, and the servers of calls under way, which are
  told apart by their call's number (`CallsInOrder`). `StartingInOrder` says what Close has told so far; a server's turn
  comes when all before it have been waited for. `OwnersKept` reduces a step to this: what ceases to be in use has been
  waited for.
- `ChildSpendIsReported`: the counter of a child agent is read and written in two steps, so that calls that overlap
  lose tokens. `SpendInv` adds to the counter what was spent and not yet written, a sum over the calls, and says that
  it is never more than was spent, and exactly that when calls follow one another.

**Recording**
- `Totals(c)` relates the recorder, the row and the turns of a chat: the recorder's totals are the sums over the
  stored turns, the row shows no more, and the same once it is finished. A turn that is stored is a new one
  (`Numbers`: its number is above all stored ones), so that the sums grow by what the recorder adds (`OneMore`).
- `TotalsAreStored`: the second half, about the charts, adds up over sessions what `Totals` says of each
  (`SumOfGroups`).
- `CallsStayInTurn`: `Numbers` says that while tools run, the current turn is the reply that asked, or was not stored.
- `DetailsCohere`: totals only grow, in the store and in the recorder (`Grows`), so that what was read first stays
  below what is read later; `Reading` says so for each point between two queries.

**Hub**
- `HubNeverPanics`: `Registered` says that a registered client's channel is open and that its reader has not left; a
  client is forgotten in the step that closes its channel.
- `EventsWithoutGaps`: `Fed(c)` says it also of the moment in the middle of a delivery: a client still on the list of
  the delivery has everything but the last event. The channel and what was received are one sequence, so that the
  writer moves nothing.

**Evaluation**
- `VerdictsCount`: `InSuite` says that the row of a suite that runs has the results so far, or that one of its writes
  has failed (`whole`), and `RowsCounted` that a row that is over counts its results. Repetitions, mocks and replies
  do not occur in it: the counters are right whatever a scenario says.
- `SnapshotsKeep`: `DataKept` says that what the server returned for each scenario that is over is still there when
  `--update-snapshots` writes the golden files; each assertion on one is then read as the code reads it.

**Audit**
- `ChangesAreComplete`: `DiffInv` says, after each of the four git commands, which files of those that are left in peace
  must be named among the changes, by whichever name: those that differ in what this command compares. A file that
  differs from the snapshot differs in one of the four, whatever lies in between; that, and not the order of the
  commands, carries the proof.
- `FindingsAlwaysReported`: `ScanInv` says of each name that has been scanned that it is among the findings exactly if
  the file of that name has a secret that can be read now. A changed file that has one name only, its own, is among
  them.
- `WatcherAlwaysKeepsUp`: a file has many notices in the queue, in a timer and in callbacks. `Watched` follows the
  *last* one: wherever it is, the scan that it leads to sees what is in the file at present, or has seen it, as long as
  it is not a move.
- `LockedFieldsAlwaysHold`: merging is a recursive function in the code's model, and `MergingExists`, by the least
  length at which it could fail, `MergingKeeps` and `MergedSet` say that it keeps everything of both lists and nothing
  twice.

Model-checked only, and why: liveness (`RequestReturns`, `PromptReturns`, `CallReturns`, `ExecuteReturns`,
`CallAnswered`, `ClosingEnds`, `HubServes`), because fairness and ENABLED are out of TLAPS's reach; and that the
search for a sequence of tools in `EvalAssertions` finds exactly the subsequences (`SequenceFoundAssumption`, which
TLC evaluates for sequences of up to 5 calls), because that is an induction over data. `VerdictsCount` holds whatever
the assertions say.

## 7. Disagreements with the documentation, and behaviour worth a look

Met while modelling; none is hidden by the models, where the part is modelled, and no property depends on it being
otherwise.

Agents and serving
- `config.go:180` calls the budget a limit per request. In the REPL (`agent_chat.go:194`) it is one for the whole
  session: from the message on that meets it, each later message gets a single model turn.
- `handlers.go:236-238` says that a disconnect in mid-stream surfaces as an error of SendMessage. The model call takes
  no context, and the request spends on. Its spend is ledgered all the same.
- `server.go:76` speaks of 10 requests a minute and the limiter is given 60; `ratelimit.go` calls itself a token
  bucket and is a fixed window.
- The spend of a child agent's failed run is reported nowhere, and an orchestrator's total leaves out all that its
  agents spend by agents they use as tools (`engine.go:256`).
- After a budget stop the REPL goes on with the last turn's tool calls unanswered in the history (`runtime.go:335`,
  `agent_chat.go:443`), and each later request carries them to the provider.
- The recorder is given the session's cumulative cost for each turn and adds it up again.

Tool servers
- Two calls under way together on one MCP server can return each other's answer: the id of a response is never compared
  (`harness.go:190`, `:244`).
- A server launched directly is killed when its start-up context is cancelled, right after StartServer returned
  (`agent_chat.go:124-126`, `servermgr.go:65`).
- Only the direct child is ever killed or, by Close, waited for. A container behind `docker run`, or the viewer behind
  `npx`, that ignores the end of its input or the interrupt stays when the program has ended; Close waits for ever for a
  server behind `uv` or `npx` that does (`harness.go:185`, `lifecycle.go:81`).
- A tool that the filter removed can still be called by its qualified name. A server with a dot in its name cannot be
  called when names are qualified.

Providers
- A retried Anthropic stream shows again what the failed attempt had shown; OpenAI and Ollama take a stream that
  breaks off for a complete answer; Ollama's parser drops the tool calls of later chunks, and its ids repeat from turn
  to turn.

Palette, dashboard
- Close during a dial leaves a connection behind that nobody closes (`client.go:160`, `:196`). Unsubscribing uses an
  index that earlier unsubscriptions have shifted.
- Tools that run in parallel write to the chat's WebSocket at the same time. The `eval:*` events are never published, so
  `/ws/eval` stays silent; the dashboard opens `evals.db` while the commands write `eval.db`.

Recording and evaluation
- Of two processes that open a new store at once, the later one's recorder is disabled. Pruning deletes the session of a
  chat that has been running for 30 days.
- The eval runner's price table, said to match the runtime's, lacks models that `requirePricedModelForSuites` accepts:
  `max_cost_usd` cannot fail for them. A suite's settings for model and temperature are checked and not applied.
- Server evaluations use the suite's name as their target, so servers with suites of the same name share baselines;
  baselines of agents are read by nothing. `LoadLastRun` filters after the newest ten.
- `--update-snapshots` writes the whole result where `golden_file` may compare a field of it, and null for a scenario
  that could not be run.

Vigil
- `git.go:55` says that DiffSince lists all changes and `git.go:215` that renames are handled. `parseNumstatLine`
  takes the third of the fields that blanks separate: `my file.txt` becomes `my`, a rename `src/{a.go => b.go}`
  becomes `src/{a.go`, `a => b` becomes `a`, and git's quotes stay. The file is then not among the changes, and a
  secret in it is looked for in a file that does not exist.
- `org.go:15` says that locked fields cannot be overridden, and the README (`README.md:279`) that `policy validate`
  catches violations. A lock on `allowed_write` or `custom_patterns_file` has no case in `MergeOrgPolicy` and does
  nothing.
- `vigil run` can write its copy of an active session over one that `vigil stop` has just completed (`manager.go:94`,
  `:153`).
- The organisation's policy is merged by `policy show` and `policy validate` only; stop, audit and run use the
  project's. Validation complains of defaults that nobody touched and lets an empty list pass. A project whose patterns
  are an empty list, and that names no file of them, is scanned with those of the package. `scan_agent_output` and
  `scan_commits` are read by nothing.
- A file that is binary, cannot be read or has a line too long is skipped by the scanner without a word. The watcher
  takes no note of a file that is moved away.
- A deletion of a read-only file is reported as a write, since no change has the type that the check excepts.
- A stop whose git commands fail, or that gets no policy engine, completes the session as if there had been no
  violations.
- Stop of the watcher says it flushes pending timers and drops them; a callback already running adds its change after
  Stop. Files made in a new directory before its watch is in place are not seen.

Development server
- Restarts that overlap leave a child process behind.

## 8. What is not modelled

- In modelled components. Runtime: /compact, tool approval, the management of servers in the REPL. Serving API: rate
  limiting, authentication, CORS, read-only endpoints. Palette: handler registration, feature negotiation; handlers of
  the application are taken to return without calling the client. Vigil sessions: a write that fails while the process
  lives, the SQLite index. MCP: a full stdin pipe, which blocks a caller past its context, and what two readers do to
  a `bufio.Reader` that they share without a lock beyond taking each other's lines. Orchestrator: `handoff.go` and the
  handoff mode, which the engine never uses. Providers: credentials and reachability tests. Tool servers: adding and
  removing of servers in the REPL, the arguments of container commands. Evaluation: statistics of the aggregator,
  formats of reports. Recording: full-text search, the other charts. Hub: the chat connection itself. Policy: skill
  files, audits of a range of commits; git is modelled by what the four commands print of the trees.
- Development server, rate limiter, tool security filter: one harness client, one counter under one mutex, and string
  matching. The rest of `PROJECT.json`'s components is text generation, parsing, rendering and plain queries, left to
  unit tests: their state space is that of their input.

## 9. Plan

Written, in this order: `MeteredRequest` and `AgentRuntime`; `ServingBudget`; `PaletteClient`; `SessionLog` and
`VigilSession`; `McpClient`; `Workflow` and `Orchestrator`; the proofs of the first and the last; `Provider`;
`ToolServers`; `EvalAssertions` and `Evaluation`; `Recording`; `Hub`; `Audit`.

The proofs followed, and with them `Sums`: the runtime, the serving API, the palette client, vigil sessions, the
orchestrator, the recorder and the hub first, then `McpClient`, `ToolServers`, `Evaluation`, `Audit` and `Provider`.
For them `ServingBudget`, `Orchestrator` and `Recording` use the sum of the community modules that `Sums` is about,
`NoGaps`, `HeardByAttempt` and `ToolMessagesFollow` were restated by positions, and `Provider` says how far the server
has come (`sent`) instead of choosing all of its lines at the start.

Next models: the development server (`Reloader`), and the serving API's limiter in front of `ServingBudget`. Their
theorems would be that one child runs at a time when restarts do not overlap, and that a window admits no more than its
limit.
